----------------------------- MODULE TurnProofs -----------------------------
(***************************************************************************)
(* Theorems about the turn with the model, the client of the provider and  *)
(* the display: for any answers in any order of events, any number of      *)
(* turns, rounds and failures, any sizes of the buffers, and any presses   *)
(* of the button.                                                          *)
(***************************************************************************)
EXTENDS Turn, SequenceTheorems, FiniteSetTheorems, WellFoundedInduction, TLAPS

(***************************************************************************)
(* Types                                                                   *)
(***************************************************************************)
Record == [item : Nat, state : {"pending", "ready", "discarded"}, args : {"none", "part", "whole"},
           name : BOOLEAN, order : Nat]
Piece  == [item : Nat, piece : {"part", "whole"}]
Result == [arena : Seq(Record), orders : Nat, text : Seq(Piece), named : BOOLEAN, error : BOOLEAN]
Answer0 == [items : Seq({"say", "call"}), style : {"full", "terse", "brief"}, sent : Seq(0..Closed),
            cut : BOOLEAN]

ClientTyped ==
  /\ client \in [at : {"off", "connect", "read"}, verdict : {"none", "ok", "failed"}]
  /\ ready \in BOOLEAN /\ result \in Result /\ trouble \in Nat
  /\ answer \in Answer0 /\ DOMAIN answer.sent = Items

Places == {"idle", "command", "build", "infer", "wait", "say", "flush", "keep", "compact", "summary",
           "tools", "over"}
Turns  == [at : Places, kind : {"chat", "serial", "job", "command"}, round : Nat, ok : BOOLEAN]
Saids  == [progress : BOOLEAN, fallback : BOOLEAN, slow : BOOLEAN, blank : BOOLEAN]
Entry  == Nat \X Nat

TurnTyped ==
  /\ scene \in Scenes
  /\ turn \in Turns
  /\ trace \in Seq(Entry) /\ ran \in Seq(Entry) /\ offset \in Nat
  /\ said \in Saids
  /\ finals \in Nat /\ kept \in BOOLEAN
  /\ stops \in Nat /\ poller \in {"free", "photo", "quick"} /\ photoFailed \in BOOLEAN
  /\ turns \in Nat

Faces    == [activity : {"idle", "thinking", "responding"}, mood : {"happy", "sad"}]
Locals   == [on : BOOLEAN, page : {"face", "jobs"}, index : Nat, first : BOOLEAN, last : Faces,
             count : Nat, down : BOOLEAN, pressed : BOOLEAN, held : BOOLEAN]
Buttons  == [down : BOOLEAN, long : BOOLEAN]
Watch    == [ready : BOOLEAN, pressed : BOOLEAN]
Pictures == [page : {"dark", "torn", "face", "jobs"}, face : Faces, index : Nat]

DisplayTyped ==
  /\ busy \in BOOLEAN /\ response \in BOOLEAN /\ face \in Faces
  /\ button \in Buttons /\ jobCount \in Nat
  /\ task \in Locals /\ wake \in Watch /\ shown \in Pictures
  /\ presses \in Nat /\ spoilt \in Nat

(***************************************************************************)
(* The face.  The two flags say what is under way, unless the poller has   *)
(* given a photo up in the middle of a turn; a mood may be left of that    *)
(* turn until it is over.                                                  *)
(***************************************************************************)
FaceInv ==
  /\ turn.at # "idle" /\ ~photoFailed => busy
  /\ busy => turn.at # "idle" \/ poller = "photo"
  /\ response => stops > 0 \/ poller = "quick"
  /\ turn.at = "idle" /\ ~busy /\ ~response => face = AtRest
  /\ turn.at # "idle" /\ ~photoFailed => face.activity # "idle"

(***************************************************************************)
(* The button.  Once a press has switched, the side that could switch back *)
(* does not take it for a press of its own.                                *)
(***************************************************************************)
ButtonInv ==
  /\ button.long => button.down
  /\ switches \in 0..1
  /\ switches = 1 /\ button.down =>
       IF task.on THEN task.down /\ ~task.pressed ELSE ~wake.ready

(***************************************************************************)
(* The client.  Of one item there is at most one record in use, and their  *)
(* orders are those of the items.  While the stream is read, what is there *)
(* is what has been sent; only of item i, the last one, it may be torn.    *)
(***************************************************************************)
InUse(r) == {k \in DOMAIN r.arena : r.arena[k].state # "discarded"}

InOrder(r) ==
  /\ \A k \in DOMAIN r.arena : r.arena[k].order \in 1..r.orders
  /\ \A k, l \in InUse(r) : r.arena[k].item = r.arena[l].item => k = l
  /\ \A k, l \in InUse(r) : r.arena[k].order < r.arena[l].order <=> r.arena[k].item < r.arena[l].item

Asked(sent) ==
  \A i \in Items : \A j \in 1..(i - 1) :
    sent[i] > 0 => sent[j] > 0 /\ (answer.items[j] = "say" => sent[j] = Closed)

CallsRead(r, sent, i, content) ==
  /\ \A k \in DOMAIN r.arena :
       /\ r.arena[k].item \in Of("call") /\ sent[r.arena[k].item] > 0
       /\ r.arena[k].state = "ready" => r.arena[k].args = "whole" \/ (r.arena[k].item = i /\ r.arena[k].args = content)
  /\ \A j \in Of("call") :
       sent[j] > 0 => \E k \in InUse(r) : /\ r.arena[k].item = j
                                          /\ r.arena[k].state = IF sent[j] = 1 THEN "pending" ELSE "ready"

TextRead(r, sent, i, content) ==
  /\ \A n \in DOMAIN r.text :
       /\ r.text[n].item \in Of("say") /\ sent[r.text[n].item] > 1
       /\ r.text[n].piece = "whole" \/ (r.text[n].item = i /\ r.text[n].piece = content /\ n = Len(r.text))
  /\ \A m, n \in DOMAIN r.text : m < n => r.text[m].item < r.text[n].item
  /\ \A j \in Of("say") : sent[j] > 1 => \E n \in DOMAIN r.text : r.text[n].item = j

AsSent(r, sent, i, content) ==
  ~r.error => InOrder(r) /\ CallsRead(r, sent, i, content) /\ TextRead(r, sent, i, content)

ClientInv ==
  /\ client.at = "read" => ~answer.cut /\ Asked(answer.sent) /\ AsSent(result, answer.sent, 0, "whole")
  /\ AnswerAsSent

(***************************************************************************)
(* The calls of a turn, and what the model is told of them.                *)
(***************************************************************************)
Earlier(a, b) == a[1] < b[1] \/ (a[1] = b[1] /\ a[2] < b[2])

RanInv ==
  /\ client.at # "off" => turn.at \in {"wait", "summary"}
  /\ turn.at = "tools" => client.verdict = "ok"
  /\ turn.at \in {"wait", "tools"} => turn.round > 0
  /\ \A a, b \in DOMAIN ran : a < b => Earlier(ran[a], ran[b])
  /\ \A a \in DOMAIN ran :
       /\ ran[a][1] <= turn.round
       /\ turn.at = "wait" => ran[a][1] < turn.round
       /\ turn.at = "tools" /\ ran[a][1] = turn.round =>
            \E k \in Ready(result) : result.arena[k].item = ran[a][2] /\ result.arena[k].order <= offset
  /\ turn.at = "tools" =>
       \A k \in Ready(result) :
         result.arena[k].order <= offset => <<turn.round, result.arena[k].item>> \in Range(ran)

ToldInv ==
  /\ turn.at \notin {"over", "idle"} => Outcomes = ran
  /\ OutcomesTold

(***************************************************************************)
(* How long a turn gets.  A batch has a call left when it begins, and each *)
(* call leaves an entry; so every round adds to the trace, which must fit  *)
(* the request before there is another.                                    *)
(***************************************************************************)
BoundInv ==
  /\ Len(trace) <= TraceSize /\ Len(ran) <= Len(trace) + 1
  /\ turn.at \notin {"over", "idle"} => Len(ran) <= Len(trace)
  /\ turn.round <= RequestSize + 1
  /\ turn.at \in {"build", "infer"} => turn.round <= Len(trace)
  /\ turn.at = "infer" => Len(trace) <= RequestSize
  /\ turn.at \in {"wait", "tools"} => turn.round <= Len(trace) + 1
  /\ turn.at = "tools" => Left(result, offset) # {} \/ turn.round <= Len(trace)

(***************************************************************************)
(* The final text.                                                         *)
(***************************************************************************)
FinalInv ==
  /\ turn.at \in {"command", "build", "infer", "wait", "say", "tools"} => finals = 0
  /\ turn.at = "flush" => finals = 1
  /\ turn.at \in {"keep", "compact", "summary"} => finals = 1 \/ (finals = 0 /\ ~turn.ok /\ said.blank)
  /\ turn.at = "over" => TurnAnswered

(***************************************************************************)
(* The display                                                             *)
(***************************************************************************)
LEMMA DrawnTyped ==
  ASSUME DisplayTyped, NEW t \in Locals, NEW pic \in Pictures, Drawn(t, pic)
  PROVE  task' = t /\ shown' \in Pictures /\ spoilt' \in Nat
<1>1. Torn \in Pictures
  BY DEF Torn, AtRest, Faces, Pictures
<1> QED
  BY <1>1 DEF Drawn, DisplayTyped

LEMMA SeenLocals ==
  ASSUME DisplayTyped
  PROVE  /\ Seen(task) \in Locals /\ Clicked(Seen(task)) \in Locals
         /\ Seen(task).on = task.on /\ Clicked(Seen(task)).on = task.on
         /\ Clicked(Seen(task)).down = Seen(task).down
         /\ Clicked(Seen(task)).pressed = Seen(task).pressed
<1>1. task \in Locals /\ jobCount \in Nat
  BY DEF DisplayTyped, Locals
<1>2. Seen(task) \in Locals /\ Seen(task).on = task.on
  BY <1>1 DEF Seen, Locals
<1>3. ASSUME NEW t \in Locals
      PROVE  /\ Clicked(t) \in Locals
             /\ Clicked(t).on = t.on /\ Clicked(t).down = t.down /\ Clicked(t).pressed = t.pressed
  <2>1. jobCount # 0 => (t.index + 1) % jobCount \in Nat
    BY <1>1, <1>3 DEF Locals
  <2> QED
    BY <1>3, <2>1 DEF Clicked, Locals
<1> QED
  BY <1>2, <1>3

LEMMA RoundMoves ==
  ASSUME DisplayTyped, NEW blink \in BOOLEAN, TaskRound(blink)
  PROVE  /\ task' \in Locals
         /\ task'.on = task.on /\ task'.down = Seen(task).down /\ task'.pressed = Seen(task).pressed
         /\ shown' \in Pictures /\ spoilt' \in Nat
         /\ UNCHANGED <<mind, wake, switches, jobCount, button, presses>>
<1>0. /\ Seen(task) \in Locals /\ Clicked(Seen(task)) \in Locals
      /\ Seen(task).on = task.on /\ Clicked(Seen(task)).on = task.on
      /\ Clicked(Seen(task)).down = Seen(task).down
      /\ Clicked(Seen(task)).pressed = Seen(task).pressed
  BY SeenLocals
<1>1. CASE Event = "hold"
  <2>1. task' = [Seen(task) EXCEPT !.page = "face", !.first = TRUE] /\ UNCHANGED <<wake, shown, switches, spoilt>>
    BY <1>1 DEF TaskRound
  <2> HIDE DEF Seen
  <2> QED
    BY <1>0, <2>1 DEF TaskRound, DisplayTyped, Locals
<1>2. CASE Event # "hold"
  <2> DEFINE t == IF Event = "click" THEN Clicked(Seen(task)) ELSE Seen(task)
  <2>1. Face(t, blink) \/ Jobs(t)
    BY <1>2 DEF TaskRound
  <2>2. /\ t \in Locals /\ t.on = task.on /\ t.down = Seen(task).down /\ t.pressed = Seen(task).pressed
    BY <1>0
  <2> HIDE DEF t
  <2>3. UNCHANGED <<mind, wake, switches, jobCount, button, presses>>
    BY <1>2 DEF TaskRound
  <2>4. face \in Faces /\ AtRest \in Faces /\ jobCount \in Nat
    BY DEF DisplayTyped, AtRest, Faces
  <2>5. CASE task' = t /\ UNCHANGED <<shown, spoilt>>
    BY <2>2, <2>3, <2>5 DEF DisplayTyped
  <2>6. CASE Face(t, blink) /\ ~(task' = t /\ UNCHANGED <<shown, spoilt>>)
    <3> DEFINE u   == [t EXCEPT !.first = FALSE, !.last = face]
               pic == [page |-> "face", face |-> face, index |-> 0]
    <3>1. Drawn(u, pic)
      BY <2>6 DEF Face
    <3>2. u \in Locals /\ u.on = t.on /\ u.down = t.down /\ u.pressed = t.pressed
      BY <2>2, <2>4 DEF Locals
    <3>3. pic \in Pictures
      BY <2>4 DEF Pictures
    <3> HIDE DEF u, pic
    <3> QED
      BY <2>2, <2>3, <3>1, <3>2, <3>3, DrawnTyped DEF Locals
  <2>7. CASE Jobs(t) /\ ~(task' = t /\ UNCHANGED <<shown, spoilt>>)
    <3> DEFINE index == IF jobCount # 0 /\ t.index >= jobCount THEN 0 ELSE t.index
               u     == [t EXCEPT !.index = index, !.first = FALSE, !.count = jobCount]
               pic   == [page |-> "jobs", face |-> AtRest, index |-> index]
    <3>1. Drawn(u, pic)
      BY <2>7 DEF Jobs
    <3>0. index \in Nat
      BY <2>2, <2>4 DEF Locals
    <3> HIDE DEF index
    <3>2. u \in Locals /\ u.on = t.on /\ u.down = t.down /\ u.pressed = t.pressed
      BY <2>2, <2>4, <3>0 DEF Locals
    <3>3. pic \in Pictures
      BY <2>4, <3>0 DEF Pictures
    <3> HIDE DEF u, pic
    <3> QED
      BY <2>2, <2>3, <3>1, <3>2, <3>3, DrawnTyped DEF Locals
  <2> QED
    BY <2>1, <2>5, <2>6, <2>7
<1> QED
  BY <1>1, <1>2

\* What of the display the agent, the poller and the sender change.
Reports ==
  /\ busy' \in BOOLEAN /\ response' \in BOOLEAN /\ face' \in Faces
  /\ UNCHANGED <<panel, jobCount, button, presses, spoilt>>

LEMMA ReportsMade ==
  ASSUME DisplayTyped
  PROVE  /\ SendFinal \/ Send(Taken) \/ NothingSaid => Reports
         /\ AgentBegin /\ UNCHANGED response /\ MindOnly => Reports
         /\ AgentEnd /\ UNCHANGED response /\ MindOnly => Reports
         /\ ResponseBegin /\ UNCHANGED busy /\ MindOnly => Reports
         /\ ResponseEnd /\ UNCHANGED busy /\ MindOnly => Reports
         /\ Filtered /\ UNCHANGED <<busy, response>> /\ MindOnly => Reports
         /\ UNCHANGED display => Reports
<1>1. busy \in BOOLEAN /\ response \in BOOLEAN /\ face \in Faces /\ AtRest \in Faces
  BY DEF DisplayTyped, AtRest, Faces
<1>2. \A f \in Faces : /\ [f EXCEPT !.activity = "thinking"] \in Faces
                       /\ [f EXCEPT !.activity = "responding"] \in Faces
                       /\ [f EXCEPT !.mood = "sad"] \in Faces
                       /\ [f EXCEPT !.mood = f.mood] = f
  BY DEF Faces
<1>3. AgentBegin /\ UNCHANGED response /\ MindOnly => Reports
  BY <1>1, <1>2 DEF AgentBegin, MindOnly, Reports
<1>4. AgentEnd /\ UNCHANGED response /\ MindOnly => Reports
  BY <1>1, <1>2 DEF AgentEnd, MindOnly, Reports
<1>5. ResponseBegin /\ UNCHANGED busy /\ MindOnly => Reports
  BY <1>1, <1>2 DEF ResponseBegin, MindOnly, Reports
<1>6. ResponseEnd /\ UNCHANGED busy /\ MindOnly => Reports
  BY <1>1, <1>2 DEF ResponseEnd, MindOnly, Reports
<1>7. Filtered /\ UNCHANGED <<busy, response>> /\ MindOnly => Reports
  BY <1>1, <1>2 DEF Filtered, Mood, MindOnly, Reports
<1>8. NothingSaid \/ UNCHANGED display => Reports
  BY <1>1 DEF NothingSaid, display, mind, Reports
<1>9. ASSUME NEW taken, Send(taken)
      PROVE  Reports
  BY <1>1, <1>2, <1>9 DEF Send, ResponseBegin, MindOnly, Reports
<1> QED
  BY <1>3, <1>4, <1>5, <1>6, <1>7, <1>8, <1>9 DEF SendFinal

(* Whoever makes a step, the display is reported to, or does it itself.    *)
LEMMA DisplayMoves ==
  ASSUME DisplayTyped, [TurnNext]_all
  PROVE  Reports \/ Screen \/ World
<1>1. CASE Agent
  <2>1. CASE Command \/ BuildRequest \/ Infer \/ InferFails \/ Say \/ Flushed \/ Keep \/ Compact
             \/ Summarised \/ RunCall \/ BatchDone
    BY <2>1, ReportsMade DEF Command, BuildRequest, Infer, InferFails, Say, Flushed, Keep, Compact,
                             Summarised, RunCall, BatchDone, GiveUp
  <2>2. CASE Answer \/ TurnOver
    BY <2>2, ReportsMade DEF Answer, TurnOver
  <2>3. CASE Progress
    <3>1. SendFinal \/ ((Filtered \/ UNCHANGED face) /\ UNCHANGED <<busy, response>> /\ MindOnly)
      BY <2>3 DEF Progress
    <3>2. UNCHANGED face /\ UNCHANGED <<busy, response>> /\ MindOnly => UNCHANGED display
      BY DEF display, mind, MindOnly
    <3> QED
      BY <3>1, <3>2, ReportsMade
  <2> QED
    BY <1>1, <2>1, <2>2, <2>3 DEF Agent
<1>2. CASE ClientStep \/ ProviderStep \/ UNCHANGED all
  BY <1>2, ReportsMade DEF ClientStep, ProviderStep, all
<1>3. CASE SenderStops \/ Poller
  BY <1>3, ReportsMade DEF SenderStops, Poller, MediaError, QuickDone, PhotoTaken
<1>4. CASE Arrives
  BY <1>4, ReportsMade DEF Arrives, Take, PollerBegins
<1> QED
  BY <1>1, <1>2, <1>3, <1>4 DEF TurnNext, ScreenStep, WorldStep

LEMMA DisplayKeepsTypes ==
  ASSUME DisplayTyped, Reports \/ Screen \/ World
  PROVE  DisplayTyped'
<1>0. JobCounts \subseteq Nat /\ MaxSpoilt \in Nat /\ MaxPresses \in Nat
  BY DisplayAssumption
<1>1. \A down \in BOOLEAN : Started(down) \in Locals
  BY DEF Started, Locals, AtRest, Faces
<1>2. Stopped \in Locals
  BY DEF Stopped, Started, Locals, AtRest, Faces
<1>3. Dark \in Pictures
  BY DEF Dark, Pictures, AtRest, Faces
<1>8. /\ [ready |-> TRUE, pressed |-> FALSE] \in Watch /\ [ready |-> FALSE, pressed |-> FALSE] \in Watch
      /\ wake \in Watch => [wake EXCEPT !.pressed = TRUE] \in Watch
  BY DEF Watch
<1>9. /\ [down |-> TRUE, long |-> FALSE] \in Buttons /\ [down |-> FALSE, long |-> FALSE] \in Buttons
      /\ button \in Buttons => [button EXCEPT !.long = TRUE] \in Buttons
  BY DEF Buttons
<1>4. CASE Reports
  BY <1>4 DEF Reports, panel, DisplayTyped
<1>5. CASE \E blink \in BOOLEAN : TaskRound(blink)
  <2>1. PICK blink \in BOOLEAN : TaskRound(blink)
    BY <1>5
  <2>2. /\ task' \in Locals /\ shown' \in Pictures /\ spoilt' \in Nat
        /\ UNCHANGED <<mind, wake, switches, jobCount, button, presses>>
    BY <2>1, RoundMoves
  <2> QED
    BY <2>2 DEF mind, DisplayTyped
<1>6. CASE SwitchOff \/ WakeTimer
  <2>1. UNCHANGED <<mind, jobCount, button, presses, spoilt>> /\ task' \in Locals /\ shown' \in Pictures
    BY <1>1, <1>2, <1>3, <1>6 DEF SwitchOff, WakeTimer, DisplayTyped
  <2>2. \/ wake' = [ready |-> TRUE, pressed |-> FALSE] \/ wake' = [ready |-> FALSE, pressed |-> FALSE]
        \/ wake' = [wake EXCEPT !.pressed = TRUE]
    BY <1>6 DEF SwitchOff, WakeTimer
  <2> QED
    BY <1>8, <2>1, <2>2 DEF mind, DisplayTyped
<1>7. CASE World
  <2>1. /\ presses' \in Nat /\ spoilt' \in Nat /\ jobCount' \in Nat
        /\ UNCHANGED <<mind, task, shown>>
    BY <1>0, <1>7 DEF World, Press, KeepDown, Release, WakeFails, JobsChange, mind, panel, DisplayTyped
  <2>2. \/ button' = [down |-> TRUE, long |-> FALSE] \/ button' = [down |-> FALSE, long |-> FALSE]
        \/ button' = [button EXCEPT !.long = TRUE] \/ button' = button
    BY <1>7 DEF World, Press, KeepDown, Release, WakeFails, JobsChange
  <2>3. wake' = [ready |-> FALSE, pressed |-> FALSE] \/ wake' = wake
    BY <1>7 DEF World, Press, KeepDown, Release, WakeFails, JobsChange, panel
  <2> QED
    BY <1>8, <1>9, <2>1, <2>2, <2>3 DEF mind, DisplayTyped
<1> QED
  BY <1>4, <1>5, <1>6, <1>7 DEF Screen

LEMMA ButtonKept ==
  ASSUME DisplayTyped, ButtonInv, Reports \/ Screen \/ World
  PROVE  ButtonInv'
<1>1. CASE Reports
  BY <1>1 DEF Reports, panel, ButtonInv
<1>2. ASSUME NEW blink \in BOOLEAN, TaskRound(blink)
      PROVE  ButtonInv'
  <2>1. /\ task'.on = task.on /\ task'.down = Seen(task).down /\ task'.pressed = Seen(task).pressed
        /\ UNCHANGED <<wake, switches, button>>
    BY <1>2, RoundMoves
  <2>2. task.down /\ ~task.pressed /\ button.down => Seen(task).down /\ ~Seen(task).pressed
    BY DEF DisplayTyped, Locals, Buttons, Seen, Event
  <2> QED
    BY <2>1, <2>2 DEF ButtonInv
<1>3. CASE SwitchOff
  <2>1. Event = "hold" => button.long /\ task.pressed
    BY DEF Event
  <2>2. switches = 0
    BY <1>3, <2>1 DEF SwitchOff, ButtonInv
  <2> QED
    BY <1>3, <2>2 DEF SwitchOff, ButtonInv, Stopped, Started
<1>4. CASE WakeTimer
  <2>1. CASE UNCHANGED <<task, switches>>
    BY <1>4, <2>1 DEF WakeTimer, ButtonInv, DisplayTyped, Watch, Buttons
  <2>2. CASE ~UNCHANGED <<task, switches>>
    BY <1>4, <2>2 DEF WakeTimer, ButtonInv, DisplayTyped, Watch, Started
  <2> QED
    BY <2>1, <2>2
<1>5. CASE World
  BY <1>5 DEF World, Press, KeepDown, Release, WakeFails, JobsChange, panel, ButtonInv, DisplayTyped, Watch, Buttons
<1> QED
  BY <1>1, <1>2, <1>3, <1>4, <1>5 DEF Screen

(***************************************************************************)
(* The face                                                                *)
(***************************************************************************)
\* A step inside a turn.
Within == turn.at # "idle" /\ turn'.at # "idle" /\ UNCHANGED <<poller, photoFailed>>

LEMMA FaceOfSend ==
  ASSUME TurnTyped, DisplayTyped, FaceInv, Within, SendFinal \/ Send(Taken)
  PROVE  FaceInv'
<1>0. PICK taken : Send(taken)
  BY DEF SendFinal
<1>1. CASE turn.kind = "serial"
  BY <1>0, <1>1 DEF Within, Send, FaceInv, TurnTyped, DisplayTyped, Faces
<1>2. CASE turn.kind # "serial"
  BY <1>0, <1>2 DEF Within, Send, ResponseBegin, FaceInv, TurnTyped, DisplayTyped, Faces
<1> QED
  BY <1>1, <1>2

LEMMA FaceOfReturn ==
  ASSUME FaceInv, Within, NothingSaid \/ UNCHANGED <<channel, display>>
  PROVE  FaceInv'
BY DEF Within, NothingSaid, channel, display, mind, FaceInv

LEMMA FaceOfFilter ==
  ASSUME DisplayTyped, FaceInv, Within, UNCHANGED <<busy, response, stops>>, Filtered \/ UNCHANGED face
  PROVE  FaceInv'
BY DEF Within, Filtered, Mood, FaceInv, DisplayTyped, Faces

LEMMA FaceKept ==
  ASSUME TurnTyped, DisplayTyped, FaceInv, [TurnNext]_all
  PROVE  FaceInv'
<1>0. turn \in [at : Places, kind : {"chat", "serial", "job", "command"}, round : Nat, ok : BOOLEAN]
  BY DEF TurnTyped, Turns
<1>1. CASE Agent
  <2>0. SendFinal \/ Send(Taken) \/ NothingSaid => UNCHANGED <<poller, photoFailed>>
    BY DEF SendFinal, Send, NothingSaid
  <2>1. CASE Command \/ Say
    <3>1. turn.at # "idle" /\ turn'.at # "idle"
      BY <2>1, <1>0 DEF Command, Say, Return
    <3> QED
      BY <2>0, <2>1, <3>1, FaceOfSend DEF Command, Say, Within
  <2>2. CASE Infer \/ Flushed \/ Keep \/ Compact \/ Summarised \/ BatchDone
    BY <2>2, <1>0, FaceOfReturn DEF Infer, Flushed, Keep, Compact, Summarised, BatchDone, Return, At, Within,
                                    NothingSaid
  <2>3. CASE BuildRequest
    BY <2>3, <2>0, <1>0, FaceOfReturn, FaceOfSend DEF BuildRequest, GiveUp, Return, At, Within
  <2>4. CASE InferFails
    BY <2>4, <2>0, <1>0, FaceOfReturn, FaceOfSend DEF InferFails, Answered, GiveUp, Return, At, Within
  <2>5. CASE RunCall
    BY <2>5, <2>0, <1>0, FaceOfReturn, FaceOfSend DEF RunCall, GiveUp, Return, At, Within
  <2>6. CASE Answer
    BY <2>6, <1>0, FaceOfFilter DEF Answer, Answered, At, Within, channel
  <2>7. CASE Progress
    <3>1. CASE SendFinal /\ Return(FALSE)
      BY <2>0, <2>7, <3>1, <1>0, FaceOfSend DEF Progress, Answered, Return, Within
    <3>2. CASE At("tools") /\ UNCHANGED <<busy, response, finals, channel>> /\ (Filtered \/ UNCHANGED face)
      BY <2>7, <3>2, <1>0, FaceOfFilter DEF Progress, Answered, At, Within, channel
    <3> QED
      BY <2>7, <3>1, <3>2 DEF Progress
  <2>8. CASE TurnOver
    BY <2>8, <1>0 DEF TurnOver, At, AgentEnd, channel, FaceInv
  <2> QED
    BY <1>1, <2>1, <2>2, <2>3, <2>4, <2>5, <2>6, <2>7, <2>8 DEF Agent
<1>2. CASE UNCHANGED <<turn, channel, mind>>
  BY <1>2 DEF channel, mind, FaceInv
<1>3. CASE ClientStep \/ ProviderStep \/ ScreenStep \/ WorldStep \/ UNCHANGED all
  <2>1. UNCHANGED <<agentTurn, channel>>
    BY <1>3 DEF ClientStep, ProviderStep, ScreenStep, WorldStep, all
  <2>2. UNCHANGED mind
    BY <1>3 DEF ClientStep, ProviderStep, ScreenStep, WorldStep, all, display, Screen, TaskRound, SwitchOff,
                WakeTimer, World, Press, KeepDown, Release, WakeFails, JobsChange
  <2> QED
    BY <1>2, <2>1, <2>2 DEF agentTurn, process
<1>4. CASE SenderStops
  BY <1>4 DEF SenderStops, ResponseEnd, agentTurn, process, FaceInv, TurnTyped, DisplayTyped
<1>5. CASE MediaError
  BY <1>5 DEF MediaError, AgentEnd, agentTurn, process, FaceInv, TurnTyped, DisplayTyped
<1>6. CASE QuickDone
  BY <1>6 DEF QuickDone, agentTurn, process, display, mind, FaceInv, TurnTyped
<1>7. CASE PhotoTaken \/ \E kind \in scene.kinds : Take(kind)
  BY <1>7 DEF PhotoTaken, Take, AgentBegin, FaceInv, DisplayTyped, Faces
<1>8. ASSUME NEW what \in {"photo", "quick"}, PollerBegins(what)
      PROVE  FaceInv'
  BY <1>8 DEF PollerBegins, AgentBegin, ResponseBegin, process, FaceInv, DisplayTyped, Faces
<1> QED
  BY <1>1, <1>3, <1>4, <1>5, <1>6, <1>7, <1>8 DEF TurnNext, Poller, Arrives

(***************************************************************************)
(* The arena of the client                                                 *)
(***************************************************************************)
LEMMA Discarded ==
  ASSUME NEW r \in Result, NEW item \in Nat, NEW d, d = Discard(r, item)
  PROVE  /\ d \in Result /\ Len(d.arena) = Len(r.arena)
         /\ d.orders = r.orders /\ d.text = r.text /\ d.named = r.named /\ d.error = r.error
         /\ \A k \in 1..Len(r.arena) :
              /\ d.arena[k].item = r.arena[k].item /\ d.arena[k].order = r.arena[k].order
              /\ d.arena[k].args = r.arena[k].args
              /\ d.arena[k].state = IF r.arena[k].item = item /\ r.arena[k].state = "pending"
                                    THEN "discarded" ELSE r.arena[k].state
         /\ Find(r, item, "pending") = {} => d = r
<1> DEFINE F    == Find(r, item, "pending")
           made == [k \in DOMAIN r.arena |-> IF k \in F THEN [r.arena[k] EXCEPT !.state = "discarded"] ELSE r.arena[k]]
<1>1. /\ r.arena \in Seq(Record) /\ r.orders \in Nat /\ r.text \in Seq(Piece) /\ r.named \in BOOLEAN /\ r.error \in BOOLEAN
      /\ r = [arena |-> r.arena, orders |-> r.orders, text |-> r.text, named |-> r.named, error |-> r.error]
  BY DEF Result
<1>2. d = [arena |-> made, orders |-> r.orders, text |-> r.text, named |-> r.named, error |-> r.error]
  BY <1>1 DEF Discard
<1>3. Len(r.arena) \in Nat /\ DOMAIN r.arena = 1..Len(r.arena) /\ \A k \in 1..Len(r.arena) : r.arena[k] \in Record
  BY <1>1
<1>4. \A k \in 1..Len(r.arena) : k \in F <=> r.arena[k].item = item /\ r.arena[k].state = "pending"
  BY <1>3 DEF Find
<1>5. \A x \in Record : /\ [x EXCEPT !.state = "discarded"] \in Record
                        /\ [x EXCEPT !.state = "discarded"].item = x.item
                        /\ [x EXCEPT !.state = "discarded"].order = x.order
                        /\ [x EXCEPT !.state = "discarded"].args = x.args
                        /\ [x EXCEPT !.state = "discarded"].state = "discarded"
  BY DEF Record
<1> HIDE DEF F
<1>6. \A k \in 1..Len(r.arena) : made[k] \in Record
  BY <1>3, <1>5
<1>7. made \in [1..Len(r.arena) -> Record]
  BY <1>3, <1>6
<1>8. made \in Seq(Record) /\ Len(made) = Len(r.arena)
  BY <1>3, <1>7
<1>9. F = {} => made = r.arena
  BY <1>3, <1>1
<1>10. \A k \in 1..Len(r.arena) : made[k] = IF k \in F THEN [r.arena[k] EXCEPT !.state = "discarded"] ELSE r.arena[k]
  BY <1>3
<1> HIDE DEF made
<1>11. /\ d \in Result /\ d.arena = made /\ d.orders = r.orders /\ d.text = r.text
       /\ d.named = r.named /\ d.error = r.error /\ (F = {} => d = r)
  BY <1>1, <1>2, <1>8, <1>9 DEF Result
<1>12. ASSUME NEW k \in 1..Len(r.arena)
       PROVE  /\ made[k].item = r.arena[k].item /\ made[k].order = r.arena[k].order
              /\ made[k].args = r.arena[k].args
              /\ made[k].state = IF r.arena[k].item = item /\ r.arena[k].state = "pending"
                                 THEN "discarded" ELSE r.arena[k].state
  <2>1. CASE k \in F
    <3> DEFINE x == r.arena[k]
    <3>1. x \in Record /\ x.item = item /\ x.state = "pending"
      BY <2>1, <1>3, <1>4
    <3>2. made[k] = [x EXCEPT !.state = "discarded"]
      BY <2>1, <1>10
    <3> HIDE DEF x
    <3>3. made[k].item = x.item /\ made[k].order = x.order /\ made[k].args = x.args /\ made[k].state = "discarded"
      BY <3>1, <3>2, <1>5
    <3> QED
      BY <3>1, <3>3 DEF x
  <2>2. CASE k \notin F
    BY <2>2, <1>4, <1>10
  <2> QED
    BY <2>1, <2>2
<1> QED
  BY <1>8, <1>11, <1>12 DEF F

\* q is r without the pending record of the item, and with a new one.
IsPlaced(r, q, item, state, args, order) ==
  /\ q \in Result /\ Len(q.arena) = Len(r.arena) + 1
  /\ q.orders = (IF order > r.orders THEN order ELSE r.orders)
  /\ q.text = r.text /\ q.named = r.named /\ q.error = r.error
  /\ \A k \in 1..Len(r.arena) :
       /\ q.arena[k].item = r.arena[k].item /\ q.arena[k].order = r.arena[k].order
       /\ q.arena[k].args = r.arena[k].args
       /\ q.arena[k].state = IF r.arena[k].item = item /\ r.arena[k].state = "pending"
                             THEN "discarded" ELSE r.arena[k].state
  /\ q.arena[Len(q.arena)].item = item /\ q.arena[Len(q.arena)].order = order
  /\ q.arena[Len(q.arena)].args = args /\ q.arena[Len(q.arena)].state = state

LEMMA Placed ==
  ASSUME NEW r \in Result, NEW item \in Nat, NEW state \in {"pending", "ready"},
         NEW args \in {"none", "part", "whole"}, NEW name, {name} \subseteq BOOLEAN, NEW order \in Nat,
         NEW q, q = Commit(Discard(r, item), item, state, args, name, order)
  PROVE  IsPlaced(r, q, item, state, args, order)
<1> DEFINE d   == Discard(r, item)
           new == [item |-> item, state |-> state, args |-> args, name |-> name, order |-> order]
           ords == IF order > d.orders THEN order ELSE d.orders
<1>1. /\ d \in Result /\ Len(d.arena) = Len(r.arena)
      /\ d.orders = r.orders /\ d.text = r.text /\ d.named = r.named /\ d.error = r.error
      /\ \A k \in 1..Len(r.arena) :
           /\ d.arena[k].item = r.arena[k].item /\ d.arena[k].order = r.arena[k].order
           /\ d.arena[k].args = r.arena[k].args
           /\ d.arena[k].state = IF r.arena[k].item = item /\ r.arena[k].state = "pending"
                                 THEN "discarded" ELSE r.arena[k].state
  BY Discarded
<1> HIDE DEF d
<1>2. new \in Record /\ new.item = item /\ new.order = order /\ new.args = args /\ new.state = state
  BY DEF Record
<1>3. d.arena \in Seq(Record) /\ d.orders \in Nat /\ d.text \in Seq(Piece) /\ d.named \in BOOLEAN /\ d.error \in BOOLEAN
  BY <1>1 DEF Result
<1>4. q = [d EXCEPT !.arena = Append(@, new), !.orders = ords]
  BY DEF Commit, d
<1>5. ords \in Nat
  BY <1>3
<1> HIDE DEF new, ords
<1>8. Append(d.arena, new) \in Seq(Record)
  BY <1>2, <1>3
<1>6. q \in Result /\ q.arena = Append(d.arena, new) /\ q.orders = ords /\ q.text = d.text
      /\ q.named = d.named /\ q.error = d.error
  BY <1>1, <1>4, <1>5, <1>8 DEF Result
<1>7. /\ Len(q.arena) = Len(d.arena) + 1 /\ q.arena[Len(q.arena)] = new
      /\ \A k \in 1..Len(d.arena) : q.arena[k] = d.arena[k]
  BY <1>2, <1>3, <1>6
<1> QED
  BY <1>1, <1>2, <1>6, <1>7 DEF ords, IsPlaced

(* The record of a call that is new comes last, and that of one that was   *)
(* pending takes its place.                                                *)
LEMMA OrderFound ==
  ASSUME NEW r \in Result, InOrder(r), NEW item \in Nat,
         Find(r, item, "pending") = {} => \A k \in InUse(r) : r.arena[k].item < item
  PROVE  /\ OrderOf(r, item) \in Nat
         /\ OrderOf(r, item) \in 1..(IF OrderOf(r, item) > r.orders THEN OrderOf(r, item) ELSE r.orders)
         /\ \A k \in InUse(r) : r.arena[k].item # item =>
              /\ r.arena[k].order < OrderOf(r, item) <=> r.arena[k].item < item
              /\ OrderOf(r, item) < r.arena[k].order <=> item < r.arena[k].item
<1>1. r.orders \in Nat /\ \A k \in DOMAIN r.arena : r.arena[k].item \in Nat /\ r.arena[k].order \in Nat
  <2>1. r.orders \in Nat /\ r.arena \in Seq(Record)
    BY DEF Result
  <2>2. \A k \in DOMAIN r.arena : r.arena[k] \in Record
    BY <2>1
  <2>3. \A x \in Record : x.item \in Nat /\ x.order \in Nat
    BY DEF Record
  <2> QED
    BY <2>1, <2>2, <2>3
<1>2. CASE Find(r, item, "pending") = {}
  <2>1. OrderOf(r, item) = r.orders + 1
    BY <1>2 DEF OrderOf
  <2> QED
    BY <1>1, <1>2, <2>1 DEF InOrder, InUse
<1>3. CASE Find(r, item, "pending") # {}
  <2> DEFINE p == CHOOSE k \in Find(r, item, "pending") : TRUE
  <2>1. p \in Find(r, item, "pending")
    BY <1>3
  <2>2. OrderOf(r, item) = r.arena[p].order
    BY <1>3 DEF OrderOf
  <2> HIDE DEF p
  <2>3. p \in InUse(r) /\ p \in DOMAIN r.arena /\ r.arena[p].item = item
    BY <2>1 DEF Find, InUse
  <2> QED
    BY <1>1, <2>2, <2>3 DEF InOrder, InUse
<1> QED
  BY <1>2, <1>3

LEMMA OrderKept ==
  ASSUME NEW r \in Result, InOrder(r), NEW item \in Nat, NEW state \in {"pending", "ready"},
         NEW args \in {"none", "part", "whole"}, NEW name, {name} \subseteq BOOLEAN,
         NEW q, q = Commit(Discard(r, item), item, state, args, name, OrderOf(r, item)),
         Find(r, item, "ready") = {},
         Find(r, item, "pending") = {} => \A k \in InUse(r) : r.arena[k].item < item
  PROVE  /\ IsPlaced(r, q, item, state, args, OrderOf(r, item))
         /\ InOrder(q) /\ DOMAIN q.arena = 1..(Len(r.arena) + 1)
         /\ InUse(q) = {k \in InUse(r) : r.arena[k].item # item} \cup {Len(r.arena) + 1}
<1> DEFINE o == OrderOf(r, item)
           n == Len(r.arena)
<1>0. IsPlaced(r, q, item, state, args, OrderOf(r, item))
  BY OrderFound, Placed
<1>1. /\ o \in Nat /\ o \in 1..(IF o > r.orders THEN o ELSE r.orders)
      /\ \A k \in InUse(r) : r.arena[k].item # item =>
           /\ r.arena[k].order < o <=> r.arena[k].item < item
           /\ o < r.arena[k].order <=> item < r.arena[k].item
  BY OrderFound
<1> HIDE DEF o
<1>2. /\ q \in Result /\ Len(q.arena) = n + 1
      /\ q.orders = (IF o > r.orders THEN o ELSE r.orders)
      /\ \A k \in 1..n :
           /\ q.arena[k].item = r.arena[k].item /\ q.arena[k].order = r.arena[k].order
           /\ q.arena[k].state = IF r.arena[k].item = item /\ r.arena[k].state = "pending"
                                 THEN "discarded" ELSE r.arena[k].state
      /\ q.arena[n + 1].item = item /\ q.arena[n + 1].order = o /\ q.arena[n + 1].state = state
  BY <1>0 DEF IsPlaced, o
<1>3. /\ n \in Nat /\ DOMAIN r.arena = 1..n /\ DOMAIN q.arena = 1..(n + 1) /\ r.orders \in Nat
      /\ \A k \in 1..n : r.arena[k] \in Record
  BY <1>2 DEF Result
<1> HIDE DEF n
<1>4. ASSUME NEW k \in 1..(n + 1)
      PROVE  k \in InUse(q) <=> k = n + 1 \/ (k \in InUse(r) /\ r.arena[k].item # item)
  <2>1. CASE k = n + 1
    BY <2>1, <1>2, <1>3 DEF InUse
  <2>2. CASE k \in 1..n
    <3>1. r.arena[k].state \in {"pending", "ready", "discarded"}
      BY <2>2, <1>3 DEF Record
    <3>2. ~(r.arena[k].item = item /\ r.arena[k].state = "ready")
      BY <2>2, <1>3 DEF Find
    <3>3. q.arena[k].state = IF r.arena[k].item = item /\ r.arena[k].state = "pending"
                             THEN "discarded" ELSE r.arena[k].state
      BY <2>2, <1>2
    <3>4. k \in InUse(q) <=> q.arena[k].state # "discarded"
      BY <1>3 DEF InUse
    <3>5. k \in InUse(r) <=> r.arena[k].state # "discarded"
      BY <2>2, <1>3 DEF InUse
    <3>6. k # n + 1
      BY <2>2, <1>3
    <3> QED
      BY <3>1, <3>2, <3>3, <3>4, <3>5, <3>6
  <2> QED
    BY <2>1, <2>2, <1>3
<1>5. \A k \in DOMAIN q.arena : q.arena[k].order \in 1..q.orders
  <2> SUFFICES ASSUME NEW k \in 1..(n + 1) PROVE q.arena[k].order \in 1..q.orders
    BY <1>3
  <2>1. CASE k = n + 1
    BY <2>1, <1>1, <1>2
  <2>2. CASE k \in 1..n
    <3>1. r.arena[k].order \in 1..r.orders
      BY <2>2, <1>3 DEF InOrder
    <3> QED
      BY <2>2, <3>1, <1>1, <1>2, <1>3
  <2> QED
    BY <2>1, <2>2, <1>3
<1>6. InUse(r) \subseteq 1..n /\ InUse(q) \subseteq 1..(n + 1)
  BY <1>3 DEF InUse
<1>7. /\ \A k, l \in InUse(r) : r.arena[k].item = r.arena[l].item => k = l
      /\ \A k, l \in InUse(r) : r.arena[k].order < r.arena[l].order <=> r.arena[k].item < r.arena[l].item
  BY DEF InOrder
<1>8. ASSUME NEW k \in InUse(q), NEW l \in InUse(q)
      PROVE  /\ q.arena[k].item = q.arena[l].item => k = l
             /\ q.arena[k].order < q.arena[l].order <=> q.arena[k].item < q.arena[l].item
  <2>1. CASE k = n + 1 /\ l = n + 1
    BY <2>1, <1>1, <1>2
  <2>2. CASE k = n + 1 /\ l # n + 1
    BY <2>2, <1>1, <1>2, <1>3, <1>4, <1>6
  <2>3. CASE k # n + 1 /\ l = n + 1
    BY <2>3, <1>1, <1>2, <1>3, <1>4, <1>6
  <2>4. CASE k # n + 1 /\ l # n + 1
    BY <2>4, <1>2, <1>3, <1>4, <1>6, <1>7
  <2> QED
    BY <2>1, <2>2, <2>3, <2>4
<1>9. InOrder(q)
  BY <1>5, <1>8 DEF InOrder
<1>10. InUse(q) = {k \in InUse(r) : r.arena[k].item # item} \cup {n + 1}
  BY <1>3, <1>4, <1>6
<1> QED
  BY <1>0, <1>3, <1>9, <1>10 DEF n

(***************************************************************************)
(* The events of the stream                                                *)
(***************************************************************************)
Grown(i) == [answer.sent EXCEPT ![i] = NextEvent(i)]

LEMMA SentGrows ==
  ASSUME ClientTyped, NEW i \in Items, MaySend(i)
  PROVE  /\ Items = 1..Len(answer.items) /\ Len(answer.items) \in Nat /\ answer.sent \in [Items -> 0..3]
         /\ Grown(i) \in [Items -> 0..3] /\ Grown(i) \in Seq(0..Closed)
         /\ NextEvent(i) \in 1..3 /\ answer.sent[i] < NextEvent(i) /\ Grown(i)[i] = NextEvent(i)
         /\ \A j \in Items : j # i => Grown(i)[j] = answer.sent[j]
         /\ answer.items[i] \in {"say", "call"}
         /\ NextEvent(i) = 1 => answer.sent[i] = 0
         /\ NextEvent(i) = 2 => answer.sent[i] = 1
         /\ answer.items[i] = "say" /\ NextEvent(i) = 3 => answer.sent[i] = 2
         /\ Asked(answer.sent) => Asked(Grown(i))
<1>1. /\ answer.items \in Seq({"say", "call"}) /\ answer.sent \in Seq(0..Closed) /\ DOMAIN answer.sent = Items
  BY DEF ClientTyped, Answer0
<1>2. Items = 1..Len(answer.items) /\ Len(answer.items) \in Nat
  BY <1>1 DEF Items
<1>3. answer.sent \in [Items -> 0..3]
  BY <1>1 DEF Closed
<1>4. answer.items[i] \in {"say", "call"}
  BY <1>1 DEF Items
<1>5. NextEvent(i) # 0
  BY DEF MaySend
<1>6. /\ NextEvent(i) \in 1..3 /\ answer.sent[i] < NextEvent(i)
      /\ NextEvent(i) = 1 => answer.sent[i] = 0
      /\ NextEvent(i) = 2 => answer.sent[i] = 1
      /\ answer.items[i] = "say" /\ NextEvent(i) = 3 => answer.sent[i] = 2
  BY <1>3, <1>5 DEF NextEvent, Closed
<1>7. /\ Grown(i) \in [Items -> 0..3] /\ Grown(i)[i] = NextEvent(i)
      /\ \A j \in Items : j # i => Grown(i)[j] = answer.sent[j]
  BY <1>3, <1>6 DEF Grown
<1>8. Grown(i) \in Seq(0..Closed)
  BY <1>2, <1>7 DEF Closed
<1>9. ASSUME Asked(answer.sent), NEW k \in Items, NEW j \in 1..(k - 1), Grown(i)[k] > 0
      PROVE  Grown(i)[j] > 0 /\ (answer.items[j] = "say" => Grown(i)[j] = Closed)
  <2>1. j \in Items
    BY <1>2
  <2>2. CASE k = i
    <3>1. answer.sent[j] > 0 /\ (answer.items[j] = "say" => answer.sent[j] = Closed)
      BY <2>2 DEF MaySend
    <3> QED
      BY <1>2, <1>7, <2>1, <2>2, <3>1
  <2>3. CASE k # i
    <3>1. answer.sent[j] > 0 /\ (answer.items[j] = "say" => answer.sent[j] = Closed)
      BY <1>7, <1>9, <2>3 DEF Asked
    <3>2. CASE j = i
      <4>1. answer.items[j] # "say"
        BY <1>5, <3>1, <3>2 DEF NextEvent
      <4> QED
        BY <1>6, <1>7, <3>2, <4>1
    <3> QED
      BY <1>7, <2>1, <3>1, <3>2
  <2> QED
    BY <2>2, <2>3
<1> HIDE DEF Grown
<1>10. Asked(answer.sent) => Asked(Grown(i))
  BY <1>9 DEF Asked
<1> QED
  BY <1>2, <1>3, <1>4, <1>6, <1>7, <1>8, <1>10

LEMMA CallPlaced ==
  ASSUME ClientTyped, NEW i \in Items, MaySend(i), Asked(answer.sent), answer.items[i] = "call",
         AsSent(result, answer.sent, 0, "whole"), ~result.error,
         NEW content \in {"part", "whole"},
         NEW args \in {"none", "part", "whole"}, NEW name, {name} \subseteq BOOLEAN,
         NEW state, state = IF NextEvent(i) = 1 THEN "pending" ELSE "ready",
         NextEvent(i) # 1 => args = content,
         Find(result, i, "ready") = {},
         NEW q, q = Commit(Discard(result, i), i, state, args, name, OrderOf(result, i))
  PROVE  /\ IsPlaced(result, q, i, state, args, OrderOf(result, i))
         /\ InOrder(q) /\ CallsRead(q, Grown(i), i, content) /\ TextRead(q, Grown(i), i, content)
<1> DEFINE n == Len(result.arena)
<1>1. /\ InOrder(result) /\ CallsRead(result, answer.sent, 0, "whole") /\ TextRead(result, answer.sent, 0, "whole")
      /\ result \in Result /\ state \in {"pending", "ready"}
  BY DEF AsSent, ClientTyped
<1>2. /\ Items = 1..Len(answer.items) /\ Len(answer.items) \in Nat /\ answer.sent \in [Items -> 0..3]
      /\ NextEvent(i) \in 1..3 /\ answer.sent[i] < NextEvent(i) /\ Grown(i)[i] = NextEvent(i)
      /\ \A j \in Items : j # i => Grown(i)[j] = answer.sent[j]
  BY SentGrows
<1>3. /\ n \in Nat /\ DOMAIN result.arena = 1..n /\ \A k \in 1..n : result.arena[k] \in Record
  BY <1>1 DEF Result
<1>4. ASSUME Find(result, i, "pending") = {}, NEW k \in InUse(result)
      PROVE  result.arena[k].item < i
  <2> DEFINE j == result.arena[k].item
  <2>1. ASSUME NEW l \in InUse(result) PROVE result.arena[l].item # i
    <3>1. l \in 1..n /\ result.arena[l].state \in {"pending", "ready"}
      BY <1>3 DEF InUse, Record
    <3> QED
      BY <1>3, <1>4, <3>1 DEF Find
  <2>2. j \in Items /\ answer.sent[j] > 0
    BY <1>1, <1>3 DEF CallsRead, Of, InUse
  <2>3. i \in Of("call")
    BY DEF Of
  <2>4. answer.sent[i] = 0
    BY <1>1, <1>2, <2>1, <2>3 DEF CallsRead
  <2>5. ~(i \in 1..(j - 1))
    BY <2>2, <2>4 DEF Asked
  <2> QED
    BY <1>2, <2>1, <2>2, <2>5
<1>5. /\ IsPlaced(result, q, i, state, args, OrderOf(result, i))
      /\ InOrder(q) /\ DOMAIN q.arena = 1..(n + 1)
      /\ InUse(q) = {k \in InUse(result) : result.arena[k].item # i} \cup {n + 1}
  BY <1>1, <1>2, <1>4, OrderKept
<1>6. /\ Len(q.arena) = n + 1 /\ q.text = result.text
      /\ \A k \in 1..n :
              /\ q.arena[k].item = result.arena[k].item /\ q.arena[k].args = result.arena[k].args
              /\ q.arena[k].state = IF result.arena[k].item = i /\ result.arena[k].state = "pending"
                                    THEN "discarded" ELSE result.arena[k].state
      /\ q.arena[n + 1].item = i /\ q.arena[n + 1].args = args /\ q.arena[n + 1].state = state
  BY <1>5 DEF IsPlaced
<1> HIDE DEF n
<1>7. ASSUME NEW k \in DOMAIN q.arena
      PROVE  /\ q.arena[k].item \in Of("call") /\ Grown(i)[q.arena[k].item] > 0
             /\ q.arena[k].state = "ready" =>
                  q.arena[k].args = "whole" \/ (q.arena[k].item = i /\ q.arena[k].args = content)
  <2>1. CASE k = n + 1
    BY <2>1, <1>2, <1>6 DEF Of
  <2>2. CASE k \in 1..n
    <3>1. /\ result.arena[k].item \in Of("call") /\ answer.sent[result.arena[k].item] > 0
          /\ result.arena[k].state = "ready" => result.arena[k].args = "whole"
                                                 \/ (result.arena[k].item = 0 /\ result.arena[k].args = "whole")
      BY <1>1, <1>3, <2>2 DEF CallsRead
    <3>2. /\ q.arena[k].item = result.arena[k].item /\ q.arena[k].args = result.arena[k].args
          /\ q.arena[k].state = "ready" => result.arena[k].state = "ready"
      BY <1>6, <2>2
    <3>3. Grown(i)[q.arena[k].item] > 0
      BY <1>2, <3>1, <3>2 DEF Of
    <3> QED
      BY <3>1, <3>2, <3>3
  <2> QED
    BY <2>1, <2>2, <1>3, <1>5
<1>8. ASSUME NEW j \in Of("call"), Grown(i)[j] > 0
      PROVE  \E k \in InUse(q) : /\ q.arena[k].item = j
                                 /\ q.arena[k].state = IF Grown(i)[j] = 1 THEN "pending" ELSE "ready"
  <2>1. CASE j = i
    BY <2>1, <1>2, <1>5, <1>6
  <2>2. CASE j # i
    <3>1. Grown(i)[j] = answer.sent[j]
      BY <2>2, <1>2 DEF Of
    <3>2. PICK k \in InUse(result) : /\ result.arena[k].item = j
                                     /\ result.arena[k].state = IF answer.sent[j] = 1 THEN "pending" ELSE "ready"
      BY <1>1, <1>8, <3>1 DEF CallsRead
    <3>3. k \in 1..n /\ k \in InUse(q)
      BY <1>3, <1>5, <2>2, <3>2 DEF InUse
    <3> QED
      BY <1>6, <2>2, <3>1, <3>2, <3>3
  <2> QED
    BY <2>1, <2>2
<1>9. TextRead(q, Grown(i), i, content)
  <2>1. \A j \in Of("say") : j \in Items /\ j # i
    BY DEF Of
  <2>2. \A j \in Of("say") : Grown(i)[j] = answer.sent[j]
    BY <2>1, <1>2
  <2> QED
    BY <1>1, <1>6, <2>1, <2>2 DEF TextRead
<1> QED
  BY <1>5, <1>7, <1>8, <1>9 DEF CallsRead

LEMMA OrderTyped ==
  ASSUME NEW r \in Result, NEW item \in Nat
  PROVE  OrderOf(r, item) \in Nat
<1>1. r.orders \in Nat /\ r.arena \in Seq(Record)
  BY DEF Result
<1>2. CASE Find(r, item, "pending") = {}
  BY <1>1, <1>2 DEF OrderOf
<1>3. CASE Find(r, item, "pending") # {}
  <2> DEFINE p == CHOOSE k \in Find(r, item, "pending") : TRUE
  <2>1. p \in Find(r, item, "pending")
    BY <1>3
  <2>2. OrderOf(r, item) = r.arena[p].order
    BY <1>3 DEF OrderOf
  <2> HIDE DEF p
  <2>3. r.arena[p] \in Record
    BY <1>1, <2>1 DEF Find
  <2> QED
    BY <2>2, <2>3 DEF Record
<1> QED
  BY <1>2, <1>3

\* q is r, of the same text and with one more record.
Longer(r, q) == q \in Result /\ Len(q.arena) = Len(r.arena) + 1 /\ q.text = r.text /\ q.error = r.error

LEMMA CommitLonger ==
  ASSUME NEW r \in Result, NEW item \in Nat, NEW state \in {"pending", "ready"},
         NEW args \in {"none", "part", "whole"}, NEW name, {name} \subseteq BOOLEAN, NEW order \in Nat,
         NEW q, q = Commit(r, item, state, args, name, order)
  PROVE  Longer(r, q)
<1> DEFINE new  == [item |-> item, state |-> state, args |-> args, name |-> name, order |-> order]
           ords == IF order > r.orders THEN order ELSE r.orders
<1>1. r.arena \in Seq(Record) /\ r.orders \in Nat
  BY DEF Result
<1>2. new \in Record
  BY DEF Record
<1>3. q = [r EXCEPT !.arena = Append(@, new), !.orders = ords]
  BY DEF Commit
<1>4. ords \in Nat
  BY <1>1
<1> HIDE DEF new, ords
<1>5. Append(r.arena, new) \in Seq(Record) /\ Len(Append(r.arena, new)) = Len(r.arena) + 1
  BY <1>1, <1>2
<1> QED
  BY <1>3, <1>4, <1>5 DEF Result, Longer

\* What an event of an item leaves of the result, which may be full.
Fits(r) == r \in Result /\ Len(r.arena) <= ArenaSize /\ Len(r.text) <= TextSize

LEMMA ReceivedFits ==
  ASSUME ClientTyped, Fits(result), NEW i \in Items, MaySend(i), NEW content \in {"part", "whole"},
         NEW q, q = Received(result, i, content)
  PROVE  Fits(q) /\ (result.error => q.error)
<1>1. /\ Items = 1..Len(answer.items) /\ NextEvent(i) \in 1..3 /\ answer.items[i] \in {"say", "call"} /\ i \in Nat
  BY SentGrows
<1>2. ArenaSize \in Nat /\ TextSize \in Nat
  BY ModelClientAssumption
<1>3. /\ result \in Result /\ result.arena \in Seq(Record) /\ result.text \in Seq(Piece) /\ result.orders \in Nat
      /\ result.named \in BOOLEAN /\ result.error \in BOOLEAN
      /\ result = [arena |-> result.arena, orders |-> result.orders, text |-> result.text,
                   named |-> result.named, error |-> result.error]
  BY DEF Fits, Result
<1>4. CASE q = Overflow(result) \/ q = result
  BY <1>3, <1>4 DEF Overflow, Fits, Result
<1>5. CASE answer.items[i] = "say"
  <2>1. q = MessageItem(result) \/ q = Delta(result, i, content)
    BY <1>1, <1>5 DEF Received
  <2>2. CASE q = [result EXCEPT !.named = TRUE]
    BY <1>3, <2>2 DEF Fits, Result
  <2>3. CASE Len(result.text) < TextSize /\ q = Delta(result, i, content)
    <3> DEFINE new == [item |-> i, piece |-> content]
    <3>1. new \in Piece
      BY <1>1 DEF Piece
    <3>2. q = [result EXCEPT !.text = Append(@, new)]
      BY <1>2, <1>3, <2>3 DEF Delta
    <3> HIDE DEF new
    <3>3. Append(result.text, new) \in Seq(Piece) /\ Len(Append(result.text, new)) = Len(result.text) + 1
      BY <1>3, <3>1
    <3>4. /\ q \in Result /\ q.arena = result.arena /\ q.text = Append(result.text, new)
          /\ q.error = result.error
      BY <1>3, <3>2, <3>3 DEF Result
    <3> QED
      BY <1>2, <1>3, <2>3, <3>3, <3>4 DEF Fits
  <2> QED
    BY <1>2, <1>3, <1>4, <2>1, <2>2, <2>3 DEF MessageItem, Delta
<1>6. CASE answer.items[i] = "call"
  <2>1. q = ItemAdded(result, i) \/ q = ArgumentsDone(result, i, content) \/ q = ItemDone(result, i, content)
    BY <1>1, <1>6 DEF Received
  <2>2. Discard(result, i) \in Result /\ Len(Discard(result, i).arena) = Len(result.arena)
        /\ Discard(result, i).text = result.text /\ Discard(result, i).error = result.error
    BY <1>1, <1>3, Discarded
  <2>3. OrderOf(result, i) \in Nat
    BY <1>1, <1>3, OrderTyped
  <2>4. \A q1 : q1 = Commit(result, i, "pending", "none", TRUE, OrderOf(result, i)) => Longer(result, q1)
    BY <1>1, <1>3, <2>3, CommitLonger
  <2>5. \A q1 : q1 = Commit(Discard(result, i), i, "ready", content, TRUE, OrderOf(result, i))
                => Longer(Discard(result, i), q1)
    BY <1>1, <2>2, <2>3, CommitLonger
  <2> DEFINE named == content = "whole" \/ Find(result, i, "pending") # {}
  <2>6. {named} \subseteq BOOLEAN
    OBVIOUS
  <2> HIDE DEF named
  <2>7. \A q1 : q1 = Commit(Discard(result, i), i, "ready", content, named, OrderOf(result, i))
                => Longer(Discard(result, i), q1)
    BY <1>1, <2>2, <2>3, <2>6, CommitLonger
  <2>8. CASE Len(result.arena) < ArenaSize /\ (Longer(result, q) \/ Longer(Discard(result, i), q))
    BY <1>2, <1>3, <2>2, <2>8 DEF Longer, Fits
  <2>9. q = Overflow(result) \/ q = result
        \/ (Len(result.arena) < ArenaSize /\ (Longer(result, q) \/ Longer(Discard(result, i), q)))
    <3>1. Len(result.arena) >= ArenaSize \/ Len(result.arena) < ArenaSize
      BY <1>2, <1>3
    <3>2. CASE q = ItemAdded(result, i)
      BY <3>1, <3>2, <2>4 DEF ItemAdded
    <3>3. CASE q = ArgumentsDone(result, i, content)
      BY <3>1, <3>3, <2>5 DEF ArgumentsDone
    <3>4. CASE q = ItemDone(result, i, content)
      BY <3>1, <3>4, <2>7 DEF ItemDone, named
    <3> QED
      BY <2>1, <3>2, <3>3, <3>4
  <2> QED
    BY <1>4, <2>8, <2>9
<1> QED
  BY <1>1, <1>5, <1>6

LEMMA SayRead ==
  ASSUME ClientTyped, Fits(result), NEW i \in Items, MaySend(i), NEW content \in {"part", "whole"},
         Asked(answer.sent), AsSent(result, answer.sent, 0, "whole"), answer.items[i] = "say",
         NEW q, q = Received(result, i, content)
  PROVE  AsSent(q, Grown(i), i, content)
<1> SUFFICES ASSUME ~q.error PROVE AsSent(q, Grown(i), i, content)
  BY DEF AsSent
<1>1. /\ Items = 1..Len(answer.items) /\ answer.sent \in [Items -> 0..3]
      /\ NextEvent(i) \in 1..3 /\ answer.sent[i] < NextEvent(i) /\ Grown(i)[i] = NextEvent(i)
      /\ \A j \in Items : j # i => Grown(i)[j] = answer.sent[j]
      /\ NextEvent(i) = 1 => answer.sent[i] = 0
      /\ NextEvent(i) = 2 => answer.sent[i] = 1
      /\ NextEvent(i) = 3 => answer.sent[i] = 2
  BY SentGrows
<1>2. ~result.error
  BY ReceivedFits
<1>3. InOrder(result) /\ CallsRead(result, answer.sent, 0, "whole") /\ TextRead(result, answer.sent, 0, "whole")
  BY <1>2 DEF AsSent
<1>4. /\ result.text \in Seq(Piece) /\ Len(result.text) \in Nat /\ DOMAIN result.text = 1..Len(result.text)
      /\ result \in Result
  BY DEF ClientTyped, Result
<1>5. i \in Of("say") /\ Of("say") \subseteq Items /\ \A j \in Of("call") : j \in Items /\ j # i
  BY DEF Of
<1>6. q.arena = result.arena /\ q.orders = result.orders
      /\ \/ q.text = result.text /\ NextEvent(i) # 2
         \/ q.text = Append(result.text, [item |-> i, piece |-> content]) /\ NextEvent(i) = 2
  <2>1. IF NextEvent(i) = 2 THEN q = Delta(result, i, content) ELSE q = MessageItem(result)
    BY DEF Received
  <2>2. Overflow(result).error = TRUE
    BY <1>4 DEF Overflow, Result
  <2>3. NextEvent(i) # 2 => q = [result EXCEPT !.named = TRUE]
    BY <2>1, <2>2 DEF MessageItem
  <2>4. NextEvent(i) = 2 => q = [result EXCEPT !.text = Append(@, [item |-> i, piece |-> content])]
    BY <2>1, <2>2 DEF Delta
  <2>5. CASE NextEvent(i) # 2
    BY <1>4, <2>3, <2>5 DEF Result
  <2>6. CASE NextEvent(i) = 2
    <3>1. q = [result EXCEPT !.text = Append(result.text, [item |-> i, piece |-> content])]
      BY <2>4, <2>6
    <3> QED
      BY <1>4, <2>6, <3>1 DEF Result
  <2> QED
    BY <2>5, <2>6
<1>7. InOrder(q)
  BY <1>3, <1>6 DEF InOrder, InUse
<1>8. CallsRead(q, Grown(i), i, content)
  <2>1. \A j \in Of("call") : Grown(i)[j] = answer.sent[j]
    BY <1>1, <1>5
  <2> QED
    BY <1>3, <1>5, <1>6, <2>1 DEF CallsRead, InUse
<1>9. TextRead(q, Grown(i), i, content)
  <2>1. \A n \in DOMAIN result.text :
          /\ result.text[n].item \in Of("say") /\ answer.sent[result.text[n].item] > 1
          /\ result.text[n].piece = "whole"
    BY <1>3 DEF TextRead
  <2>2. \A j \in Of("say") : answer.sent[j] > 1 => Grown(i)[j] > 1
    BY <1>1, <1>5
  <2>3. CASE q.text = result.text /\ NextEvent(i) # 2
    <3>1. \A j \in Of("say") : Grown(i)[j] > 1 => answer.sent[j] > 1
      BY <1>1, <1>5, <2>3
    <3> QED
      BY <1>3, <2>1, <2>2, <2>3, <3>1 DEF TextRead
  <2>4. CASE q.text = Append(result.text, [item |-> i, piece |-> content]) /\ NextEvent(i) = 2
    <3> DEFINE n == Len(result.text)
    <3>1. /\ DOMAIN q.text = 1..(n + 1) /\ Len(q.text) = n + 1
          /\ \A m \in 1..n : q.text[m] = result.text[m]
          /\ q.text[n + 1].item = i /\ q.text[n + 1].piece = content
      BY <1>4, <2>4
    <3>2. ASSUME NEW m \in 1..n PROVE result.text[m].item < i
      <4> DEFINE j == result.text[m].item
      <4>1. j \in Items /\ answer.sent[j] > 1
        BY <1>4, <1>5, <2>1
      <4>2. j # i
        BY <1>1, <2>4, <4>1
      <4>3. \A l \in Items : i \in 1..(l - 1) /\ answer.sent[l] > 0 => answer.sent[i] = 3
        BY DEF Asked, Closed
      <4> HIDE DEF j
      <4>4. ~(i \in 1..(j - 1))
        <5>0. answer.sent[j] \in 0..3
          BY <1>1, <4>1
        <5>1. answer.sent[j] > 0 /\ answer.sent[i] = 1
          BY <1>1, <2>4, <4>1, <5>0
        <5> QED
          BY <4>1, <4>3, <5>1
      <4> QED
        BY <1>1, <4>1, <4>2, <4>4 DEF j
    <3> HIDE DEF n
    <3>3. n \in Nat /\ DOMAIN result.text = 1..n
      BY <1>4 DEF n
    <3>4. \A m \in DOMAIN q.text :
            /\ q.text[m].item \in Of("say") /\ Grown(i)[q.text[m].item] > 1
            /\ q.text[m].piece = "whole" \/ (q.text[m].item = i /\ q.text[m].piece = content /\ m = Len(q.text))
      <4> SUFFICES ASSUME NEW m \in 1..(n + 1)
                   PROVE  /\ q.text[m].item \in Of("say") /\ Grown(i)[q.text[m].item] > 1
                          /\ \/ q.text[m].piece = "whole"
                             \/ q.text[m].item = i /\ q.text[m].piece = content /\ m = Len(q.text)
        BY <3>1
      <4>1. CASE m = n + 1
        BY <1>1, <1>5, <2>4, <3>1, <4>1
      <4>2. CASE m \in 1..n
        BY <2>1, <2>2, <3>1, <3>3, <4>2
      <4> QED
        BY <3>3, <4>1, <4>2
    <3>5. \A m, l \in DOMAIN q.text : m < l => q.text[m].item < q.text[l].item
      <4> SUFFICES ASSUME NEW m \in 1..(n + 1), NEW l \in 1..(n + 1), m < l
                   PROVE  q.text[m].item < q.text[l].item
        BY <3>1
      <4>1. CASE l = n + 1
        BY <3>1, <3>2, <3>3, <4>1
      <4>2. CASE l \in 1..n
        BY <1>3, <3>1, <3>3, <4>2 DEF TextRead
      <4> QED
        BY <3>3, <4>1, <4>2
    <3>6. ASSUME NEW j \in Of("say"), Grown(i)[j] > 1
          PROVE  \E m \in DOMAIN q.text : q.text[m].item = j
      <4>1. CASE j = i
        BY <3>1, <3>3, <4>1
      <4>2. CASE j # i
        <5>1. PICK m \in DOMAIN result.text : result.text[m].item = j
          BY <1>1, <1>3, <1>5, <3>6, <4>2 DEF TextRead
        <5> QED
          BY <3>1, <3>3, <5>1
      <4> QED
        BY <4>1, <4>2
    <3> QED
      BY <3>4, <3>5, <3>6 DEF TextRead
  <2> QED
    BY <1>6, <2>3, <2>4
<1> QED
  BY <1>7, <1>8, <1>9 DEF AsSent

LEMMA CallRead ==
  ASSUME ClientTyped, Fits(result), NEW i \in Items, MaySend(i), NEW content \in {"part", "whole"},
         Asked(answer.sent), AsSent(result, answer.sent, 0, "whole"), answer.items[i] = "call",
         NEW q, q = Received(result, i, content)
  PROVE  AsSent(q, Grown(i), i, content)
<1> SUFFICES ASSUME ~q.error PROVE AsSent(q, Grown(i), i, content)
  BY DEF AsSent
<1>1. /\ Items = 1..Len(answer.items) /\ answer.sent \in [Items -> 0..3]
      /\ NextEvent(i) \in 1..3 /\ answer.sent[i] < NextEvent(i) /\ Grown(i)[i] = NextEvent(i)
      /\ \A j \in Items : j # i => Grown(i)[j] = answer.sent[j]
      /\ NextEvent(i) = 1 => answer.sent[i] = 0
      /\ NextEvent(i) = 2 => answer.sent[i] = 1
  BY SentGrows
<1>2. ~result.error
  BY ReceivedFits
<1>3. InOrder(result) /\ CallsRead(result, answer.sent, 0, "whole") /\ TextRead(result, answer.sent, 0, "whole")
  BY <1>2 DEF AsSent
<1>4. result \in Result /\ result.arena \in Seq(Record) /\ i \in Nat
  BY <1>1 DEF ClientTyped, Result
<1>5. i \in Of("call") /\ Of("call") \subseteq Items /\ \A j \in Of("say") : j \in Items /\ j # i
  BY DEF Of
<1>6. Overflow(result).error = TRUE
  BY <1>4 DEF Overflow, Result
<1>7. \A k \in DOMAIN result.arena : result.arena[k].item = i => answer.sent[i] > 0
  BY <1>3 DEF CallsRead
<1>8. NextEvent(i) = 1 => Find(result, i, "pending") = {} /\ Find(result, i, "ready") = {}
  BY <1>1, <1>7 DEF Find
<1>9. CASE q = result /\ Find(result, i, "ready") # {}
  <2>1. PICK k \in DOMAIN result.arena : result.arena[k].item = i /\ result.arena[k].state = "ready"
    BY <1>9 DEF Find
  <2>2. k \in InUse(result)
    BY <2>1 DEF InUse
  <2>3. Grown(i)[i] # 1
    BY <1>1, <1>8, <1>9
  <2>4. \A j \in Of("call") : answer.sent[j] > 0 => Grown(i)[j] > 0
    BY <1>1, <1>5
  <2>5. \A j \in Of("call") : j # i => Grown(i)[j] = answer.sent[j]
    BY <1>1, <1>5
  <2>6. \A j \in Of("say") : Grown(i)[j] = answer.sent[j]
    BY <1>1, <1>5
  <2>7. CallsRead(q, Grown(i), i, content)
    BY <1>3, <1>9, <2>1, <2>2, <2>3, <2>4, <2>5 DEF CallsRead
  <2>8. TextRead(q, Grown(i), i, content)
    BY <1>3, <1>9, <2>6 DEF TextRead
  <2> QED
    BY <1>3, <1>9, <2>7, <2>8 DEF AsSent
<1>10. CASE Find(result, i, "ready") = {}
  <2>1. CASE NextEvent(i) = 1
    <3>1. q = ItemAdded(result, i)
      BY <2>1, <1>5 DEF Received, Of
    <3>2. q = Commit(result, i, "pending", "none", TRUE, OrderOf(result, i))
      BY <1>6, <1>10, <3>1 DEF ItemAdded
    <3>3. Discard(result, i) = result
      BY <1>4, <1>8, <2>1, Discarded
    <3>4. q = Commit(Discard(result, i), i, "pending", "none", TRUE, OrderOf(result, i))
      BY <3>2, <3>3
    <3>5. "pending" = IF NextEvent(i) = 1 THEN "pending" ELSE "ready"
      BY <2>1
    <3>6. {TRUE} \subseteq BOOLEAN /\ "none" \in {"none", "part", "whole"}
      OBVIOUS
    <3> QED
      BY <1>2, <1>5, <1>10, <2>1, <3>4, <3>5, <3>6, CallPlaced DEF AsSent
  <2>2. CASE NextEvent(i) # 1
    <3> DEFINE named == content = "whole" \/ Find(result, i, "pending") # {}
    <3>1. {named} \subseteq BOOLEAN /\ {TRUE} \subseteq BOOLEAN
      OBVIOUS
    <3>2. (q = ArgumentsDone(result, i, content) /\ NextEvent(i) = 2) \/ q = ItemDone(result, i, content)
      BY <2>2, <1>1 DEF Received
    <3>3. NextEvent(i) = 2 => Find(result, i, "pending") # {}
      <4> SUFFICES ASSUME NextEvent(i) = 2 PROVE Find(result, i, "pending") # {}
        OBVIOUS
      <4>1. PICK k \in InUse(result) : result.arena[k].item = i /\ result.arena[k].state = "pending"
        BY <1>1, <1>3, <1>5 DEF CallsRead
      <4> QED
        BY <4>1 DEF Find, InUse
    <3>4. \/ q = Commit(Discard(result, i), i, "ready", content, TRUE, OrderOf(result, i))
          \/ q = Commit(Discard(result, i), i, "ready", content, named, OrderOf(result, i))
      BY <1>6, <1>10, <3>2, <3>3 DEF ArgumentsDone, ItemDone
    <3> HIDE DEF named
    <3>5. "ready" = IF NextEvent(i) = 1 THEN "pending" ELSE "ready"
      BY <2>2
    <3>6. content \in {"none", "part", "whole"}
      OBVIOUS
    <3> QED
      BY <1>2, <1>5, <1>10, <3>1, <3>4, <3>5, <3>6, CallPlaced DEF AsSent
  <2> QED
    BY <2>1, <2>2
<1>11. Find(result, i, "ready") # {} => q = result
  <2>1. q = ItemAdded(result, i) \/ q = ArgumentsDone(result, i, content) \/ q = ItemDone(result, i, content)
    BY <1>1, <1>5 DEF Received, Of
  <2> QED
    BY <1>6, <2>1 DEF ItemAdded, ArgumentsDone, ItemDone
<1> QED
  BY <1>9, <1>10, <1>11

LEMMA HandedOver ==
  ASSUME ClientTyped, NEW r \in Result, ~r.error, NEW sent \in [Items -> 0..3], NEW i \in Nat,
         NEW content \in {"part", "whole"}, Asked(sent), AsSent(r, sent, i, content),
         NEW cut, {cut} \subseteq BOOLEAN,
         cut \/ (content = "whole" /\ \A j \in Items : sent[j] = Closed)
  PROVE  Handed(r, cut)
<1> DEFINE call(k) == r.arena[k]
           told(n) == r.text[n].item
           calls   == {call(k).item : k \in Ready(r)}
           texts   == {told(n) : n \in DOMAIN r.text}
           parts   == {k \in Ready(r) : call(k).args = "part"}
           torn    == {n \in DOMAIN r.text : r.text[n].piece = "part"}
<1>1. InOrder(r) /\ CallsRead(r, sent, i, content) /\ TextRead(r, sent, i, content)
  BY DEF AsSent
<1>2. Ready(r) \subseteq InUse(r) /\ Ready(r) \subseteq DOMAIN r.arena
  BY DEF Ready, InUse
<1>3. Of("call") \subseteq Items /\ Of("say") \subseteq Items /\ Items \subseteq Nat
      /\ \A j \in Items : ~(j \in Of("call") /\ j \in Of("say"))
  <2>1. answer.items \in Seq({"say", "call"})
    BY DEF ClientTyped, Answer0
  <2> QED
    BY <2>1 DEF Of, Items
<1>4. Left(r, 0) = Ready(r)
  <2>1. \A k \in Ready(r) : r.arena[k].order > 0
    <3>1. r.orders \in Nat
      BY DEF Result
    <3> QED
      BY <1>1, <1>2, <3>1 DEF InOrder
  <2> QED
    BY <2>1 DEF Left
<1>5. /\ \A a, b \in Ready(r) : call(a).order < call(b).order <=> call(a).item < call(b).item
      /\ \A a, b \in Ready(r) : call(a).item = call(b).item => a = b
  BY <1>1, <1>2 DEF InOrder
<1>6. \A m, n \in DOMAIN r.text : m < n => told(m) < told(n)
  BY <1>1 DEF TextRead
<1>7. calls \subseteq Of("call") /\ texts \subseteq Of("say")
  BY <1>1, <1>2 DEF CallsRead, TextRead
<1>8. \A k \in parts : call(k).item = i /\ content = "part"
  <2>1. \A k \in Ready(r) : call(k).state = "ready"
    BY DEF Ready
  <2> QED
    BY <1>1, <1>2, <2>1 DEF CallsRead
<1>9. \A n \in torn : told(n) = i /\ content = "part" /\ n = Len(r.text)
  BY <1>1 DEF TextRead
<1>10. CASE cut
  <2>1. ASSUME NEW l \in texts, NEW j \in Of("say"), j < l
        PROVE  j \in texts
    <3>1. l \in Of("say") /\ sent[l] > 1
      BY <1>1 DEF TextRead
    <3>2. sent[j] = 3
      <4>1. j \in 1..(l - 1)
        <5>1. j > 0
          BY <1>3 DEF Of, Items, ClientTyped, Answer0
        <5>2. l \in Nat /\ j \in Nat /\ j < l
          BY <1>3, <2>1, <3>1
        <5> QED
          BY <5>1, <5>2
      <4>2. answer.items[j] = "say"
        BY DEF Of
      <4>3. sent[l] > 0
        <5>1. sent[l] \in 0..3 /\ sent[l] > 1
          BY <1>3, <3>1
        <5> QED
          BY <5>1
      <4> QED
        BY <1>3, <3>1, <4>1, <4>2, <4>3 DEF Asked, Closed
    <3> QED
      BY <1>1, <3>2 DEF TextRead
  <2>2. torn \subseteq {Len(r.text)}
    BY <1>9
  <2>3. ASSUME parts # {}
        PROVE  torn = {} /\ \E k \in parts : parts = {k}
    <3>1. PICK k \in parts : TRUE
      BY <2>3
    <3>2. i \in Of("call")
      BY <1>7, <1>8, <3>1
    <3>3. torn = {}
      <4>1. \A n \in torn : told(n) \in Of("say")
        BY <1>7
      <4> QED
        BY <1>3, <1>9, <3>2, <4>1
    <3>4. \A l \in parts : l = k
      BY <1>5, <1>8, <3>1
    <3> QED
      BY <3>1, <3>3, <3>4
  <2> QED
    BY <1>4, <1>5, <1>6, <1>7, <1>10, <2>1, <2>2, <2>3 DEF Handed
<1>11. CASE ~cut
  <2>1. content = "whole" /\ \A j \in Items : sent[j] = 3
    BY <1>11 DEF Closed
  <2>2. parts = {} /\ torn = {}
    BY <1>8, <1>9, <2>1
  <2>3. ASSUME NEW j \in Of("call") PROVE j \in calls
    <3>1. sent[j] = 3
      BY <1>3, <2>1
    <3>2. PICK k \in InUse(r) : r.arena[k].item = j /\ r.arena[k].state = "ready"
      BY <1>1, <3>1 DEF CallsRead
    <3>3. k \in Ready(r)
      BY <3>2 DEF Ready, InUse
    <3> QED
      BY <3>2, <3>3
  <2>4. ASSUME NEW j \in Of("say") PROVE j \in texts
    <3>1. sent[j] = 3
      BY <1>3, <2>1
    <3> QED
      BY <1>1, <3>1 DEF TextRead
  <2>5. calls = Of("call") /\ texts = Of("say")
    BY <1>7, <2>3, <2>4
  <2> QED
    BY <1>4, <1>5, <1>6, <1>11, <2>2, <2>5 DEF Handed
<1> QED
  BY <1>10, <1>11

(***************************************************************************)
(* The client                                                              *)
(***************************************************************************)
LEMMA ClientSteps ==
  ASSUME [TurnNext]_all
  PROVE  \/ Ask /\ UNCHANGED <<ready, answer, result, trouble>>
         \/ Connect \/ Retry \/ Rejected \/ EndOfStream \/ ErrorEvent \/ CutOff
         \/ \E i \in Items : Receive(i)
         \/ UNCHANGED llm
<1>1. CASE Agent
  BY <1>1 DEF Agent, Command, BuildRequest, Infer, InferFails, Answered, Answer, Say, Flushed, Keep, Compact,
              Summarised, Progress, RunCall, BatchDone, TurnOver
<1>2. CASE ClientStep \/ ProviderStep
  BY <1>2 DEF ClientStep, Client, ProviderStep, Provider
<1>3. CASE SenderStops \/ Poller \/ ScreenStep \/ WorldStep \/ Arrives \/ UNCHANGED all
  BY <1>3 DEF SenderStops, Poller, MediaError, QuickDone, PhotoTaken, ScreenStep, WorldStep, Arrives, Take,
              PollerBegins, all
<1> QED
  BY <1>1, <1>2, <1>3 DEF TurnNext

LEMMA NothingThere ==
  /\ NoAnswer \in Answer0 /\ NoAnswer.cut = FALSE /\ DOMAIN NoAnswer.sent = DOMAIN NoAnswer.items
  /\ Empty \in Result /\ [Empty EXCEPT !.error = TRUE] \in Result
  /\ Len(Empty.arena) = 0 /\ Len(Empty.text) = 0
  /\ Len([Empty EXCEPT !.error = TRUE].arena) = 0 /\ Len([Empty EXCEPT !.error = TRUE].text) = 0
  /\ DOMAIN Empty.arena = {} /\ DOMAIN Empty.text = {} /\ ArenaSize \in Nat /\ TextSize \in Nat
<1>1. ArenaSize \in Nat /\ TextSize \in Nat
  BY ModelClientAssumption
<1>2. /\ \A S : <<>> \in Seq(S)
      /\ Len(<<>>) = 0 /\ DOMAIN <<>> = {}
  OBVIOUS
<1>3. NoAnswer \in Answer0 /\ NoAnswer.cut = FALSE /\ DOMAIN NoAnswer.sent = DOMAIN NoAnswer.items
  BY <1>2 DEF NoAnswer, Answer0
<1>4. /\ Empty \in Result
      /\ Empty.arena = <<>> /\ Empty.text = <<>>
  BY <1>2 DEF Empty, Result
<1>5. /\ [Empty EXCEPT !.error = TRUE] \in Result
      /\ [Empty EXCEPT !.error = TRUE].arena = <<>> /\ [Empty EXCEPT !.error = TRUE].text = <<>>
  BY <1>4 DEF Result
<1> QED
  BY <1>1, <1>2, <1>3, <1>4, <1>5

LEMMA SameItems ==
  ASSUME answer'.items = answer.items
  PROVE  /\ Items' = Items /\ Of("call")' = Of("call") /\ Of("say")' = Of("say")
         /\ \A sent : Asked(sent) => Asked(sent)'
         /\ \A r, sent, i, content : AsSent(r, sent, i, content) => AsSent(r, sent, i, content)'
         /\ \A r, cut : Handed(r, cut) => Handed(r, cut)'
<1>1. Items' = Items /\ Of("call")' = Of("call") /\ Of("say")' = Of("say")
  BY DEF Items, Of
<1>2. ASSUME NEW sent, Asked(sent) PROVE Asked(sent)'
  BY <1>1, <1>2 DEF Asked
<1>3. ASSUME NEW r, NEW sent, NEW i, NEW content, AsSent(r, sent, i, content)
      PROVE  AsSent(r, sent, i, content)'
  BY <1>1, <1>3 DEF AsSent, CallsRead, TextRead
<1>4. ASSUME NEW r, NEW cut, Handed(r, cut) PROVE Handed(r, cut)'
  BY <1>1, <1>4 DEF Handed
<1> QED
  BY <1>1, <1>2, <1>3, <1>4

LEMMA ClientKept ==
  ASSUME ClientTyped, ClientInv, [TurnNext]_all
  PROVE  ClientTyped' /\ ClientInv'
<1>1. /\ client \in [at : {"off", "connect", "read"}, verdict : {"none", "ok", "failed"}]
      /\ ready \in BOOLEAN /\ result \in Result /\ trouble \in Nat
      /\ answer \in Answer0 /\ DOMAIN answer.sent = Items /\ MaxTrouble \in Nat
  BY ModelClientAssumption DEF ClientTyped
<1>2. Fits(result) /\ (ready => ~answer.cut)
  BY <1>1 DEF ClientInv, AnswerAsSent, ClientTypes, Fits
<1> DEFINE Places0 == {"off", "connect", "read"}
<1>3. ASSUME NEW place \in Places0, Goto(place)
      PROVE  /\ client' \in [at : {"off", "connect", "read"}, verdict : {"none", "ok", "failed"}]
             /\ client'.at = place
  BY <1>1, <1>3 DEF Goto
\* It is enough to know what is read, and what is handed over.
<1>4. ASSUME ClientTyped', Fits(result'), ready' => ~answer'.cut,
             client'.at = "read" => ~answer'.cut /\ Asked(answer.sent)' /\ AsSent(result, answer.sent, 0, "whole")',
             client'.at = "off" /\ client'.verdict = "ok" => Handed(result, answer.cut)'
      PROVE  ClientTyped' /\ ClientInv'
  BY <1>4 DEF ClientTyped, ClientInv, AnswerAsSent, ClientTypes, Fits
<1>5. CASE UNCHANGED llm
  BY <1>5, SameItems, <1>1, <1>2 DEF llm, ClientTyped, ClientInv, AnswerAsSent, ClientTypes, Fits, Items
<1>6. CASE Ask /\ UNCHANGED <<ready, answer, result, trouble>>
  <2>1. client' = [at |-> "connect", verdict |-> "none"]
    BY <1>6 DEF Ask
  <2> QED
    BY <1>1, <1>2, <1>4, <1>6, <2>1 DEF ClientTyped, Items
<1>7. CASE Connect
  <2>1. PICK items \in Answers, style \in Styles :
          answer' = [items |-> items, style |-> style, sent |-> [i \in DOMAIN items |-> 0], cut |-> FALSE]
    BY <1>7 DEF Connect
  <2>2. items \in Seq({"say", "call"}) /\ style \in {"full", "terse", "brief"}
    BY ModelClientAssumption
  <2>3. [i \in DOMAIN items |-> 0] \in Seq(0..Closed)
    BY <2>2 DEF Closed
  <2>4. answer' \in Answer0 /\ DOMAIN answer'.sent = DOMAIN answer'.items /\ ~answer'.cut
        /\ answer'.items = items /\ \A i \in DOMAIN items : answer'.sent[i] = 0
    BY <2>1, <2>2, <2>3 DEF Answer0
  <2>5. client' \in [at : {"off", "connect", "read"}, verdict : {"none", "ok", "failed"}] /\ client'.at = "read"
    BY <1>3, <1>7 DEF Connect
  <2>6. ready' \in BOOLEAN /\ trouble' \in Nat /\ result' = Empty
    BY <1>1, <1>7 DEF Connect
  <2>7. ClientTyped' /\ Fits(result')
    BY <2>4, <2>5, <2>6, NothingThere DEF ClientTyped, Fits, Items
  <2>8. Asked(answer.sent)'
    BY <2>2, <2>4 DEF Asked, Items
  <2>9. AsSent(result, answer.sent, 0, "whole")'
    <3>1. \A j \in Of("call")' \cup Of("say")' : answer'.sent[j] = 0
      BY <2>4 DEF Of, Items
    <3>2. DOMAIN result'.arena = {} /\ DOMAIN result'.text = {}
      BY <2>6, NothingThere
    <3> QED
      BY <3>1, <3>2 DEF AsSent, InOrder, InUse, CallsRead, TextRead
  <2> QED
    BY <1>4, <2>4, <2>5, <2>7, <2>8, <2>9
<1>8. CASE Retry
  <2>1. trouble' \in Nat /\ ready' = FALSE /\ answer' = NoAnswer /\ (result' = Empty \/ result' = result)
    BY <1>1, <1>8 DEF Retry
  <2>2. client' \in [at : {"off", "connect", "read"}, verdict : {"none", "ok", "failed"}] /\ client'.at = "connect"
    BY <1>3, <1>8 DEF Retry
  <2>3. Fits(result')
    BY <1>2, <2>1, NothingThere DEF Fits
  <2>4. answer' \in Answer0 /\ DOMAIN answer'.sent = Items' /\ ready' \in BOOLEAN
    BY <2>1, NothingThere DEF Items
  <2>5. ClientTyped'
    BY <2>1, <2>2, <2>3, <2>4 DEF ClientTyped, Fits
  <2> QED
    BY <1>4, <2>1, <2>2, <2>3, <2>5
<1>9. CASE Rejected
  <2>1. /\ trouble' \in Nat /\ ready' \in BOOLEAN /\ answer' = NoAnswer /\ result' = [Empty EXCEPT !.error = TRUE]
        /\ client' = [at |-> "off", verdict |-> "failed"]
    BY <1>1, <1>9 DEF Rejected
  <2>2. ClientTyped' /\ Fits(result')
    BY <2>1, NothingThere DEF ClientTyped, Fits, Items
  <2>3. client'.at = "off" /\ client'.verdict = "failed" /\ ~answer'.cut
    BY <2>1, NothingThere
  <2> QED
    BY <1>4, <2>2, <2>3
<1>10. ASSUME NEW i \in Items, Receive(i)
       PROVE  ClientTyped' /\ ClientInv'
  <2>0. PICK q, S : q = Received(result, i, "whole") /\ S = Grown(i)
    OBVIOUS
  <2>1. /\ client.at = "read" /\ MaySend(i) /\ result' = q
        /\ answer' = [answer EXCEPT !.sent = S]
        /\ UNCHANGED <<client, ready, trouble>>
    <3>1. answer' = [answer EXCEPT !.sent[i] = NextEvent(i)]
      BY <1>10 DEF Receive
    <3> QED
      BY <1>10, <2>0, <3>1 DEF Receive, Grown
  <2>2. ~answer.cut /\ Asked(answer.sent) /\ AsSent(result, answer.sent, 0, "whole")
    BY <2>1 DEF ClientInv
  <2>3. Fits(q)
    BY <1>2, <2>0, <2>1, ReceivedFits
  <2>4. AsSent(q, S, i, "whole")
    <3>1. answer.items[i] \in {"say", "call"}
      BY <2>1, SentGrows
    <3>2. "whole" \in {"part", "whole"}
      OBVIOUS
    <3> QED
      BY <1>2, <2>0, <2>1, <2>2, <3>1, <3>2, SayRead, CallRead
  <2>5. AsSent(q, S, 0, "whole")
    BY <2>4 DEF AsSent, CallsRead, TextRead
  <2>6. Asked(S) /\ S \in Seq(0..Closed) /\ DOMAIN S = Items
    BY <2>0, <2>1, <2>2, SentGrows
  <2>7. /\ answer' \in Answer0 /\ answer'.items = answer.items /\ answer'.sent = S /\ answer'.cut = answer.cut
    BY <1>1, <2>1, <2>6 DEF Answer0
  <2>8. Items' = Items /\ Asked(S)' /\ AsSent(q, S, 0, "whole")'
    BY <2>5, <2>6, <2>7, SameItems
  <2>9. ClientTyped'
    BY <1>1, <2>1, <2>3, <2>6, <2>7, <2>8 DEF ClientTyped, Fits
  <2>10. Asked(answer.sent)' /\ AsSent(result, answer.sent, 0, "whole")'
    BY <2>1, <2>7, <2>8
  <2>11. client'.at = "read"
    BY <2>1
  <2> QED
    BY <1>2, <1>4, <2>1, <2>2, <2>3, <2>7, <2>9, <2>10, <2>11
<1>11. ASSUME NEW r, Fits(r), Finish(r), NEW sent \in [Items -> 0..3], NEW i \in Nat,
              NEW content \in {"part", "whole"}, Asked(sent), AsSent(r, sent, i, content),
              NEW cut, {cut} \subseteq BOOLEAN, answer' = [answer EXCEPT !.cut = cut],
              cut \/ (content = "whole" /\ \A j \in Items : sent[j] = Closed),
              ready' \in BOOLEAN, ready' => ~cut, trouble' \in Nat
       PROVE  ClientTyped' /\ ClientInv'
  <2>1. result' = r /\ client' = [at |-> "off", verdict |-> Verdict(r)]
    BY <1>11 DEF Finish
  <2>2. Verdict(r) \in {"ok", "failed"} /\ (Verdict(r) = "ok" => ~r.error)
    BY DEF Verdict
  <2>3. answer' \in Answer0 /\ answer'.items = answer.items /\ answer'.sent = answer.sent /\ answer'.cut = cut
    BY <1>1, <1>11 DEF Answer0
  <2>4. Items' = Items
    BY <2>3, SameItems
  <2>5. client' \in [at : {"off", "connect", "read"}, verdict : {"none", "ok", "failed"}]
        /\ client'.at = "off" /\ client'.verdict = Verdict(r)
    BY <2>1, <2>2
  <2>6. ClientTyped'
    BY <1>1, <1>11, <2>1, <2>3, <2>4, <2>5 DEF ClientTyped, Fits
  <2>7. ~r.error => Handed(r, cut)
    BY <1>11, HandedOver DEF Fits
  <2>8. Verdict(r) = "ok" => Handed(r, cut)'
    BY <2>2, <2>3, <2>7, SameItems
  <2>9. client'.at = "off" /\ client'.verdict = "ok" => Handed(result, answer.cut)'
    BY <2>1, <2>3, <2>5, <2>8
  <2> QED
    BY <1>4, <1>11, <2>1, <2>3, <2>5, <2>6, <2>9
<1>12. CASE client.at = "read"
  <2>1. ~answer.cut /\ Asked(answer.sent) /\ AsSent(result, answer.sent, 0, "whole")
    BY <1>12 DEF ClientInv
  <2>2. answer.sent \in [Items -> 0..3]
    BY <1>1 DEF Answer0, Closed
  <2>3. answer = [answer EXCEPT !.cut = FALSE]
    BY <1>1, <2>1 DEF Answer0
  <2>4. 0 \in Nat /\ "whole" \in {"part", "whole"} /\ {TRUE} \subseteq BOOLEAN /\ {FALSE} \subseteq BOOLEAN
    OBVIOUS
  <2>5. CASE EndOfStream
    <3>1. /\ Finish(result) /\ ready' \in BOOLEAN /\ trouble' \in Nat /\ answer' = [answer EXCEPT !.cut = FALSE]
          /\ \A j \in Items : answer.sent[j] = Closed
      BY <1>1, <2>3, <2>5 DEF EndOfStream, AllSent
    <3> QED
      BY <1>2, <1>11, <2>1, <2>2, <2>4, <3>1
  <2>6. CASE ErrorEvent
    <3> DEFINE r == [result EXCEPT !.error = TRUE]
    <3>1. Fits(r) /\ r.error
      BY <1>1, <1>2 DEF Fits, Result
    <3>2. /\ ready' \in BOOLEAN /\ trouble' \in Nat /\ answer' = answer
          /\ result' = r /\ client' = [at |-> "off", verdict |-> Verdict(r)]
      BY <1>1, <2>6 DEF ErrorEvent, Finish
    <3> HIDE DEF r
    <3>3. Verdict(r) = "failed"
      BY <3>1 DEF Verdict
    <3>4. client' \in [at : {"off", "connect", "read"}, verdict : {"none", "ok", "failed"}]
          /\ client'.at = "off" /\ client'.verdict = "failed"
      BY <3>2, <3>3
    <3>5. ClientTyped'
      BY <1>1, <3>1, <3>2, <3>4 DEF ClientTyped, Fits, Items
    <3> QED
      BY <1>4, <2>1, <3>1, <3>2, <3>4, <3>5
  <2>7. CASE CutOff
    <3>1. /\ answer' = [answer EXCEPT !.cut = TRUE] /\ ready' = FALSE /\ trouble' \in Nat
          /\ \/ Finish(result)
             \/ \E i \in Items : MaySend(i) /\ NextEvent(i) # 1 /\ Finish(Received(result, i, "part"))
      BY <1>1, <2>7 DEF CutOff
    <3>2. CASE Finish(result)
      BY <1>2, <1>11, <2>1, <2>2, <2>4, <3>1, <3>2
    <3>3. ASSUME NEW i \in Items, MaySend(i), Finish(Received(result, i, "part"))
          PROVE  ClientTyped' /\ ClientInv'
      <4>1. PICK q, S : q = Received(result, i, "part") /\ S = Grown(i)
        OBVIOUS
      <4>2. "part" \in {"part", "whole"} /\ i \in Nat /\ answer.items[i] \in {"say", "call"}
        BY <3>3, SentGrows
      <4>3. Fits(q)
        BY <1>2, <3>3, <4>1, <4>2, ReceivedFits
      <4>4. AsSent(q, S, i, "part")
        BY <1>2, <2>1, <3>3, <4>1, <4>2, SayRead, CallRead
      <4>5. Asked(S) /\ S \in [Items -> 0..3]
        BY <2>1, <3>3, <4>1, SentGrows
      <4>6. Finish(q)
        BY <3>3, <4>1
      <4> QED
        BY <1>11, <2>4, <3>1, <4>2, <4>3, <4>4, <4>5, <4>6
    <3> QED
      BY <3>1, <3>2, <3>3
  <2> QED
    BY <1>5, <1>6, <1>7, <1>8, <1>9, <1>10, <2>5, <2>6, <2>7, ClientSteps
<1> QED
  BY <1>5, <1>6, <1>7, <1>8, <1>9, <1>10, <1>12, ClientSteps DEF EndOfStream, ErrorEvent, CutOff

(***************************************************************************)
(* The calls                                                               *)
(***************************************************************************)
LEMMA SmallestNumber ==
  ASSUME NEW T \in SUBSET Nat, T # {}
  PROVE  \E n \in T : \A m \in T : n <= m
<1> DEFINE R == {ss \in Nat \X Nat : ss[1] < ss[2]}
<1>1. IsWellFoundedOn(R, Nat)
  BY NatLessThanWellFounded DEF OpToRel
<1> HIDE DEF R
<1>2. PICK n \in T : \A m \in T : ~(<<m, n>> \in R)
  BY <1>1, WFMin
<1>3. ASSUME NEW m \in T PROVE n <= m
  <2>1. ~(m < n)
    BY <1>2 DEF R
  <2> QED
    BY <2>1
<1> QED
  BY <1>3

LEMMA CallTaken ==
  ASSUME ClientTyped, offset \in Nat, Left(result, offset) # {}
  PROVE  /\ CallNext(result, offset) \in Left(result, offset)
         /\ \A k \in Left(result, offset) : Called.order <= result.arena[k].order
         /\ Called \in Record /\ Called.item \in Nat /\ Called.order \in Nat /\ offset < Called.order
         /\ CallNext(result, offset) \in Ready(result)
<1> DEFINE L == Left(result, offset)
<1>1. \A k \in L : result.arena[k] \in Record /\ offset < result.arena[k].order /\ k \in Ready(result)
  <2>1. \A k \in DOMAIN result.arena : result.arena[k] \in Record
    BY DEF ClientTyped, Result
  <2> QED
    BY <2>1 DEF Left, Ready, Record
<1>2. \A k \in L : result.arena[k].item \in Nat /\ result.arena[k].order \in Nat
  BY <1>1 DEF Record
<1> HIDE DEF L
<1>3. PICK n \in {result.arena[k].order : k \in L} : \A m \in {result.arena[k].order : k \in L} : n <= m
  <2>1. {result.arena[k].order : k \in L} \in SUBSET Nat
    BY <1>2
  <2>2. {result.arena[k].order : k \in L} # {}
    BY DEF L
  <2> QED
    BY <2>1, <2>2, SmallestNumber
<1>4. \E k \in L : \A j \in L : result.arena[k].order <= result.arena[j].order
  BY <1>3
<1>5. /\ CallNext(result, offset) \in L
      /\ \A j \in L : result.arena[CallNext(result, offset)].order <= result.arena[j].order
  BY <1>4 DEF CallNext, L
<1> QED
  BY <1>1, <1>2, <1>5 DEF Called, L

(***************************************************************************)
(* The types of the turn                                                   *)
(***************************************************************************)
LEMMA SendTyped ==
  ASSUME TurnTyped, SendFinal \/ Send(Taken) \/ NothingSaid \/ UNCHANGED <<finals, channel>>
  PROVE  finals' \in Nat /\ stops' \in Nat /\ poller' \in {"free", "photo", "quick"} /\ photoFailed' \in BOOLEAN
<1>1. CASE SendFinal \/ Send(Taken)
  <2>1. PICK taken : Send(taken)
    BY <1>1 DEF SendFinal
  <2> QED
    BY <2>1 DEF Send, ResponseBegin, TurnTyped
<1> QED
  BY <1>1 DEF NothingSaid, channel, TurnTyped

LEMMA TurnKeepsTypes ==
  ASSUME ClientTyped, TurnTyped, [TurnNext]_all
  PROVE  TurnTyped'
<1>1. /\ scene \in Scenes /\ turn \in Turns /\ trace \in Seq(Entry) /\ ran \in Seq(Entry) /\ offset \in Nat
      /\ said \in Saids /\ finals \in Nat /\ kept \in BOOLEAN /\ turns \in Nat /\ turn.round \in Nat
      /\ stops \in Nat /\ poller \in {"free", "photo", "quick"} /\ photoFailed \in BOOLEAN
  BY DEF TurnTyped, Turns
<1>2. \A place \in Places : [turn EXCEPT !.at = place] \in Turns
  BY <1>1 DEF Turns
<1>3. \A ok \in BOOLEAN : [turn EXCEPT !.at = "over", !.ok = ok] \in Turns
  BY <1>1 DEF Turns, Places
<1>4. \A kind \in {"chat", "serial", "job", "command"}, place \in Places :
        [at |-> place, kind |-> kind, round |-> 0, ok |-> TRUE] \in Turns
  BY DEF Turns
<1>9. \A blank \in BOOLEAN : [said EXCEPT !.blank = blank] \in Saids
  BY <1>1 DEF Saids
<1>16. \A ok \in BOOLEAN, place \in Places : [turn EXCEPT !.ok = ok, !.at = place] \in Turns
  BY <1>1 DEF Turns
<1>17. {Taken} \subseteq BOOLEAN
  BY Zenon DEF Taken
<1>5. /\ Silent \in Saids /\ <<>> \in Seq(Entry) /\ {"build", "command", "infer", "wait", "say", "flush", "keep",
         "compact", "summary", "tools", "over", "idle"} \subseteq Places
  BY DEF Silent, Saids, Places
<1>6. [turn EXCEPT !.at = "wait", !.round = turn.round + 1] \in Turns
  <2>1. \A n \in Nat : [turn EXCEPT !.at = "wait", !.round = n] \in Turns
    BY <1>1 DEF Turns, Places
  <2>2. turn.round + 1 \in Nat
    BY <1>1
  <2> QED
    BY <2>1, <2>2
<1>7. ASSUME Left(result, offset) # {}
      PROVE  /\ Append(ran, <<turn.round, Called.item>>) \in Seq(Entry)
             /\ Append(trace, <<turn.round, Called.item>>) \in Seq(Entry)
             /\ Called.order \in Nat
  <2>1. Called.item \in Nat /\ Called.order \in Nat
    BY <1>1, <1>7, CallTaken
  <2> QED
    BY <1>1, <2>1 DEF Entry
<1>8. Append(trace, <<turn.round, 0>>) \in Seq(Entry)
  BY <1>1 DEF Entry
<1>10. CASE Agent
  <2>1. CASE Command \/ Flushed \/ Summarised
    <3>1. {turn.ok} \subseteq BOOLEAN
      BY <1>1, Zenon DEF Turns
    <3>2. PICK ok \in BOOLEAN : Return(ok)
      BY <2>1, <3>1 DEF Command, Flushed, Summarised
    <3>3. turn' \in Turns
      BY <3>2, <1>3 DEF Return
    <3> QED
      BY <2>1, <3>3, <1>1, SendTyped DEF Command, Flushed, Summarised, TurnTyped
  <2>8. CASE Say
    <3>1. turn' \in Turns
      <4> DEFINE place == IF turn.kind # "job" THEN "keep" ELSE IF Taken THEN "flush" ELSE "over"
      <4>1. place \in Places
        BY <1>5
      <4>2. turn' = [turn EXCEPT !.ok = Taken, !.at = place]
        BY <2>8 DEF Say
      <4> HIDE DEF place
      <4> QED
        BY <4>1, <4>2, <1>16, <1>17
    <3> QED
      BY <2>8, <3>1, <1>1, SendTyped DEF Say, TurnTyped
  <2>2. CASE BuildRequest \/ InferFails
    BY <2>2, <1>1, <1>2, <1>3, <1>5, SendTyped DEF BuildRequest, InferFails, GiveUp, Return, At, TurnTyped
  <2>3. CASE Infer \/ Compact \/ BatchDone
    BY <2>3, <1>1, <1>2, <1>5, <1>6, SendTyped DEF Infer, Compact, BatchDone, At, TurnTyped
  <2>4. CASE Answer \/ TurnOver
    <3>1. UNCHANGED <<finals, channel>> /\ turn' \in Turns
      BY <2>4, <1>2, <1>5 DEF Answer, TurnOver, At
    <3>2. said' \in Saids
      BY <2>4, <1>1, <1>9 DEF Answer, TurnOver
    <3> QED
      BY <2>4, <3>1, <3>2, <1>1, SendTyped DEF Answer, TurnOver, TurnTyped
  <2>5. CASE Keep
    <3>1. {Len(trace) < RequestSize} \subseteq BOOLEAN
      OBVIOUS
    <3>2. kept' \in BOOLEAN
      BY <2>5, <3>1 DEF Keep
    <3>3. turn' \in Turns /\ NothingSaid
      <4>1. {turn.ok} \subseteq BOOLEAN
        BY <1>1, Zenon DEF Turns
      <4> QED
        BY <2>5, <4>1, <1>2, <1>3, <1>5 DEF Keep, Return, At
    <3> QED
      BY <2>5, <3>2, <3>3, <1>1, SendTyped DEF Keep, TurnTyped
  <2>6. CASE RunCall
    BY <2>6, <1>1, <1>3, <1>7, SendTyped DEF RunCall, GiveUp, Return, TurnTyped
  <2>7. CASE Progress
    <3>1. said' \in Saids
      <4>0. PICK left \in {result.text # <<>>, FALSE} :
              LET stands == ~left /\ ~said.progress /\ ~said.fallback /\ IsSlow
                  sends  == stands \/ (left /\ (~said.progress \/ (IsSlow /\ ~said.slow)))
              IN  said' = [progress |-> said.progress \/ sends, fallback |-> said.fallback \/ stands,
                           slow |-> said.slow \/ (sends /\ IsSlow), blank |-> FALSE]
        BY <2>7 DEF Progress
      <4> DEFINE stands == ~left /\ ~said.progress /\ ~said.fallback /\ IsSlow
                 sends  == stands \/ (left /\ (~said.progress \/ (IsSlow /\ ~said.slow)))
                 p      == said.progress \/ sends
                 f      == said.fallback \/ stands
                 s      == said.slow \/ (sends /\ IsSlow)
      <4>1. said' = [progress |-> p, fallback |-> f, slow |-> s, blank |-> FALSE]
        BY <4>0
      <4>2. {p, f, s} \subseteq BOOLEAN
        OBVIOUS
      <4> HIDE DEF p, f, s
      <4> QED
        BY <4>1, <4>2 DEF Saids
    <3>2. trace' \in Seq(Entry)
      BY <2>7, <1>1, <1>8 DEF Progress
    <3>3. CASE SendFinal /\ Return(FALSE) /\ UNCHANGED offset
      BY <2>7, <3>1, <3>2, <3>3, <1>1, <1>3, SendTyped DEF Progress, Return, TurnTyped
    <3>4. CASE offset' = 0 /\ At("tools") /\ UNCHANGED <<finals, channel>>
      BY <2>7, <3>1, <3>2, <3>4, <1>1, <1>2, <1>5, SendTyped DEF Progress, At, TurnTyped
    <3> QED
      BY <2>7, <3>3, <3>4 DEF Progress
  <2> QED
    BY <1>10, <2>1, <2>2, <2>3, <2>4, <2>5, <2>6, <2>7, <2>8 DEF Agent
<1>11. CASE ClientStep \/ ProviderStep \/ ScreenStep \/ WorldStep \/ UNCHANGED all
  BY <1>11, <1>1 DEF ClientStep, ProviderStep, ScreenStep, WorldStep, all, agentTurn, process, channel, TurnTyped
<1>12. CASE SenderStops \/ MediaError \/ QuickDone
  <2>1. UNCHANGED agentTurn
    BY <1>12 DEF SenderStops, MediaError, QuickDone
  <2>2. stops' \in Nat /\ poller' \in {"free", "photo", "quick"} /\ photoFailed' \in BOOLEAN
    <3>1. CASE SenderStops
      BY <3>1, <1>1 DEF SenderStops
    <3>2. CASE MediaError
      BY <3>2, <1>1 DEF MediaError
    <3>3. CASE QuickDone
      BY <3>3, <1>1 DEF QuickDone
    <3> QED
      BY <1>12, <3>1, <3>2, <3>3
  <2> QED
    BY <1>1, <2>1, <2>2 DEF agentTurn, process, TurnTyped
<1>13. CASE PhotoTaken
  BY <1>13, <1>1, <1>4, <1>5 DEF PhotoTaken, TurnTyped
<1>14. ASSUME NEW kind \in scene.kinds, Take(kind)
       PROVE  TurnTyped'
  <2>1. kind \in {"chat", "serial", "job", "command"}
    BY <1>1, TurnAssumption
  <2>2. turn' \in Turns
    <3>1. PICK place \in Places : turn' = [at |-> place, kind |-> kind, round |-> 0, ok |-> TRUE]
      BY <1>14, <1>5 DEF Take
    <3> QED
      BY <3>1, <2>1, <1>4
  <2> QED
    <3>1. /\ scene' \in Scenes /\ trace' \in Seq(Entry) /\ ran' \in Seq(Entry) /\ offset' \in Nat
          /\ said' \in Saids /\ finals' \in Nat /\ turns' \in Nat
      BY <1>14, <1>1, <1>5 DEF Take
    <3>2. kept' \in BOOLEAN /\ photoFailed' \in BOOLEAN
      BY <1>14 DEF Take
    <3>3. stops' \in Nat /\ poller' \in {"free", "photo", "quick"}
      BY <1>14, <1>1 DEF Take
    <3> QED
      BY <2>2, <3>1, <3>2, <3>3 DEF TurnTyped
<1>15. ASSUME NEW what \in {"photo", "quick"}, PollerBegins(what)
       PROVE  TurnTyped'
  BY <1>15, <1>1 DEF PollerBegins, process, TurnTyped
<1> QED
  BY <1>10, <1>11, <1>12, <1>13, <1>14, <1>15 DEF TurnNext, Poller, Arrives

(***************************************************************************)
(* The calls that ran                                                      *)
(***************************************************************************)
LEMMA HandedCalls ==
  ASSUME ClientTyped, ClientInv, client.at = "off", client.verdict = "ok"
  PROVE  /\ \A k \in Ready(result) : /\ result.arena[k].order > 0 /\ result.arena[k].item > 0
                                     /\ result.arena[k].item \in Nat /\ result.arena[k].order \in Nat
         /\ \A a, b \in Ready(result) :
              result.arena[a].order < result.arena[b].order <=> result.arena[a].item < result.arena[b].item
<1>1. Handed(result, answer.cut)
  BY DEF ClientInv, AnswerAsSent
<1>2. Ready(result) = Left(result, 0)
  BY <1>1 DEF Handed
<1>3. \A a, b \in Ready(result) :
        result.arena[a].order < result.arena[b].order <=> result.arena[a].item < result.arena[b].item
  BY <1>1 DEF Handed
<1>4. \A k \in Ready(result) : result.arena[k].item \in Of("call")
  BY <1>1 DEF Handed
<1>5. \A j \in Of("call") : j \in Nat /\ j > 0
  <2>1. answer.items \in Seq({"say", "call"})
    BY DEF ClientTyped, Answer0
  <2> QED
    BY <2>1 DEF Of, Items
<1>6. \A k \in Ready(result) : result.arena[k].order \in Nat
  <2>1. \A k \in DOMAIN result.arena : result.arena[k] \in Record
    BY DEF ClientTyped, Result
  <2> QED
    BY <2>1 DEF Ready, Record
<1>7. \A k \in Ready(result) : result.arena[k].order > 0
  BY <1>2 DEF Left
<1> QED
  BY <1>3, <1>4, <1>5, <1>6, <1>7

(* The client works only while the turn waits for it.                      *)
LEMMA ClientRests ==
  ASSUME TurnTyped, RanInv, [TurnNext]_all
  PROVE  /\ client'.at # "off" => turn'.at \in {"wait", "summary"}
         /\ client.at = "off" =>
              \/ UNCHANGED <<client, result>>
              \/ turn'.at \in {"wait", "summary"} /\ UNCHANGED result
<1>0. turn \in Turns
  BY DEF TurnTyped
<1>1. CASE Agent
  <2>1. CASE Infer \/ Compact
    BY <1>0, <2>1 DEF Infer, Compact, At, Turns
  <2>2. CASE UNCHANGED llm /\ turn.at \notin {"wait", "summary"}
    BY <2>2 DEF llm, RanInv
  <2>3. CASE UNCHANGED llm /\ client.at = "off"
    BY <2>3 DEF llm
  <2> QED
    BY <1>1, <2>1, <2>2, <2>3 DEF Agent, Command, BuildRequest, InferFails, Answered, Answer, Say, Flushed, Keep,
         Summarised, Progress, RunCall, BatchDone, TurnOver
<1>2. CASE ClientStep \/ ProviderStep
  <2>1. UNCHANGED turn
    BY <1>2 DEF ClientStep, ProviderStep, agentTurn, process
  <2>2. client.at # "off"
    BY <1>2 DEF ClientStep, ProviderStep, Client, Provider, Connect, EndOfStream, Receive, Retry, Rejected,
                ErrorEvent, CutOff
  <2> QED
    BY <2>1, <2>2 DEF RanInv
<1>3. CASE SenderStops \/ MediaError \/ QuickDone \/ ScreenStep \/ WorldStep \/ UNCHANGED all
           \/ \E what \in {"photo", "quick"} : PollerBegins(what)
  BY <1>3 DEF SenderStops, MediaError, QuickDone, ScreenStep, WorldStep, all, PollerBegins, agentTurn, process,
              llm, RanInv
<1>4. CASE PhotoTaken \/ \E kind \in scene.kinds : Take(kind)
  BY <1>4 DEF PhotoTaken, Take, llm, RanInv
<1> QED
  BY <1>1, <1>2, <1>3, <1>4 DEF TurnNext, Poller, Arrives

LEMMA RanMoves ==
  ASSUME TurnTyped, [TurnNext]_all
  PROVE  \/ ran' = <<>> /\ turn'.at \in {"build", "command"}
         \/ RunCall
         \/ Infer /\ UNCHANGED ran /\ turn'.at = "wait" /\ turn'.round = turn.round + 1
         \/ /\ Progress /\ UNCHANGED <<ran, llm>> /\ offset' = 0 /\ turn'.at = "tools" /\ turn'.round = turn.round
            /\ turn.at = "wait" /\ client.verdict = "ok"
         \/ UNCHANGED <<ran, turn, offset>>
         \/ UNCHANGED ran /\ turn'.at \notin {"wait", "tools"} /\ turn'.round = turn.round
<1>0. turn \in Turns
  BY DEF TurnTyped
<1>1. CASE Agent
  <2>1. CASE Command \/ BuildRequest \/ InferFails \/ Answer \/ Say \/ Flushed \/ Keep \/ Compact \/ Summarised
             \/ BatchDone \/ TurnOver
    BY <1>0, <2>1 DEF Command, BuildRequest, InferFails, GiveUp, Answer, Say, Flushed, Keep, Compact, Summarised,
                      BatchDone, TurnOver, At, Return, Turns
  <2>2. CASE Infer
    BY <1>0, <2>2 DEF Infer, Turns
  <2>3. CASE Progress
    BY <1>0, <2>3 DEF Progress, Answered, At, Return, Turns
  <2> QED
    BY <1>1, <2>1, <2>2, <2>3 DEF Agent
<1>2. CASE ClientStep \/ ProviderStep \/ SenderStops \/ MediaError \/ QuickDone \/ ScreenStep \/ WorldStep
           \/ UNCHANGED all \/ \E what \in {"photo", "quick"} : PollerBegins(what)
  BY <1>2 DEF ClientStep, ProviderStep, SenderStops, MediaError, QuickDone, ScreenStep, WorldStep, all,
              PollerBegins, agentTurn, process
<1>3. CASE PhotoTaken \/ \E kind \in scene.kinds : Take(kind)
  BY <1>3 DEF PhotoTaken, Take
<1> QED
  BY <1>1, <1>2, <1>3 DEF TurnNext, Poller, Arrives

LEMMA RanKept ==
  ASSUME ClientTyped, TurnTyped, ClientInv, RanInv, [TurnNext]_all
  PROVE  RanInv'
<1>0. /\ turn \in Turns /\ turn' \in Turns /\ turn.round \in Nat /\ turn'.round \in Nat /\ offset \in Nat
      /\ ran \in Seq(Entry) /\ Len(ran) \in Nat /\ DOMAIN ran = 1..Len(ran)
      /\ \A a \in DOMAIN ran : ran[a][1] \in Nat /\ ran[a][2] \in Nat
  <2>1. turn \in Turns /\ turn' \in Turns /\ offset \in Nat /\ ran \in Seq(Entry)
    BY TurnKeepsTypes DEF TurnTyped
  <2>2. Len(ran) \in Nat /\ DOMAIN ran = 1..Len(ran) /\ \A a \in DOMAIN ran : ran[a] \in Entry
    BY <2>1
  <2> QED
    BY <2>1, <2>2 DEF Turns, Entry
<1>1. /\ client.at # "off" => turn.at \in {"wait", "summary"}
      /\ turn.at = "tools" => client.verdict = "ok"
      /\ turn.at \in {"wait", "tools"} => turn.round > 0
      /\ \A a, b \in DOMAIN ran : a < b => Earlier(ran[a], ran[b])
      /\ \A a \in DOMAIN ran :
           /\ ran[a][1] <= turn.round
           /\ turn.at = "wait" => ran[a][1] < turn.round
           /\ turn.at = "tools" /\ ran[a][1] = turn.round =>
                \E k \in Ready(result) : result.arena[k].item = ran[a][2] /\ result.arena[k].order <= offset
      /\ turn.at = "tools" =>
           \A k \in Ready(result) :
             result.arena[k].order <= offset => <<turn.round, result.arena[k].item>> \in Range(ran)
  BY DEF RanInv
<1>2. /\ client'.at # "off" => turn'.at \in {"wait", "summary"}
      /\ client.at = "off" =>
           \/ UNCHANGED <<client, result>>
           \/ turn'.at \in {"wait", "summary"} /\ UNCHANGED result
  BY ClientRests
<1>3. CASE ran' = <<>> /\ turn'.at \in {"build", "command"}
  BY <1>2, <1>3 DEF RanInv
<1>4. CASE Infer /\ UNCHANGED ran /\ turn'.at = "wait" /\ turn'.round = turn.round + 1
  BY <1>0, <1>1, <1>2, <1>4 DEF RanInv
<1>5. CASE /\ Progress /\ UNCHANGED <<ran, llm>> /\ offset' = 0 /\ turn'.at = "tools" /\ turn'.round = turn.round
           /\ turn.at = "wait" /\ client.verdict = "ok"
  <2>1. client.at = "off"
    BY <1>5 DEF Progress, Answered
  <2>2. UNCHANGED <<client, result>>
    BY <1>5 DEF llm
  <2>3. \A k \in Ready(result) : ~(result.arena[k].order <= 0)
    BY <1>5, <2>1, HandedCalls
  <2> QED
    BY <1>0, <1>1, <1>5, <2>1, <2>2, <2>3 DEF RanInv
<1>6. CASE UNCHANGED <<ran, turn, offset>>
  <2>1. turn.at = "tools" => UNCHANGED <<client, result>>
    BY <1>1, <1>2, <1>6
  <2> QED
    BY <1>0, <1>1, <1>2, <1>6, <2>1 DEF RanInv
<1>7. CASE UNCHANGED ran /\ turn'.at \notin {"wait", "tools"} /\ turn'.round = turn.round
  BY <1>0, <1>1, <1>2, <1>7 DEF RanInv
<1>8. CASE RunCall
  <2> DEFINE n == Len(ran)
             k0 == CallNext(result, offset)
             c == Called
             e == <<turn.round, c.item>>
  <2>1. /\ turn.at = "tools" /\ Left(result, offset) # {} /\ ran' = Append(ran, e) /\ offset' = c.order
        /\ UNCHANGED llm /\ turn'.round = turn.round /\ turn'.at \in {"tools", "over"}
    BY <1>0, <1>8 DEF RunCall, GiveUp, Return, Turns
  <2>2. /\ k0 \in Left(result, offset) /\ k0 \in Ready(result) /\ c = result.arena[k0]
        /\ \A k \in Left(result, offset) : c.order <= result.arena[k].order
        /\ c.item \in Nat /\ c.order \in Nat /\ offset < c.order
    BY <1>0, <2>1, CallTaken DEF Called
  <2>3. client.at = "off" /\ client.verdict = "ok"
    BY <1>1, <2>1
  <2>4. /\ \A k \in Ready(result) : /\ result.arena[k].order > 0 /\ result.arena[k].item > 0
                                    /\ result.arena[k].item \in Nat /\ result.arena[k].order \in Nat
        /\ \A a, b \in Ready(result) :
             result.arena[a].order < result.arena[b].order <=> result.arena[a].item < result.arena[b].item
    BY <2>3, HandedCalls
  <2>5. UNCHANGED <<client, result>>
    BY <2>1 DEF llm
  <2>6. e[1] = turn.round /\ e[2] = c.item
    OBVIOUS
  <2> HIDE DEF k0, c, e
  <2>7. /\ DOMAIN ran' = 1..(n + 1) /\ \A a \in 1..n : ran'[a] = ran[a]
        /\ ran'[n + 1] = e
    BY <1>0, <2>1
  <2> HIDE DEF n
  <2>8. n \in Nat /\ DOMAIN ran = 1..n
    BY <1>0 DEF n
  <2>9. \A a \in 1..n : Earlier(ran[a], e)
    <3> SUFFICES ASSUME NEW a \in 1..n, ran[a][1] = turn.round
                 PROVE  ran[a][2] < e[2]
      BY <1>0, <1>1, <2>6, <2>8 DEF Earlier
    <3>1. PICK k \in Ready(result) : result.arena[k].item = ran[a][2] /\ result.arena[k].order <= offset
      BY <1>1, <2>1, <2>8
    <3>2. result.arena[k].order < result.arena[k0].order
      BY <1>0, <2>2, <2>4, <3>1
    <3> QED
      BY <2>2, <2>4, <2>6, <3>1, <3>2
  <2>10. \A a, b \in DOMAIN ran' : a < b => Earlier(ran'[a], ran'[b])
    <3> SUFFICES ASSUME NEW a \in 1..(n + 1), NEW b \in 1..(n + 1), a < b
                 PROVE  Earlier(ran'[a], ran'[b])
      BY <2>7
    <3>1. CASE b = n + 1
      BY <2>7, <2>8, <2>9, <3>1
    <3>2. CASE b \in 1..n
      BY <1>1, <2>7, <2>8, <3>2
    <3> QED
      BY <2>8, <3>1, <3>2
  <2>11. ASSUME NEW a \in 1..(n + 1)
         PROVE  /\ ran'[a][1] <= turn.round
                /\ ran'[a][1] = turn.round =>
                     \E k \in Ready(result) : result.arena[k].item = ran'[a][2] /\ result.arena[k].order <= c.order
    <3>1. CASE a = n + 1
      BY <1>0, <2>2, <2>6, <2>7, <3>1
    <3>2. CASE a \in 1..n
      <4>1. ran'[a] = ran[a] /\ ran[a][1] <= turn.round
        BY <1>1, <2>7, <2>8, <3>2
      <4>2. ASSUME ran[a][1] = turn.round
            PROVE  \E k \in Ready(result) : result.arena[k].item = ran[a][2] /\ result.arena[k].order <= c.order
        <5>1. PICK k \in Ready(result) : result.arena[k].item = ran[a][2] /\ result.arena[k].order <= offset
          BY <1>1, <2>1, <2>8, <3>2, <4>2
        <5>2. result.arena[k].order <= c.order
          BY <1>0, <2>2, <2>4, <5>1
        <5> QED
          BY <5>1, <5>2
      <4> QED
        BY <4>1, <4>2
    <3> QED
      BY <2>8, <3>1, <3>2
  <2>12. ASSUME NEW k \in Ready(result), result.arena[k].order <= c.order
         PROVE  <<turn.round, result.arena[k].item>> \in Range(ran')
    <3>1. \A x : (\E a \in 1..(n + 1) : ran'[a] = x) => x \in Range(ran')
      BY <2>7 DEF Range
    <3>2. CASE result.arena[k].order <= offset
      <4>1. <<turn.round, result.arena[k].item>> \in Range(ran)
        BY <1>1, <2>1, <3>2
      <4>2. PICK a \in 1..n : ran[a] = <<turn.round, result.arena[k].item>>
        BY <2>8, <4>1 DEF Range
      <4> QED
        BY <2>7, <2>8, <3>1, <4>2
    <3>3. CASE ~(result.arena[k].order <= offset)
      <4>1. k \in Left(result, offset)
        BY <1>0, <2>4, <3>3 DEF Left
      <4>2. ~(result.arena[k].order < result.arena[k0].order) /\ ~(result.arena[k0].order < result.arena[k].order)
        BY <2>2, <2>4, <2>12, <4>1
      <4>3. result.arena[k].item = c.item
        BY <2>2, <2>4, <4>2
      <4> QED
        BY <2>7, <2>8, <3>1, <4>3 DEF e
    <3> QED
      BY <3>2, <3>3
  <2>13. /\ client'.at = "off" /\ client'.verdict = "ok" /\ turn'.at \notin {"wait", "summary"}
         /\ turn'.round > 0 /\ result' = result /\ Ready(result)' = Ready(result)
    BY <1>1, <2>1, <2>3, <2>5
  <2>14. \A a \in DOMAIN ran' :
           /\ ran'[a][1] <= turn'.round
           /\ turn'.at = "tools" /\ ran'[a][1] = turn'.round =>
                \E k \in Ready(result)' : result'.arena[k].item = ran'[a][2] /\ result'.arena[k].order <= offset'
    <3> SUFFICES ASSUME NEW a \in 1..(n + 1)
                 PROVE  /\ ran'[a][1] <= turn.round
                        /\ ran'[a][1] = turn.round =>
                             \E k \in Ready(result) : result.arena[k].item = ran'[a][2]
                                                      /\ result.arena[k].order <= c.order
      BY <2>1, <2>7, <2>13
    <3> QED
      BY <2>11
  <2>15. \A k \in Ready(result)' :
           result'.arena[k].order <= offset' => <<turn'.round, result'.arena[k].item>> \in Range(ran)'
    BY <2>1, <2>12, <2>13
  <2> QED
    BY <2>10, <2>13, <2>14, <2>15 DEF RanInv
<1> QED
  BY <1>3, <1>4, <1>5, <1>6, <1>7, <1>8, RanMoves

(***************************************************************************)
(* What the model is told                                                  *)
(***************************************************************************)
(* The outcomes of the first n entries of a trace, and of all of them.     *)
Tells(t, g, N) ==
  g = [n \in 0..N |-> IF n = 0 THEN <<>> ELSE IF t[n][2] = 0 THEN g[n - 1] ELSE Append(g[n - 1], t[n])]

OutcomesOf(t) ==
  LET told[n \in 0..Len(t)] ==
        IF n = 0 THEN <<>> ELSE IF t[n][2] = 0 THEN told[n - 1] ELSE Append(told[n - 1], t[n])
  IN  told[Len(t)]

LEMMA TellsExists ==
  ASSUME NEW t, NEW N \in Nat
  PROVE  \E g : Tells(t, g, N)
<1> DEFINE T == {m \in Nat : ~\E g : Tells(t, g, m)}
<1>1. SUFFICES ASSUME T # {}
               PROVE  FALSE
  OBVIOUS
<1>2. PICK m \in T : \A y \in T : m <= y
  <2>1. T \in SUBSET Nat
    OBVIOUS
  <2> HIDE DEF T
  <2> QED
    BY <1>1, <2>1, SmallestNumber
<1>3. m # 0
  <2>1. Tells(t, [n \in 0..0 |-> <<>>], 0)
    BY DEF Tells
  <2> QED
    BY <2>1
<1>4. m \in Nat /\ m - 1 \in Nat /\ m - 1 \notin T
  BY <1>2, <1>3
<1>5. PICK g : Tells(t, g, m - 1)
  BY <1>4
<1> DEFINE last == IF t[m][2] = 0 THEN g[m - 1] ELSE Append(g[m - 1], t[m])
           h == [n \in 0..m |-> IF n = m THEN last ELSE g[n]]
<1>6. \A n \in 0..(m - 1) :
        g[n] = IF n = 0 THEN <<>> ELSE IF t[n][2] = 0 THEN g[n - 1] ELSE Append(g[n - 1], t[n])
  BY <1>5 DEF Tells
<1>7. \A n \in 0..m : h[n] = IF n = 0 THEN <<>> ELSE IF t[n][2] = 0 THEN h[n - 1] ELSE Append(h[n - 1], t[n])
  <2>1. ASSUME NEW n \in 0..m, n = m
        PROVE  h[n] = IF n = 0 THEN <<>> ELSE IF t[n][2] = 0 THEN h[n - 1] ELSE Append(h[n - 1], t[n])
    BY <1>3, <1>4, <2>1
  <2>2. ASSUME NEW n \in 0..m, n # m
        PROVE  h[n] = IF n = 0 THEN <<>> ELSE IF t[n][2] = 0 THEN h[n - 1] ELSE Append(h[n - 1], t[n])
    BY <1>4, <1>6, <2>2
  <2> QED
    BY <2>1, <2>2
<1>8. h = [n \in 0..m |-> h[n]]
  OBVIOUS
<1> HIDE DEF h
<1>9. Tells(t, h, m)
  BY <1>7, <1>8 DEF Tells
<1> QED
  BY <1>2, <1>9

(* Two traces that begin with the same entries tell the same so far.       *)
LEMMA TellsSame ==
  ASSUME NEW t, NEW u, NEW g, NEW h, NEW M \in Nat, NEW N \in Nat, Tells(t, g, M), Tells(u, h, N),
         NEW n \in Nat, n <= M, n <= N, \A k \in 1..n : t[k] = u[k]
  PROVE  g[n] = h[n]
<1> DEFINE T == {m \in 0..n : g[m] # h[m]}
<1>1. SUFFICES ASSUME T # {}
               PROVE  FALSE
  OBVIOUS
<1>2. PICK m \in T : \A y \in T : m <= y
  <2>1. T \in SUBSET Nat
    OBVIOUS
  <2> HIDE DEF T
  <2> QED
    BY <1>1, <2>1, SmallestNumber
<1>3. /\ \A k \in 0..M : g[k] = IF k = 0 THEN <<>> ELSE IF t[k][2] = 0 THEN g[k - 1] ELSE Append(g[k - 1], t[k])
      /\ \A k \in 0..N : h[k] = IF k = 0 THEN <<>> ELSE IF u[k][2] = 0 THEN h[k - 1] ELSE Append(h[k - 1], u[k])
  BY DEF Tells
<1>4. m # 0
  BY <1>2, <1>3
<1>5. m \in 1..n /\ m - 1 \in 0..n /\ m - 1 \notin T
  BY <1>2, <1>4
<1>6. g[m - 1] = h[m - 1] /\ t[m] = u[m]
  BY <1>5
<1>7. g[m] = h[m]
  BY <1>3, <1>5, <1>6
<1> QED
  BY <1>2, <1>7

LEMMA OutcomesTell ==
  ASSUME NEW t \in Seq(Entry)
  PROVE  \E g : Tells(t, g, Len(t)) /\ OutcomesOf(t) = g[Len(t)]
<1> DEFINE s == CHOOSE g : g = [n \in 0..Len(t) |-> IF n = 0 THEN <<>> ELSE IF t[n][2] = 0 THEN g[n - 1]
                                                   ELSE Append(g[n - 1], t[n])]
<1>1. Tells(t, s, Len(t))
  <2>1. \E g : g = [n \in 0..Len(t) |-> IF n = 0 THEN <<>> ELSE IF t[n][2] = 0 THEN g[n - 1]
                                       ELSE Append(g[n - 1], t[n])]
    <3>1. Len(t) \in Nat
      OBVIOUS
    <3>2. PICK g : Tells(t, g, Len(t))
      BY <3>1, TellsExists
    <3> QED
      BY <3>2 DEF Tells
  <2>2. s = [n \in 0..Len(t) |-> IF n = 0 THEN <<>> ELSE IF t[n][2] = 0 THEN s[n - 1]
                                 ELSE Append(s[n - 1], t[n])]
    BY <2>1
  <2> HIDE DEF s
  <2> QED
    BY <2>2 DEF Tells
<1>2. OutcomesOf(t) = s[Len(t)]
  BY DEF OutcomesOf
<1> HIDE DEF s
<1> QED
  BY <1>1, <1>2

LEMMA OutcomesGrow ==
  ASSUME NEW t \in Seq(Entry), NEW e \in Entry
  PROVE  OutcomesOf(Append(t, e)) = IF e[2] = 0 THEN OutcomesOf(t) ELSE Append(OutcomesOf(t), e)
<1> DEFINE n == Len(t)
           u == Append(t, e)
<1>1. /\ n \in Nat /\ u \in Seq(Entry) /\ Len(u) = n + 1 /\ u[n + 1] = e /\ \A k \in 1..n : t[k] = u[k]
  OBVIOUS
<1>2. PICK g : Tells(t, g, Len(t)) /\ OutcomesOf(t) = g[Len(t)]
  BY OutcomesTell
<1>3. PICK h : Tells(u, h, Len(u)) /\ OutcomesOf(u) = h[Len(u)]
  BY <1>1, OutcomesTell
<1> HIDE DEF n, u
<1>4. g[n] = h[n]
  <2>1. Tells(t, g, n) /\ Tells(u, h, n + 1) /\ n + 1 \in Nat /\ n <= n /\ n <= n + 1
    BY <1>1, <1>2, <1>3 DEF n
  <2> QED
    BY <1>1, <2>1, TellsSame
<1>5. h[n + 1] = IF u[n + 1][2] = 0 THEN h[n] ELSE Append(h[n], u[n + 1])
  <2>1. Tells(u, h, n + 1) /\ n + 1 \in 0..(n + 1) /\ n + 1 # 0 /\ (n + 1) - 1 = n
    BY <1>1, <1>3
  <2>2. h[n + 1] = IF n + 1 = 0 THEN <<>> ELSE IF u[n + 1][2] = 0 THEN h[(n + 1) - 1]
                   ELSE Append(h[(n + 1) - 1], u[n + 1])
    BY <2>1 DEF Tells
  <2> QED
    BY <2>1, <2>2
<1>6. OutcomesOf(t) = g[n] /\ OutcomesOf(u) = h[n + 1]
  BY <1>1, <1>2, <1>3 DEF n
<1> QED
  BY <1>1, <1>4, <1>5, <1>6 DEF u

LEMMA OutcomesNone == OutcomesOf(<<>>) = <<>>
<1>1. <<>> \in Seq(Entry) /\ Len(<<>>) = 0
  OBVIOUS
<1>2. PICK g : Tells(<<>>, g, Len(<<>>)) /\ OutcomesOf(<<>>) = g[Len(<<>>)]
  BY <1>1, OutcomesTell
<1> QED
  BY <1>1, <1>2 DEF Tells

LEMMA TraceMoves ==
  ASSUME TurnTyped, RanInv, [TurnNext]_all
  PROVE  \/ trace' = <<>> /\ ran' = <<>> /\ turn'.at \in {"build", "command"} /\ turn'.round = 0
         \/ RunCall
         \/ /\ UNCHANGED ran /\ trace' \in {trace, Append(trace, <<turn.round, 0>>)}
            /\ turn.at \in {"over", "idle"} => turn'.at \in {"over", "idle"} /\ UNCHANGED trace
            /\ turn'.at = "build" => UNCHANGED turn \/ (BatchDone /\ turn'.round = turn.round)
<1>0. turn \in Turns
  BY DEF TurnTyped
<1>1. CASE Agent
  <2>1. CASE Command \/ BuildRequest \/ Infer \/ InferFails \/ Answer \/ Say \/ Flushed \/ Keep \/ Compact
             \/ Summarised
    BY <1>0, <2>1 DEF Command, BuildRequest, Infer, InferFails, Answered, GiveUp, Answer, Say, Flushed, Keep,
                      Compact, Summarised, At, Return, Turns
  <2>2. CASE BatchDone \/ TurnOver
    BY <1>0, <2>2 DEF BatchDone, TurnOver, At, Turns
  <2>3. CASE Progress
    BY <1>0, <2>3 DEF Progress, Answered, At, Return, Turns
  <2> QED
    BY <1>1, <2>1, <2>2, <2>3 DEF Agent
<1>2. CASE ClientStep \/ ProviderStep \/ SenderStops \/ MediaError \/ QuickDone \/ ScreenStep \/ WorldStep
           \/ UNCHANGED all \/ \E what \in {"photo", "quick"} : PollerBegins(what)
  BY <1>2 DEF ClientStep, ProviderStep, SenderStops, MediaError, QuickDone, ScreenStep, WorldStep, all,
              PollerBegins, agentTurn, process
<1>3. CASE PhotoTaken \/ \E kind \in scene.kinds : Take(kind)
  BY <1>3 DEF PhotoTaken, Take
<1> QED
  BY <1>1, <1>2, <1>3 DEF TurnNext, Poller, Arrives

LEMMA ToldKept ==
  ASSUME ClientTyped, TurnTyped, DisplayTyped, ClientInv, RanInv, ToldInv, [TurnNext]_all,
         RanInv', DisplayTyped', TurnTyped'
  PROVE  ToldInv'
<1>0. /\ turn \in Turns /\ turn' \in Turns /\ trace \in Seq(Entry) /\ ran \in Seq(Entry) /\ ran' \in Seq(Entry)
      /\ trace' \in Seq(Entry) /\ turn.round \in Nat /\ offset \in Nat
  BY DEF TurnTyped, Turns
<1>1. Outcomes = OutcomesOf(trace) /\ Outcomes' = OutcomesOf(trace')
  BY DEF Outcomes, OutcomesOf
<1>2. \A s \in Seq(Entry) : IsPrefix(s, s)
  BY DEF IsPrefix
<1>3. IsInjective(ran')
  <2> SUFFICES ASSUME NEW a \in DOMAIN ran', NEW b \in DOMAIN ran', a # b
               PROVE  ran'[a] # ran'[b]
    BY DEF IsInjective
  <2>1. a \in Nat /\ b \in Nat /\ ran'[a] \in Entry /\ ran'[b] \in Entry
    BY <1>0
  <2>2. Earlier(ran'[a], ran'[b]) \/ Earlier(ran'[b], ran'[a])
    BY <2>1 DEF RanInv
  <2> QED
    BY <2>1, <2>2 DEF Earlier, Entry
<1>4. DisplayTypes'
  <2>1. busy' \in BOOLEAN /\ response' \in BOOLEAN /\ face' \in Faces
        /\ button' \in Buttons /\ task' \in Locals /\ wake' \in Watch /\ shown' \in Pictures
    BY DEF DisplayTyped
  <2>2. {button'.down, button'.long} \subseteq BOOLEAN
    BY <2>1, Zenon DEF Buttons
  <2>3. {wake'.ready, wake'.pressed} \subseteq BOOLEAN
    BY <2>1, Zenon DEF Watch
  <2>4. task'.on \in BOOLEAN /\ task'.page \in {"face", "jobs"}
    BY <2>1, Zenon DEF Locals
  <2>5. shown'.page \in {"dark", "torn", "face", "jobs"}
    BY <2>1 DEF Pictures
  <2> QED
    BY <2>1, <2>2, <2>3, <2>4, <2>5, Zenon DEF DisplayTypes, Faces
<1>5. /\ turn.at \notin {"over", "idle"} => OutcomesOf(trace) = ran
      /\ IsPrefix(OutcomesOf(trace), ran)
      /\ turn.at = "build" /\ turn.round > 0 =>
           \A k \in Ready(result) : <<turn.round, result.arena[k].item>> \in Range(ran)
  BY <1>1 DEF ToldInv, OutcomesTold
<1>6. ASSUME turn'.at \notin {"over", "idle"} => OutcomesOf(trace') = ran',
             IsPrefix(OutcomesOf(trace'), ran'),
             turn'.at = "build" /\ turn'.round > 0 =>
               \A k \in Ready(result') : <<turn'.round, result'.arena[k].item>> \in Range(ran')
      PROVE  ToldInv'
  BY <1>1, <1>3, <1>4, <1>6 DEF ToldInv, OutcomesTold
<1>7. CASE trace' = <<>> /\ ran' = <<>> /\ turn'.at \in {"build", "command"} /\ turn'.round = 0
  <2>1. OutcomesOf(trace') = ran'
    BY <1>7, OutcomesNone
  <2>2. IsPrefix(OutcomesOf(trace'), ran')
    BY <1>0, <1>2, <2>1
  <2>3. ~(turn'.round > 0)
    BY <1>7
  <2> QED
    BY <1>6, <2>1, <2>2, <2>3
<1>8. CASE RunCall
  <2> DEFINE e == <<turn.round, Called.item>>
  <2>1. /\ turn.at = "tools" /\ Left(result, offset) # {} /\ ran' = Append(ran, e)
        /\ \/ trace' = Append(trace, e) /\ UNCHANGED turn
           \/ trace' = trace /\ turn'.at = "over"
    BY <1>0, <1>8 DEF RunCall, GiveUp, Return, Turns
  <2>2. Called.item \in Nat /\ Called.item > 0
    <3>1. CallNext(result, offset) \in Ready(result) /\ Called.item \in Nat
      BY <1>0, <2>1, CallTaken
    <3>2. client.at = "off" /\ client.verdict = "ok"
      BY <2>1 DEF RanInv
    <3> QED
      BY <3>1, <3>2, HandedCalls DEF Called
  <2>3. e \in Entry /\ e[2] # 0
    BY <1>0, <2>2 DEF Entry
  <2> HIDE DEF e
  <2>4. OutcomesOf(trace) = ran
    BY <1>5, <2>1
  <2>5. CASE trace' = Append(trace, e) /\ UNCHANGED turn
    <3>1. OutcomesOf(trace') = ran'
      BY <1>0, <2>1, <2>3, <2>4, <2>5, OutcomesGrow
    <3> QED
      BY <1>0, <1>2, <1>6, <2>1, <2>5, <3>1
  <2>6. CASE trace' = trace /\ turn'.at = "over"
    <3>1. IsPrefix(ran, Append(ran, e))
      BY <1>0, <2>3 DEF IsPrefix
    <3> QED
      BY <1>6, <2>1, <2>4, <2>6, <3>1
  <2> QED
    BY <2>1, <2>5, <2>6
<1>9. CASE /\ UNCHANGED ran /\ trace' \in {trace, Append(trace, <<turn.round, 0>>)}
           /\ turn.at \in {"over", "idle"} => turn'.at \in {"over", "idle"} /\ UNCHANGED trace
           /\ turn'.at = "build" => UNCHANGED turn \/ (BatchDone /\ turn'.round = turn.round)
  <2>1. OutcomesOf(trace') = OutcomesOf(trace)
    <3>1. <<turn.round, 0>> \in Entry /\ <<turn.round, 0>>[2] = 0
      BY <1>0 DEF Entry
    <3> QED
      BY <1>0, <1>9, <3>1, OutcomesGrow
  <2>2. ASSUME turn'.at = "build", turn'.round > 0
        PROVE  \A k \in Ready(result') : <<turn'.round, result'.arena[k].item>> \in Range(ran')
    <3>1. CASE UNCHANGED turn
      <4>1. client.at = "off"
        BY <2>2, <3>1 DEF RanInv
      <4>2. UNCHANGED result
        BY <2>2, <4>1, ClientRests
      <4> QED
        BY <1>5, <1>9, <2>2, <3>1, <4>2
    <3>2. CASE BatchDone /\ turn'.round = turn.round
      <4>1. turn.at = "tools" /\ Left(result, offset) = {} /\ UNCHANGED result
        BY <3>2 DEF BatchDone, llm
      <4>2. client.at = "off" /\ client.verdict = "ok"
        BY <4>1 DEF RanInv
      <4>3. \A k \in Ready(result) : result.arena[k].order \in Nat
        BY <4>2, HandedCalls
      <4>4. \A k \in Ready(result) : result.arena[k].order <= offset
        BY <1>0, <4>1, <4>3 DEF Left
      <4> QED
        BY <1>9, <3>2, <4>1, <4>4 DEF RanInv
    <3> QED
      BY <1>9, <2>2, <3>1, <3>2
  <2> QED
    BY <1>5, <1>6, <1>9, <2>1, <2>2
<1> QED
  BY <1>7, <1>8, <1>9, TraceMoves

(***************************************************************************)
(* The length of a turn                                                    *)
(***************************************************************************)
LEMMA BoundMoves ==
  ASSUME TurnTyped, [TurnNext]_all
  PROVE  \/ (\E kind \in scene.kinds : Take(kind)) \/ PhotoTaken
         \/ BuildRequest \/ Infer \/ Progress \/ RunCall \/ BatchDone
         \/ UNCHANGED <<trace, ran, turn, offset>>
         \/ /\ UNCHANGED <<trace, ran>> /\ turn'.round = turn.round /\ turn.at # "idle"
            /\ turn'.at \in {"over", "say", "flush", "keep", "compact", "summary", "idle"}
            /\ turn.at = "over" => turn'.at = "idle"
<1>0. turn \in Turns
  BY DEF TurnTyped
<1>1. CASE Agent
  <2>1. CASE Command \/ InferFails \/ Answer \/ Say \/ Flushed \/ Keep \/ Compact \/ Summarised \/ TurnOver
    BY <1>0, <2>1 DEF Command, InferFails, Answered, GiveUp, Answer, Say, Flushed, Keep, Compact, Summarised,
                      TurnOver, At, Return, Turns
  <2> QED
    BY <1>1, <2>1 DEF Agent
<1>2. CASE ClientStep \/ ProviderStep \/ SenderStops \/ MediaError \/ QuickDone \/ ScreenStep \/ WorldStep
           \/ UNCHANGED all \/ \E what \in {"photo", "quick"} : PollerBegins(what)
  BY <1>2 DEF ClientStep, ProviderStep, SenderStops, MediaError, QuickDone, ScreenStep, WorldStep, all,
              PollerBegins, agentTurn, process
<1> QED
  BY <1>1, <1>2 DEF TurnNext, Poller, Arrives

LEMMA BoundKept ==
  ASSUME ClientTyped, TurnTyped, ClientInv, RanInv, BoundInv, [TurnNext]_all
  PROVE  BoundInv'
<1>0. /\ turn \in Turns /\ turn.round \in Nat /\ trace \in Seq(Entry) /\ ran \in Seq(Entry)
      /\ Len(trace) \in Nat /\ Len(ran) \in Nat /\ TraceSize \in Nat /\ RequestSize \in Nat
  BY TurnAssumption DEF TurnTyped, Turns
<1>1. /\ Len(trace) <= TraceSize /\ Len(ran) <= Len(trace) + 1
      /\ turn.at \notin {"over", "idle"} => Len(ran) <= Len(trace)
      /\ turn.round <= RequestSize + 1
      /\ turn.at \in {"build", "infer"} => turn.round <= Len(trace)
      /\ turn.at = "infer" => Len(trace) <= RequestSize
      /\ turn.at \in {"wait", "tools"} => turn.round <= Len(trace) + 1
      /\ turn.at = "tools" => Left(result, offset) # {} \/ turn.round <= Len(trace)
  BY DEF BoundInv
<1>2. CASE (\E kind \in scene.kinds : Take(kind)) \/ PhotoTaken
  <2>1. trace' = <<>> /\ ran' = <<>> /\ turn'.round = 0 /\ turn'.at \in {"build", "command"}
    BY <1>2 DEF Take, PhotoTaken
  <2>2. Len(trace') = 0 /\ Len(ran') = 0
    BY <2>1
  <2> QED
    BY <1>0, <2>1, <2>2 DEF BoundInv
<1>3. CASE BuildRequest
  <2>1. UNCHANGED <<trace, ran>> /\ turn.at = "build" /\ turn'.round = turn.round
    BY <1>0, <1>3 DEF BuildRequest, GiveUp, At, Return, Turns
  <2>2. turn'.at = "over" \/ (turn'.at = "infer" /\ Len(trace) <= RequestSize)
    BY <1>0, <1>3 DEF BuildRequest, GiveUp, At, Return, Turns
  <2> QED
    BY <1>0, <1>1, <2>1, <2>2 DEF BoundInv
<1>4. CASE Infer
  <2>1. UNCHANGED <<trace, ran>> /\ turn.at = "infer" /\ turn'.at = "wait" /\ turn'.round = turn.round + 1
    BY <1>0, <1>4 DEF Infer, Turns
  <2> QED
    BY <1>0, <1>1, <2>1 DEF BoundInv
<1>5. CASE Progress
  <2>1. /\ turn.at = "wait" /\ client.at = "off" /\ client.verdict = "ok" /\ Ready(result) # {}
        /\ UNCHANGED <<ran, llm>> /\ turn'.round = turn.round
    BY <1>0, <1>5 DEF Progress, Answered, At, Return, Turns
  <2>2. turn'.at = "over" \/ (turn'.at = "tools" /\ offset' = 0)
    BY <1>0, <1>5 DEF Progress, At, Return, Turns
  <2>3. trace' = trace \/ (trace' = Append(trace, <<turn.round, 0>>) /\ Len(trace) < TraceSize)
    BY <1>5 DEF Progress
  <2>4. Len(trace') \in Nat /\ Len(trace) <= Len(trace') /\ Len(trace') <= TraceSize
    BY <1>0, <1>1, <2>3
  <2>5. Left(result, 0) # {}
    BY <2>1, HandedCalls DEF Left
  <2>6. UNCHANGED result
    BY <2>1 DEF llm
  <2> QED
    BY <1>0, <1>1, <2>1, <2>2, <2>4, <2>5, <2>6 DEF BoundInv
<1>6. CASE RunCall
  <2> DEFINE e == <<turn.round, Called.item>>
  <2>1. turn.at = "tools" /\ ran' = Append(ran, e) /\ turn'.round = turn.round
    BY <1>0, <1>6 DEF RunCall, GiveUp, Return, Turns
  <2>2. \/ trace' = Append(trace, e) /\ Len(trace) < TraceSize /\ turn' = turn
        \/ trace' = trace /\ turn'.at = "over"
    BY <1>0, <1>6 DEF RunCall, GiveUp, Return, Turns
  <2> HIDE DEF e
  <2>3. Len(ran') = Len(ran) + 1
    BY <1>0, <2>1
  <2>4. CASE trace' = Append(trace, e) /\ Len(trace) < TraceSize /\ turn' = turn
    <3>1. Len(trace') = Len(trace) + 1
      BY <1>0, <2>4
    <3> QED
      BY <1>0, <1>1, <2>1, <2>3, <2>4, <3>1 DEF BoundInv
  <2>5. CASE trace' = trace /\ turn'.at = "over"
    BY <1>0, <1>1, <2>1, <2>3, <2>5 DEF BoundInv
  <2> QED
    BY <2>2, <2>4, <2>5
<1>7. CASE BatchDone
  <2>1. /\ UNCHANGED <<trace, ran>> /\ turn.at = "tools" /\ Left(result, offset) = {}
        /\ turn'.at = "build" /\ turn'.round = turn.round
    BY <1>0, <1>7 DEF BatchDone, At, Turns
  <2> QED
    BY <1>0, <1>1, <2>1 DEF BoundInv
<1>8. CASE UNCHANGED <<trace, ran, turn, offset>>
  <2>1. turn.at = "tools" => UNCHANGED result
    BY <1>8, ClientRests DEF RanInv
  <2> QED
    BY <1>1, <1>8, <2>1 DEF BoundInv
<1>9. CASE /\ UNCHANGED <<trace, ran>> /\ turn'.round = turn.round /\ turn.at # "idle"
           /\ turn'.at \in {"over", "say", "flush", "keep", "compact", "summary", "idle"}
           /\ turn.at = "over" => turn'.at = "idle"
  BY <1>0, <1>1, <1>9 DEF BoundInv
<1> QED
  BY <1>2, <1>3, <1>4, <1>5, <1>6, <1>7, <1>8, <1>9, BoundMoves

(***************************************************************************)
(* The final text                                                          *)
(***************************************************************************)
LEMMA FinalKept ==
  ASSUME TurnTyped, FinalInv, [TurnNext]_all
  PROVE  FinalInv'
<1>0. turn \in Turns /\ finals \in Nat
  BY DEF TurnTyped
<1>1. \A place : At(place) => turn'.at = place /\ turn'.kind = turn.kind
  BY <1>0 DEF At, Turns
<1>2. \A ok \in BOOLEAN : Return(ok) => turn'.at = "over" /\ turn'.kind = turn.kind
  BY <1>0 DEF Return, Turns
<1>3. Return(FALSE) => ~turn'.ok
  BY <1>0 DEF Return, Turns
<1>4. SendFinal => (finals = 0 => finals' = 1)
  BY DEF SendFinal, Send
<1>5. NothingSaid => finals' = finals
  BY DEF NothingSaid
<1>6. CASE Agent
  <2>1. CASE Command
    BY <2>1, <1>2, <1>4 DEF Command, FinalInv, TurnAnswered
  <2>2. CASE BuildRequest
    <3>1. turn.at = "build"
      BY <2>2 DEF BuildRequest
    <3>2. (At("infer") /\ NothingSaid) \/ (SendFinal /\ Return(FALSE))
      BY <2>2 DEF BuildRequest, GiveUp
    <3>3. CASE At("infer") /\ NothingSaid
      BY <3>1, <3>3, <1>1, <1>5 DEF FinalInv
    <3>4. CASE SendFinal /\ Return(FALSE)
      BY <3>1, <3>4, <1>2, <1>4 DEF FinalInv, TurnAnswered
    <3> QED
      BY <3>2, <3>3, <3>4
  <2>3. CASE Infer
    BY <2>3, <1>0, <1>5 DEF Infer, Turns, FinalInv
  <2>4. CASE InferFails
    BY <2>4, <1>2, <1>3, <1>4, <1>5 DEF InferFails, Answered, GiveUp, FinalInv, TurnAnswered
  <2>5. CASE Answer
    BY <2>5, <1>1 DEF Answer, Answered, FinalInv
  <2>6. CASE Say
    <3>1. finals = 0 /\ turn.at = "say"
      BY <2>6 DEF Say, FinalInv
    <3>2. CASE Taken
      <4>1. finals' = 1
        BY <2>6, <3>1, <3>2 DEF Say, Send
      <4>2. turn'.at \in {"keep", "flush"}
        BY <2>6, <3>2, <1>0 DEF Say, Turns
      <4> QED
        BY <4>1, <4>2 DEF FinalInv
    <3>3. CASE ~Taken
      <4>1. finals' = 0 /\ said'.blank
        BY <2>6, <3>1, <3>3 DEF Say, Send, Taken
      <4>2. turn'.at \in {"keep", "over"}
        BY <2>6, <3>3, <1>0 DEF Say, Turns
      <4>3. ~turn'.ok
        BY <2>6, <3>3, <1>0 DEF Say, Turns
      <4> QED
        BY <4>1, <4>2, <4>3 DEF FinalInv, TurnAnswered
    <3> QED
      BY <3>2, <3>3
  <2>7. CASE Flushed
    <3>1. turn'.at = "over" /\ finals' = finals /\ finals = 1
      BY <2>7, <1>2, <1>5 DEF Flushed, FinalInv
    <3> QED
      BY <3>1 DEF FinalInv, TurnAnswered
  <2>14. Return(turn.ok) => turn'.at = "over" /\ turn'.kind = turn.kind /\ (~turn.ok => ~turn'.ok)
    BY <1>0 DEF Return, Turns
  <2>15. CASE Summarised
    <3>1. Return(turn.ok) /\ finals' = finals /\ said' = said /\ turn.at = "summary"
      BY <2>15, <1>5 DEF Summarised
    <3> QED
      BY <2>14, <3>1 DEF FinalInv, TurnAnswered
  <2>8. CASE Keep
    <3>1. turn.at = "keep" /\ finals' = finals /\ said' = said
      BY <2>8, <1>5 DEF Keep
    <3>2. At("compact") \/ Return(turn.ok)
      BY <2>8 DEF Keep
    <3>3. CASE At("compact")
      <4>1. turn'.at = "compact" /\ turn'.ok = turn.ok
        BY <3>3, <1>0 DEF At, Turns
      <4> QED
        BY <3>1, <4>1 DEF FinalInv
    <3>4. CASE Return(turn.ok)
      BY <3>1, <3>4, <2>14 DEF FinalInv, TurnAnswered
    <3> QED
      BY <3>2, <3>3, <3>4
  <2>9. CASE Compact
    <3>1. turn'.at = "summary" /\ turn'.ok = turn.ok /\ finals' = finals /\ said' = said /\ turn.at = "compact"
      BY <2>9, <1>0, <1>5 DEF Compact, At, Turns
    <3> QED
      BY <3>1 DEF FinalInv
  <2>10. CASE Progress
    <3>1. turn.at = "wait"
      BY <2>10 DEF Progress, Answered
    <3>2. \/ SendFinal /\ Return(FALSE)
          \/ At("tools") /\ UNCHANGED finals
      BY <2>10 DEF Progress
    <3> QED
      <4>1. CASE SendFinal /\ Return(FALSE)
        BY <3>1, <4>1, <1>2, <1>4 DEF FinalInv, TurnAnswered
      <4>2. CASE At("tools") /\ UNCHANGED finals
        BY <3>1, <4>2, <1>1 DEF FinalInv
      <4> QED
        BY <3>2, <4>1, <4>2
  <2>11. CASE RunCall
    BY <2>11, <1>2, <1>4, <1>5 DEF RunCall, GiveUp, FinalInv, TurnAnswered
  <2>12. CASE BatchDone
    BY <2>12, <1>1, <1>5 DEF BatchDone, FinalInv
  <2>13. CASE TurnOver
    BY <2>13, <1>1 DEF TurnOver, FinalInv
  <2> QED
    BY <1>6, <2>1, <2>2, <2>3, <2>4, <2>5, <2>6, <2>7, <2>8, <2>9, <2>10, <2>11, <2>12, <2>13, <2>15 DEF Agent
<1>7. CASE ClientStep \/ ProviderStep \/ SenderStops \/ MediaError \/ QuickDone \/ ScreenStep \/ WorldStep
           \/ UNCHANGED all \/ \E what \in {"photo", "quick"} : PollerBegins(what)
  <2>1. UNCHANGED <<turn, finals, said>>
    BY <1>7 DEF ClientStep, ProviderStep, SenderStops, MediaError, QuickDone, ScreenStep, WorldStep, all,
                PollerBegins, agentTurn, process
  <2> QED
    BY <2>1 DEF FinalInv, TurnAnswered
<1>8. CASE PhotoTaken \/ \E kind \in scene.kinds : Take(kind)
  BY <1>8 DEF PhotoTaken, Take, FinalInv
<1> QED
  BY <1>6, <1>7, <1>8 DEF TurnNext, Poller, Arrives

(***************************************************************************)
(* The invariant                                                           *)
(***************************************************************************)
TurnInv ==
  /\ ClientTyped /\ TurnTyped /\ DisplayTyped
  /\ FaceInv /\ ButtonInv /\ ClientInv /\ RanInv /\ ToldInv /\ BoundInv /\ FinalInv

LEMMA InitTurn ==
  ASSUME TurnInit
  PROVE  TurnInv
<1>1. /\ scene \in Scenes
      /\ client = [at |-> "off", verdict |-> "none"] /\ ready = FALSE
      /\ answer = NoAnswer /\ result = Empty /\ trouble = 0
      /\ turn = [at |-> "idle", kind |-> "chat", round |-> 0, ok |-> TRUE]
      /\ trace = <<>> /\ said = Silent /\ offset = 0 /\ ran = <<>> /\ finals = 0 /\ kept = FALSE
      /\ stops = 0 /\ poller = "free" /\ photoFailed = FALSE /\ turns = 0
  BY DEF TurnInit, ClientInit
<1>2. /\ busy = FALSE /\ response = FALSE /\ face = AtRest
      /\ jobCount = 0 /\ button = [down |-> FALSE, long |-> FALSE]
      /\ (task = Started(FALSE) \/ task = Stopped)
      /\ wake = [ready |-> TRUE, pressed |-> FALSE]
      /\ shown = Dark /\ presses = 0 /\ spoilt = 0 /\ switches = 0
  BY DEF TurnInit, DisplayInit
<1>3. <<>> \in Seq(Entry) /\ DOMAIN <<>> = {}
  OBVIOUS
<1>4. ClientTyped
  <2>1. client \in [at : {"off", "connect", "read"}, verdict : {"none", "ok", "failed"}]
    BY <1>1
  <2>2. answer \in Answer0 /\ DOMAIN answer.sent = Items /\ result \in Result
    BY <1>1, NothingThere DEF Items
  <2> QED
    BY <1>1, <2>1, <2>2 DEF ClientTyped
<1>5. TurnTyped
  <2>1. turn \in Turns
    BY <1>1 DEF Turns, Places
  <2>2. said \in Saids
    BY <1>1 DEF Silent, Saids
  <2> QED
    BY <1>1, <1>3, <2>1, <2>2 DEF TurnTyped
<1>6. DisplayTyped
  <2>1. AtRest \in Faces
    BY DEF AtRest, Faces
  <2>2. Started(FALSE) \in Locals /\ Stopped \in Locals
    BY <2>1 DEF Started, Stopped, Locals
  <2>3. Dark \in Pictures
    BY <2>1 DEF Dark, Pictures
  <2>4. [down |-> FALSE, long |-> FALSE] \in Buttons /\ [ready |-> TRUE, pressed |-> FALSE] \in Watch
    BY DEF Buttons, Watch
  <2> QED
    BY <1>2, <2>1, <2>2, <2>3, <2>4 DEF DisplayTyped
<1>7. FaceInv
  BY <1>1, <1>2 DEF FaceInv
<1>8. ButtonInv
  BY <1>2 DEF ButtonInv
<1>9. ClientInv
  <2>1. client.at = "off" /\ client.verdict = "none"
    BY <1>1
  <2>2. Len(result.arena) <= ArenaSize /\ Len(result.text) <= TextSize
    BY <1>1, NothingThere
  <2> QED
    BY <1>1, <2>1, <2>2 DEF ClientInv, AnswerAsSent, ClientTypes
<1>10. RanInv
  BY <1>1, <1>3 DEF RanInv
<1>11. ToldInv
  <2>1. Outcomes = <<>>
    <3>1. Outcomes = OutcomesOf(trace)
      BY DEF Outcomes, OutcomesOf
    <3> QED
      BY <1>1, <3>1, OutcomesNone
  <2>2. DisplayTypes
    <3>1. {button.down, button.long} \subseteq BOOLEAN /\ {wake.ready, wake.pressed} \subseteq BOOLEAN
      BY <1>2
    <3>2. task.on \in BOOLEAN /\ task.page \in {"face", "jobs"}
      BY <1>6, Zenon DEF DisplayTyped, Locals
    <3>3. shown.page \in {"dark", "torn", "face", "jobs"}
      BY <1>2 DEF Dark
    <3>4. face \in Faces /\ busy \in BOOLEAN /\ response \in BOOLEAN
      BY <1>6 DEF DisplayTyped
    <3> QED
      BY <3>1, <3>2, <3>3, <3>4, Zenon DEF DisplayTypes, Faces
  <2>3. IsPrefix(<<>>, <<>>) /\ IsInjective(<<>>)
    BY <1>3 DEF IsPrefix, IsInjective
  <2>4. turn.at = "idle"
    BY <1>1
  <2> QED
    BY <1>1, <2>1, <2>2, <2>3, <2>4 DEF ToldInv, OutcomesTold
<1>12. BoundInv
  <2>1. Len(trace) = 0 /\ Len(ran) = 0 /\ turn.at = "idle" /\ turn.round = 0
    BY <1>1
  <2> QED
    BY <2>1, TurnAssumption DEF BoundInv
<1>13. FinalInv
  BY <1>1 DEF FinalInv
<1> QED
  BY <1>4, <1>5, <1>6, <1>7, <1>8, <1>9, <1>10, <1>11, <1>12, <1>13 DEF TurnInv

LEMMA NextTurn ==
  ASSUME TurnInv, [TurnNext]_all
  PROVE  TurnInv'
<1>1. ClientTyped' /\ ClientInv'
  BY ClientKept DEF TurnInv
<1>2. TurnTyped'
  BY TurnKeepsTypes DEF TurnInv
<1>3. DisplayTyped' /\ ButtonInv'
  BY DisplayMoves, DisplayKeepsTypes, ButtonKept DEF TurnInv
<1>4. FaceInv'
  BY FaceKept DEF TurnInv
<1>5. RanInv'
  BY RanKept DEF TurnInv
<1>6. ToldInv'
  BY <1>2, <1>3, <1>5, ToldKept DEF TurnInv
<1>7. BoundInv'
  BY BoundKept DEF TurnInv
<1>8. FinalInv'
  BY FinalKept DEF TurnInv
<1> QED
  BY <1>1, <1>2, <1>3, <1>4, <1>5, <1>6, <1>7, <1>8 DEF TurnInv

(* The states of every run: what is between the client, the turn, the      *)
(* display and the button at any moment.                                   *)
THEOREM TurnCorrect == TurnSpec => []TurnInv
<1>1. TurnInit => TurnInv
  BY InitTurn
<1>2. TurnInv /\ [TurnNext]_all => TurnInv'
  BY NextTurn
<1> QED
  BY <1>1, <1>2, PTL DEF TurnSpec

(* What the client hands over is what the provider answered, in any order  *)
(* of the events of parallel calls, after any failed attempts, and however *)
(* small the arena and the text: too much ends in an error (event_finish,  *)
(* commit_scratch and parse_finish of mp_llm.c).                           *)
THEOREM AnswersAsSent == TurnSpec => []AnswerAsSent
<1>1. TurnInv => AnswerAsSent
  BY DEF TurnInv, ClientInv
<1> QED
  BY <1>1, TurnCorrect, PTL

(* The model never lacks the result of a call it asked for, and no call of *)
(* an answer is run twice or left out (the batch loop of process_message). *)
THEOREM AllOutcomesTold == TurnSpec => []OutcomesTold
<1>1. TurnInv => OutcomesTold
  BY DEF TurnInv, ToldInv
<1> QED
  BY <1>1, TurnCorrect, PTL

(* However often the model asks for calls, the rounds of a turn and the    *)
(* calls it runs are bounded by what fits the request and the trace (the   *)
(* loop of process_message, which has no bound of its own).                *)
THEOREM TurnsAreBounded == TurnSpec => []TurnBounded
<1>1. TurnInv => TurnBounded
  <2> SUFFICES ASSUME TurnInv
               PROVE  TurnBounded
    OBVIOUS
  <2>1. Len(trace) \in Nat /\ Len(ran) \in Nat /\ TraceSize \in Nat
    BY TurnAssumption DEF TurnInv, TurnTyped
  <2> QED
    BY <2>1 DEF TurnInv, BoundInv, TurnBounded
<1> QED
  BY <1>1, TurnCorrect, PTL

(* The face is at rest when nothing is under way, and only then, whichever *)
(* of the three tasks reports last (mp_display_agent_end and _response_end *)
(* of mp_display.c).                                                       *)
THEOREM FaceIsTruthful == TurnSpec => []FaceTruthful
<1>1. TurnInv => FaceTruthful
  BY DEF TurnInv, FaceInv, FaceTruthful, TurnTyped
<1> QED
  BY <1>1, TurnCorrect, PTL

(* However long a press lasts and whoever times it, it switches the        *)
(* display once (button_event and wake_timer_callback of mp_display.c).    *)
THEOREM PressSwitchesOnce == TurnSpec => []OnePressOneSwitch
<1>1. TurnInv => OnePressOneSwitch
  BY DEF TurnInv, ButtonInv, OnePressOneSwitch
<1> QED
  BY <1>1, TurnCorrect, PTL

(* The safety half of TurnsAnswered: a turn that has ended has handed the  *)
(* owner one final text, or has failed without any because it was a job,   *)
(* or because the answer was a mood alone, which the chat refuses          *)
(* (process_message, send_text, mp_telegram_send).                         *)
THEOREM OverAnswered == TurnSpec => [](turn.at = "over" => TurnAnswered)
<1>1. TurnInv => (turn.at = "over" => TurnAnswered)
  BY DEF TurnInv, FinalInv
<1> QED
  BY <1>1, TurnCorrect, PTL
=============================================================================
