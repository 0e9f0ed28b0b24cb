------------------------------ MODULE Display -------------------------------
(***************************************************************************)
(* The OLED face (mp_display.c).  Three tasks say what is going on: the    *)
(* agent that it is busy, whoever answers that a response is under way,    *)
(* the one that has delivered it that it is over.  The display task draws  *)
(* that, or the list of jobs, and reads the button; switched off it no     *)
(* longer exists, and a timer watches the button to start it again.        *)
(***************************************************************************)
EXTENDS Naturals

CONSTANTS
  JobCounts,  \* bound: how many jobs the scheduler may have
  MaxPresses, \* bound: presses of the button
  MaxSpoilt   \* bound: writes to the panel that fail

ASSUME DisplayAssumption ==
  /\ JobCounts \subseteq Nat /\ 0 \in JobCounts
  /\ {MaxPresses, MaxSpoilt} \subseteq Nat

VARIABLES
  busy,     \* s_agent_busy
  response, \* s_response_pending
  face,     \* s_activity and s_mood
  jobCount, \* mp_scheduler_count()
  button,   \* is BOOT down, and for more than 1.2 seconds
  task,     \* the display task and its locals; on = (s_task # NULL)
  wake,     \* s_wake_ready and s_wake_pressed_us # 0
  shown,    \* what the panel shows
  presses, spoilt,
  switches  \* how often the present press has switched the display

mind    == <<busy, response, face>>
panel   == <<task, wake, shown, switches>>
display == <<mind, panel, jobCount, button, presses, spoilt>>

AtRest == [activity |-> "idle", mood |-> "happy"]
Dark   == [page |-> "dark", face |-> AtRest, index |-> 0]
Torn   == [page |-> "torn", face |-> AtRest, index |-> 0]

(* display_task from its start: it has drawn nothing and takes the level   *)
(* of the button for the stable one, without a press.                      *)
Started(down) ==
  [on |-> TRUE, page |-> "face", index |-> 0, first |-> TRUE, last |-> AtRest, count |-> 0,
   down |-> down, pressed |-> FALSE, held |-> FALSE]
Stopped == [Started(FALSE) EXCEPT !.on = FALSE]

\* mp_display_start does nothing without oled_enabled.
DisplayInit(enabled) ==
  /\ busy = FALSE /\ response = FALSE /\ face = AtRest
  /\ jobCount = 0 /\ button = [down |-> FALSE, long |-> FALSE]
  /\ task = IF enabled THEN Started(FALSE) ELSE Stopped
  /\ wake = [ready |-> TRUE, pressed |-> FALSE]
  /\ shown = Dark /\ presses = 0 /\ spoilt = 0 /\ switches = 0
----------------------------------------------------------------------------
(* What the other tasks report, each under s_state_lock.  The modules that *)
(* compose the display give busy', response' and face' with these.         *)
AgentBegin == busy' = TRUE /\ face' = [face EXCEPT !.activity = "thinking"]

AgentEnd == busy' = FALSE /\ face' = IF response THEN face ELSE AtRest

ResponseBegin == response' = TRUE /\ face' = [face EXCEPT !.activity = "responding"]

\* Mutant: the end of a response does not ask whether the agent is busy.
ResponseEndBusy == response' = FALSE /\ face' = AtRest
ResponseEnd     == response' = FALSE /\ face' = IF busy THEN face ELSE AtRest

\* mp_display_filter_text finds a mood at the head of a text.
Mood(m) == face' = [face EXCEPT !.mood = m]
----------------------------------------------------------------------------
(* The owner's finger, and the jobs.                                       *)
Press ==
  /\ ~button.down /\ presses < MaxPresses
  /\ presses' = presses + 1 /\ switches' = 0
  /\ button' = [down |-> TRUE, long |-> FALSE]
  /\ UNCHANGED <<mind, task, wake, shown, jobCount, spoilt>>

KeepDown ==
  /\ button.down /\ ~button.long
  /\ button' = [button EXCEPT !.long = TRUE]
  /\ UNCHANGED <<mind, panel, jobCount, presses, spoilt>>

Release ==
  /\ button.down
  /\ button' = [down |-> FALSE, long |-> FALSE]
  /\ UNCHANGED <<mind, panel, jobCount, presses, spoilt>>

JobsChange(n) ==
  /\ n # jobCount /\ jobCount' = n
  /\ UNCHANGED <<mind, panel, button, presses, spoilt>>
----------------------------------------------------------------------------
(* button_event: what the display task makes of the level it reads, once   *)
(* it has been stable for 40 ms.                                           *)
Event ==
  IF button.down /\ ~task.down THEN "press"
  ELSE IF ~button.down /\ task.down THEN IF task.pressed /\ ~task.held THEN "click" ELSE "release"
  ELSE IF button.long /\ task.pressed /\ ~task.held THEN "hold"
  ELSE "none"

\* The locals after the event.  A release after a hold is no click.
Seen(t) ==
  CASE Event = "press"   -> [t EXCEPT !.down = TRUE, !.pressed = TRUE, !.held = FALSE]
    [] Event = "click"   -> [t EXCEPT !.down = FALSE, !.pressed = FALSE]
    [] Event = "release" -> [t EXCEPT !.down = FALSE]
    [] Event = "hold"    -> [t EXCEPT !.held = TRUE]
    [] OTHER             -> t

(* A click opens the jobs, then moves to the next one.                     *)
Clicked(t) ==
  IF t.page = "face" THEN [t EXCEPT !.page = "jobs", !.index = 0, !.first = TRUE]
  ELSE [t EXCEPT !.first = TRUE, !.index = IF jobCount = 0 THEN @ ELSE (@ + 1) % jobCount]

(* One write of a frame.  The locals remember it whether it reached the    *)
(* panel or not.                                                           *)
Drawn(t, picture) ==
  /\ task' = t
  /\ \/ shown' = picture /\ UNCHANGED spoilt
     \/ shown' \in {shown, Torn} /\ spoilt < MaxSpoilt /\ spoilt' = spoilt + 1

\* Mutant: at rest nothing is drawn again.
FaceOnce(t, blink) ==
  /\ t.page = "face"
  /\ IF t.first \/ face # t.last
     THEN Drawn([t EXCEPT !.first = FALSE, !.last = face],
                [page |-> "face", face |-> face, index |-> 0])
     ELSE task' = t /\ UNCHANGED <<shown, spoilt>>
Face(t, blink) ==
  /\ t.page = "face"
  /\ IF t.first \/ face # t.last \/ face.activity # "idle" \/ blink
     THEN Drawn([t EXCEPT !.first = FALSE, !.last = face],
                [page |-> "face", face |-> face, index |-> 0])
     ELSE task' = t /\ UNCHANGED <<shown, spoilt>>

Jobs(t) ==
  /\ t.page = "jobs"
  /\ LET index == IF jobCount # 0 /\ t.index >= jobCount THEN 0 ELSE t.index
     IN IF t.first \/ jobCount # t.count
        THEN Drawn([t EXCEPT !.index = index, !.first = FALSE, !.count = jobCount],
                   [page |-> "jobs", face |-> AtRest, index |-> index])
        ELSE task' = t /\ UNCHANGED <<shown, spoilt>>

(* One round of display_task, in which the eyes may open or close.         *)
TaskRound(blink) ==
  /\ task.on
  /\ \/ /\ Event = "hold" /\ task.page = "jobs"
        /\ task' = [Seen(task) EXCEPT !.page = "face", !.first = TRUE]
        /\ UNCHANGED <<wake, shown, switches, spoilt>>
     \/ /\ Event # "hold"
        /\ LET t == IF Event = "click" THEN Clicked(Seen(task)) ELSE Seen(task)
           IN Face(t, blink) \/ Jobs(t)
        /\ UNCHANGED <<wake, switches>>
  /\ UNCHANGED <<mind, jobCount, button, presses>>

(* A hold on the face switches it off: the task clears what the timer      *)
(* knows of the button and deletes itself.                                 *)
\* Mutant: the timer goes on as if the button had been up.
SwitchOffOnly ==
  /\ task.on /\ Event = "hold" /\ task.page = "face"
  /\ task' = Stopped /\ shown' = Dark /\ switches' = switches + 1
  /\ wake' = [ready |-> TRUE, pressed |-> FALSE]
  /\ UNCHANGED <<mind, jobCount, button, presses, spoilt>>
SwitchOff ==
  /\ task.on /\ Event = "hold" /\ task.page = "face"
  /\ task' = Stopped /\ shown' = Dark /\ switches' = switches + 1
  /\ wake' = [ready |-> FALSE, pressed |-> FALSE]
  /\ UNCHANGED <<mind, jobCount, button, presses, spoilt>>

(* wake_timer_callback, every 50 ms while there is no task: the button     *)
(* must have been up once before a long press starts the task again.       *)
WakeTimer ==
  /\ ~task.on
  /\ IF ~button.down
     THEN wake' = [ready |-> TRUE, pressed |-> FALSE] /\ UNCHANGED <<task, switches>>
     ELSE /\ wake.ready
          /\ IF ~wake.pressed
             THEN wake' = [wake EXCEPT !.pressed = TRUE] /\ UNCHANGED <<task, switches>>
             ELSE /\ button.long
                  /\ wake' = [ready |-> FALSE, pressed |-> FALSE]
                  /\ task' = Started(TRUE) /\ switches' = switches + 1
  /\ UNCHANGED <<mind, shown, jobCount, button, presses, spoilt>>

\* xTaskCreate or display_init fails: the display stays off.
WakeFails ==
  /\ ~task.on /\ wake.ready /\ wake.pressed /\ button.long /\ spoilt < MaxSpoilt
  /\ wake' = [ready |-> FALSE, pressed |-> FALSE] /\ spoilt' = spoilt + 1
  /\ UNCHANGED <<mind, task, shown, jobCount, button, presses, switches>>

Screen == (\E blink \in BOOLEAN : TaskRound(blink)) \/ SwitchOff \/ WakeTimer
World  == Press \/ KeepDown \/ Release \/ WakeFails \/ \E n \in JobCounts : JobsChange(n)
----------------------------------------------------------------------------
DisplayTypes ==
  /\ {busy, response, button.down, button.long, task.on, wake.ready, wake.pressed} \subseteq BOOLEAN
  /\ face \in [activity : {"idle", "thinking", "responding"}, mood : {"happy", "sad"}]
  /\ task.page \in {"face", "jobs"} /\ shown.page \in {"dark", "torn", "face", "jobs"}

(* One press of BOOT switches the display at most once, however long it    *)
(* lasts: the hold that put it out does not light it again, nor the other  *)
(* way round, although the task and the timer time the press separately.   *)
OnePressOneSwitch == switches <= 1

(* What the panel shows catches up with what the tasks have reported, also *)
(* after a frame was lost on the way, as long as the face is on.           *)
Lagging ==
  task.on /\ task.page = "face" /\ (shown.page # "face" \/ shown.face # face)
ScreenFollows == Lagging ~> ~Lagging
=============================================================================
