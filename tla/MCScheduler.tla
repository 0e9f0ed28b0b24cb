---------------------------- MODULE MCScheduler ----------------------------
(***************************************************************************)
(* The job store for TLC, in two scenes of their own: saves that fail or   *)
(* are cut short, and a local clock that is set while jobs run late.       *)
(* Scheduler lets a caller complete any active job; the agent completes    *)
(* the job whose message it ran, which without a reset is a job in flight  *)
(* (ScheduledTurns), so the instance keeps to those.                       *)
(***************************************************************************)
EXTENDS Scheduler

(* Repeated is mp_time_repeat_next again and again, over a clock that is   *)
(* set forward and over one that is set back.                              *)
OneByOne(Step(_, _), t, repeat, k) ==
  LET after[j \in 0..k] == IF j = 0 THEN t ELSE Step(after[j - 1], repeat)
  IN  after[k]

SetBack == INSTANCE LocalTime WITH ShiftBy <- -ShiftBy

ASSUME RepeatedIsOneByOne ==
  \A t \in 0..8, repeat \in 1..4, k \in 0..5 :
    /\ Repeated(t, repeat, k) = OneByOne(RepeatNext, t, repeat, k)
    /\ SetBack!Repeated(t, repeat, k) = OneByOne(SetBack!RepeatNext, t, repeat, k)

VARIABLE scene

Scenes ==
  {[about |-> "saves", repeats |-> {0, 1}, until |-> 4, faults |-> 1],
   [about |-> "clock", repeats |-> {1, 2}, until |-> 5, faults |-> 0]}

StoreNext ==
  \/ Environment
  \/ \E w \in Written : JobRequest(w) \/ Reset(w)
  \/ \E w \in Written, i \in inflight : CompleteFailed(i) \/ CompleteDone(i, w)
  \/ Pass

StoreInit == Init /\ scene \in Scenes

InScene ==
  /\ now' <= scene.until /\ faults' <= scene.faults
  /\ \A i \in Active(jobs') : jobs'[i].repeat \in scene.repeats

StoreSpec ==
  StoreInit /\ [][StoreNext /\ InScene /\ UNCHANGED scene]_<<vars, scene>>
=============================================================================
