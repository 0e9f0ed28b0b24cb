----------------------------- MODULE AgentQueue -----------------------------
(***************************************************************************)
(* The queue of the agent task and the wait for one of its turns           *)
(* (mp_agent.c), as the channels use them.  A command goes to the front of *)
(* the queue, everything else to its end; a task that submits blocks while *)
(* the queue is full; a task that waits for its turn is notified when the  *)
(* turn ends, with 1 or 2.                                                 *)
(***************************************************************************)
EXTENDS Integers, Sequences

CONSTANTS
  AgentQueueLength, \* CONFIG_MICROPAW_AGENT_QUEUE
  Channels          \* the tasks that submit

ASSUME AgentQueueAssumption == AgentQueueLength \in Nat \ {0}

VARIABLES
  queue,    \* s_queue
  running,  \* the message whose turn runs, <<>> when none does
  notified  \* the notification value of each channel's task

agent == <<queue, running, notified>>

(* The kinds of a message.  A caption that starts with a slash is text of  *)
(* an image and no command; of a picture it counts whether it is whole.    *)
Kinds    == {"text", "command", "image", "slashed"}
Looks    == {"", "whole", "cut", "unsized"}
Messages == [from : Channels, n : Nat, kind : Kinds, waits : BOOLEAN, picture : Looks]

AgentInit == queue = <<>> /\ running = <<>> /\ notified = [c \in Channels |-> 0]

(* Mutants: every message that starts with a slash goes first; a caller    *)
(* that finds the queue full gives its message up.                         *)
FirstSlashed(m) == m.kind \in {"command", "slashed"}
First(m)        == m.kind = "command"

SubmitOrDrop(m) ==
  queue' = IF Len(queue) = AgentQueueLength THEN queue
           ELSE IF First(m) THEN <<m>> \o queue ELSE Append(queue, m)
Submit(m) ==
  /\ Len(queue) < AgentQueueLength
  /\ queue' = IF First(m) THEN <<m>> \o queue ELSE Append(queue, m)

(* xTaskNotifyWait clears what was left from an earlier wait.              *)
SubmitAndWait(m) == Submit(m) /\ notified' = [notified EXCEPT ![m.from] = 0]

TurnStarts ==
  /\ queue # <<>> /\ running = <<>>
  /\ running' = <<Head(queue)>> /\ queue' = Tail(queue)
  /\ UNCHANGED notified

(* Mutant: only a turn that went well tells who waits.                     *)
TurnEndsQuietly(success) ==
  /\ running # <<>>
  /\ running'  = <<>>
  /\ notified' = IF running[1].waits /\ success THEN [notified EXCEPT ![running[1].from] = 1] ELSE notified
  /\ UNCHANGED queue
TurnEnds(success) ==
  /\ running # <<>>
  /\ running'  = <<>>
  /\ notified' = IF running[1].waits
                 THEN [notified EXCEPT ![running[1].from] = IF success THEN 1 ELSE 2]
                 ELSE notified
  /\ UNCHANGED queue

(* What the device loses when it restarts.                                 *)
AgentReboot == queue' = <<>> /\ running' = <<>> /\ notified' = [c \in Channels |-> 0]

InAgent == {queue[i] : i \in 1..Len(queue)} \cup {running[i] : i \in 1..Len(running)}
=============================================================================
