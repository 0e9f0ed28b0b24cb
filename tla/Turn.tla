-------------------------------- MODULE Turn --------------------------------
(***************************************************************************)
(* One turn of the agent with the model (mp_agent.c, process_message): ask *)
(* the model, run the calls it wants, tell it what they gave, ask again,   *)
(* until it answers with text alone; then keep the turn and, when the      *)
(* conversation has grown, have it summarised.  The text goes out through  *)
(* a channel, and the display follows.                                     *)
(*                                                                         *)
(* The jobs' side of a turn is in ScheduledTurns, which of the calls may   *)
(* run in Permissions, the queues in AgentQueue and Outbound.              *)
(***************************************************************************)
EXTENDS ModelClient, Display

CONSTANTS
  Scenes,     \* bound: what happens in a run: the turns' kinds, the answers
  Slow,       \* calls whose result takes long enough to say so first
  TraceSize,  \* entries that fit s_tool_trace
  RequestSize,\* entries of the trace that fit s_request
  MaxTurns    \* bound: messages that arrive

ASSUME TurnAssumption ==
  /\ Slow \subseteq Nat /\ {TraceSize, RequestSize, MaxTurns} \subseteq Nat
  /\ \A s \in Scenes : /\ s.kinds \subseteq {"chat", "serial", "job", "command"}
                       /\ s.answers \subseteq Answers /\ s.styles \subseteq Styles /\ s.with \in {"trouble", "button", "poller"}

VARIABLES
  scene,   \* the scene of this run
  turn,    \* where process_message is, for which kind of message, and since which round
  trace,   \* s_tool_trace: what the model is told of the rounds before
  said,    \* progress_sent and fallback_sent; and that the answer has no text left
  offset,  \* how far the batch is: the order of the call that ran last
  ran,     \* calls run in this turn, in order (history)
  finals,  \* final texts the channel took in this turn (history)
  kept,    \* the turn is in the conversation
  stops,   \* responses the channel still has to end
  poller,  \* what the poller does besides: "free", "photo" or "quick"
  photoFailed, \* the poller gave a photo up during this turn
  turns

process   == <<scene, turn, trace, said, offset, ran, finals, kept>>
agentTurn == <<process, turns>>
channel   == <<stops, poller, photoFailed>>
all       == <<agentTurn, channel, llm, display>>

Silent == [progress |-> FALSE, fallback |-> FALSE, slow |-> FALSE, blank |-> FALSE]

TurnInit ==
  /\ scene \in Scenes
  /\ ClientInit /\ DisplayInit(scene.with # "trouble")
  /\ turn = [at |-> "idle", kind |-> "chat", round |-> 0, ok |-> TRUE]
  /\ trace = <<>> /\ said = Silent /\ offset = 0 /\ ran = <<>> /\ finals = 0 /\ kept = FALSE
  /\ stops = 0 /\ poller = "free" /\ photoFailed = FALSE /\ turns = 0

At(place) == turn' = [turn EXCEPT !.at = place]
MindOnly  == UNCHANGED <<panel, jobCount, button, presses, spoilt>>
----------------------------------------------------------------------------
(* agent_task takes a message.                                             *)
Take(kind) ==
  /\ turn.at = "idle" /\ turns < MaxTurns /\ turns' = turns + 1
  /\ turn' = [at |-> IF kind = "command" THEN "command" ELSE "build", kind |-> kind,
              round |-> 0, ok |-> TRUE]
  /\ trace' = <<>> /\ said' = Silent /\ offset' = 0 /\ ran' = <<>> /\ finals' = 0 /\ kept' = FALSE
  /\ AgentBegin /\ UNCHANGED response /\ MindOnly
  /\ photoFailed' = FALSE
  /\ UNCHANGED <<scene, stops, poller, llm>>

(* send_text with final set: the display speaks, the text is handed over,  *)
(* and finish_output ends the response: on the console at once, in a chat  *)
(* when the sender comes to the mark behind the text.  All but the text    *)
(* happens whether the channel takes it or not.                            *)
Send(taken) ==
  /\ finals' = IF taken THEN finals + 1 ELSE finals
  /\ IF turn.kind = "serial"
     THEN /\ face' = IF busy THEN [face EXCEPT !.activity = "responding"] ELSE AtRest
          /\ response' = FALSE /\ UNCHANGED <<busy, stops>>
     ELSE ResponseBegin /\ stops' = stops + 1 /\ UNCHANGED busy
  /\ MindOnly /\ UNCHANGED <<poller, photoFailed>>

SendFinal   == Send(TRUE)
NothingSaid == UNCHANGED <<finals, stops, poller, photoFailed, display>>

(* process_message returns; what it returns is the message's success.      *)
Return(ok) == turn' = [turn EXCEPT !.at = "over", !.ok = ok]

\* A command is answered without the model; so is any message, which then has
\* failed, when no provider is configured.
Command ==
  /\ turn.at = "command" /\ SendFinal /\ (\E ok \in BOOLEAN : Return(ok))
  /\ UNCHANGED <<scene, trace, said, offset, ran, kept, turns, llm>>

GiveUp ==
  /\ SendFinal /\ Return(FALSE)
  /\ UNCHANGED <<scene, said, kept, turns>>

(* build_request: the conversation, the message and the trace so far.      *)
\* Mutant: what does not fit is cut off and the model asked again.
BuildRequestCut ==
  /\ turn.at = "build"
  /\ At("infer") /\ NothingSaid
  /\ UNCHANGED <<scene, said, kept, turns, trace, offset, ran, llm>>
BuildRequest ==
  /\ turn.at = "build"
  /\ IF Len(trace) <= RequestSize
     THEN At("infer") /\ NothingSaid /\ UNCHANGED <<scene, said, kept, turns>>
     ELSE GiveUp
  /\ UNCHANGED <<trace, offset, ran, llm>>

Infer ==
  /\ turn.at = "infer" /\ Ask /\ turn' = [turn EXCEPT !.at = "wait", !.round = @ + 1]
  /\ NothingSaid
  /\ UNCHANGED <<scene, trace, said, offset, ran, kept, turns, ready, answer, result, trouble>>

Answered == turn.at = "wait" /\ client.at = "off" /\ UNCHANGED llm

(* The model could not be asked, or what came is no answer.  A job says    *)
(* nothing and is tried again by the scheduler.                            *)
\* Mutant: nobody is told.
InferFailsQuietly ==
  /\ Answered /\ client.verdict = "failed"
  /\ Return(FALSE) /\ NothingSaid /\ UNCHANGED <<scene, said, kept, turns, trace, offset, ran>>
InferFails ==
  /\ Answered /\ client.verdict = "failed"
  /\ IF turn.kind = "job"
     THEN Return(FALSE) /\ NothingSaid /\ UNCHANGED <<scene, said, kept, turns>>
     ELSE GiveUp
  /\ UNCHANGED <<trace, offset, ran>>

\* The mood at the head of a text is taken out of it, and shown.
Filtered == \E m \in {face.mood, "sad"} : Mood(m)

(* A text alone is the answer.  When it was only a mood, no text is left.  *)
Answer ==
  /\ Answered /\ client.verdict = "ok" /\ Ready(result) = {}
  /\ Filtered /\ UNCHANGED <<busy, response>> /\ MindOnly
  /\ At("say") /\ \E blank \in BOOLEAN : said' = [said EXCEPT !.blank = blank]
  /\ UNCHANGED <<scene, trace, offset, ran, finals, kept, turns, channel>>

\* A chat refuses a text that is empty, the console prints any.
Taken == ~said.blank \/ turn.kind = "serial"

(* The turn goes on whatever became of the text, and fails in the end when *)
(* it was refused; a job that was refused is over, one that was taken also *)
(* waits until everything is delivered, and fails when something was not.  *)
Say ==
  /\ turn.at = "say" /\ Send(Taken)
  /\ turn' = [turn EXCEPT !.ok = Taken,
                          !.at = IF turn.kind # "job" THEN "keep"
                                 ELSE IF Taken THEN "flush" ELSE "over"]
  /\ UNCHANGED <<scene, trace, said, offset, ran, kept, turns, llm>>

Flushed ==
  /\ turn.at = "flush" /\ stops = 0
  /\ (\E delivered \in BOOLEAN : Return(delivered)) /\ NothingSaid
  /\ UNCHANGED <<scene, trace, said, offset, ran, kept, turns, llm>>

(* persist_turn, which needs room for the trace in s_request; what grew    *)
(* too large is summarised (compact_context), and asks the model again.    *)
Keep ==
  /\ turn.at = "keep"
  /\ kept' = (Len(trace) < RequestSize)
  /\ IF kept' /\ trace # <<>> THEN At("compact") ELSE Return(turn.ok)
  /\ NothingSaid
  /\ UNCHANGED <<scene, trace, said, offset, ran, turns, llm>>

Compact ==
  /\ turn.at = "compact" /\ Ask /\ At("summary")
  /\ NothingSaid
  /\ UNCHANGED <<scene, trace, said, offset, ran, kept, turns, ready, answer, result, trouble>>

\* Whatever it gave, the turn is over: see ContextStore for the commit.
Summarised ==
  /\ turn.at = "summary" /\ client.at = "off" /\ Return(turn.ok)
  /\ NothingSaid
  /\ UNCHANGED <<scene, trace, said, offset, ran, kept, turns, llm>>
----------------------------------------------------------------------------
(* A batch of calls.  What the model said with it goes out as progress the *)
(* first time, or when a slow call comes first; when it said nothing, or   *)
(* only a mood, a fixed sentence may stand in, once.  What was said joins  *)
(* the trace.                                                              *)
IsSlow == \E k \in Ready(result) : result.arena[k].item \in Slow

Progress ==
  /\ Answered /\ client.verdict = "ok" /\ Ready(result) # {}
  /\ \E left \in {result.text # <<>>, FALSE} :
     LET stands == ~left /\ ~said.progress /\ ~said.fallback /\ IsSlow
         sends  == stands \/ (left /\ (~said.progress \/ (IsSlow /\ ~said.slow)))
         fits   == Len(trace) < TraceSize
         speaks == stands \/ left
     IN /\ said' = [progress |-> said.progress \/ sends, fallback |-> said.fallback \/ stands,
                    slow |-> said.slow \/ (sends /\ IsSlow), blank |-> FALSE]
        /\ trace' = IF speaks /\ fits THEN Append(trace, <<turn.round, 0>>) ELSE trace
        /\ IF speaks /\ ~fits
           THEN SendFinal /\ Return(FALSE) /\ UNCHANGED offset
           ELSE /\ offset' = 0
                /\ At("tools")
                /\ IF stands \/ result.text # <<>> THEN Filtered ELSE UNCHANGED face
                /\ UNCHANGED <<busy, response, finals, channel>> /\ MindOnly
  /\ UNCHANGED <<scene, ran, kept, turns>>

Called == result.arena[CallNext(result, offset)]

(* The next call runs, or the policy refuses it, and its outcome joins the *)
(* trace; without room for it the turn ends there.                         *)
\* Mutant: an outcome without room is left out and the batch goes on.
RunCallRegardless ==
  /\ turn.at = "tools" /\ Left(result, offset) # {}
  /\ ran' = Append(ran, <<turn.round, Called.item>>) /\ offset' = Called.order
  /\ trace' = IF Len(trace) < TraceSize THEN Append(trace, <<turn.round, Called.item>>) ELSE trace
  /\ NothingSaid /\ UNCHANGED <<scene, turn, said, kept, turns, llm>>
RunCall ==
  /\ turn.at = "tools" /\ Left(result, offset) # {}
  /\ ran' = Append(ran, <<turn.round, Called.item>>) /\ offset' = Called.order
  /\ IF Len(trace) < TraceSize
     THEN /\ trace' = Append(trace, <<turn.round, Called.item>>)
          /\ NothingSaid /\ UNCHANGED <<scene, turn, said, kept, turns>>
     ELSE GiveUp /\ UNCHANGED trace
  /\ UNCHANGED llm

BatchDone ==
  /\ turn.at = "tools" /\ Left(result, offset) = {}
  /\ At("build") /\ NothingSaid
  /\ UNCHANGED <<scene, trace, said, offset, ran, kept, turns, llm>>

(* agent_task again: the state is idle, and so is the display unless a     *)
(* response is under way.                                                  *)
TurnOver ==
  /\ turn.at = "over" /\ At("idle")
  /\ AgentEnd /\ UNCHANGED response /\ MindOnly
  /\ UNCHANGED <<scene, trace, said, offset, ran, finals, kept, turns, channel, llm>>
----------------------------------------------------------------------------
(* The sender comes to the mark that ends a response.                      *)
SenderStops ==
  /\ stops > 0 /\ stops' = stops - 1
  /\ ResponseEnd /\ UNCHANGED busy /\ MindOnly
  /\ UNCHANGED <<agentTurn, poller, photoFailed, llm>>

(* The poller: a photo makes the display busy until it is handed to the    *)
(* agent or given up; a quick command is answered there and then.          *)
PollerBegins(what) ==
  /\ poller = "free" /\ poller' = what /\ turns < MaxTurns /\ turns' = turns + 1
  /\ IF what = "photo" THEN AgentBegin /\ UNCHANGED response ELSE ResponseBegin /\ UNCHANGED busy
  /\ MindOnly /\ UNCHANGED <<process, stops, photoFailed, llm>>

MediaError ==
  /\ poller = "photo" /\ poller' = "free" /\ stops' = stops + 1 /\ photoFailed' = TRUE
  /\ AgentEnd /\ UNCHANGED response /\ MindOnly
  /\ UNCHANGED <<agentTurn, llm>>

QuickDone ==
  /\ poller = "quick" /\ poller' = "free" /\ stops' = stops + 1
  /\ UNCHANGED <<agentTurn, photoFailed, llm, display>>

\* The agent takes the message the poller waited to hand over.
PhotoTaken ==
  /\ poller = "photo" /\ turn.at = "idle" /\ poller' = "free"
  /\ turn' = [at |-> "build", kind |-> "chat", round |-> 0, ok |-> TRUE]
  /\ trace' = <<>> /\ said' = Silent /\ offset' = 0 /\ ran' = <<>> /\ finals' = 0 /\ kept' = FALSE
  /\ AgentBegin /\ UNCHANGED response /\ MindOnly
  /\ photoFailed' = FALSE /\ UNCHANGED <<scene, turns, stops, llm>>
----------------------------------------------------------------------------
Agent ==
  \/ Command \/ BuildRequest \/ Infer \/ InferFails \/ Answer \/ Say \/ Flushed \/ Keep
  \/ Compact \/ Summarised \/ Progress \/ RunCall \/ BatchDone \/ TurnOver

ClientStep   == Client /\ answer'.items \in scene.answers /\ answer'.style \in scene.styles /\ UNCHANGED <<agentTurn, channel, display>>
ProviderStep == scene.with = "trouble" /\ Provider /\ UNCHANGED <<agentTurn, channel, display>>
Poller       == MediaError \/ QuickDone \/ PhotoTaken
ScreenStep   == Screen /\ UNCHANGED <<agentTurn, channel, llm>>
WorldStep    == scene.with = "button" /\ World /\ UNCHANGED <<agentTurn, channel, llm>>
Arrives      ==
  \/ \E kind \in scene.kinds : Take(kind)
  \/ scene.with = "poller" /\ \E what \in {"photo", "quick"} : PollerBegins(what)

TurnNext ==
  \/ Agent \/ ClientStep \/ ProviderStep \/ SenderStops \/ Poller \/ ScreenStep \/ WorldStep \/ Arrives

(* Each task goes on while it can; a blink of the eyes comes every four    *)
(* seconds; every call to the provider has a deadline, so the stream goes  *)
(* on or breaks.                                                           *)
TurnSpec ==
  /\ TurnInit /\ [][TurnNext]_all
  /\ WF_all(Agent) /\ WF_all(ClientStep) /\ WF_all(SenderStops) /\ WF_all(Poller)
  /\ WF_all(ScreenStep) /\ WF_all(TaskRound(TRUE) /\ UNCHANGED <<agentTurn, channel, llm>>)
----------------------------------------------------------------------------
(* Every call of an answer is run, once, and the model is told the outcome *)
(* of every call that was run, once and in the order they ran, before it   *)
(* is asked again, so that it never repeats one for want of its result.    *)
Outcomes ==
  LET told[n \in 0..Len(trace)] ==
        IF n = 0 THEN <<>> ELSE IF trace[n][2] = 0 THEN told[n - 1] ELSE Append(told[n - 1], trace[n])
  IN  told[Len(trace)]
OutcomesTold ==
  /\ DisplayTypes
  /\ IsPrefix(Outcomes, ran) /\ IsInjective(ran)
  /\ turn.at \in {"build", "infer", "wait", "say", "keep"} => Outcomes = ran
  /\ turn.at = "build" /\ turn.round > 0 =>
       \A k \in Ready(result) : <<turn.round, result.arena[k].item>> \in Range(ran)

(* The model may want calls again in every round, and nothing counts the   *)
(* rounds: what bounds them, and with them the turn, is that each one that *)
(* goes on leaves something in the trace, and the trace has to fit.        *)
TurnBounded ==
  /\ turn.round <= RequestSize + 1
  /\ Len(ran) <= TraceSize + 1

(* The face is at rest when nothing is under way, and is not at rest while *)
(* the agent works on a message, unless the poller has given a photo up    *)
(* meanwhile.                                                              *)
FaceTruthful ==
  /\ turn.at = "idle" /\ poller = "free" /\ stops = 0 => face = AtRest
  /\ turn.at # "idle" /\ ~photoFailed => face.activity # "idle"

(* Every turn ends, though the model may ask for calls in every round (the *)
(* trace is bounded).  It ends with exactly one final text to the owner,   *)
(* or as a failed turn with none: a job that failed may say nothing, and   *)
(* an answer that is a mood and no text is refused by the chat.            *)
TurnAnswered ==
  /\ turn.at = "over"
  /\ \/ finals = 1
     \/ finals = 0 /\ ~turn.ok /\ (turn.kind = "job" \/ said.blank)
TurnsAnswered == turn.at # "idle" ~> TurnAnswered
=============================================================================
