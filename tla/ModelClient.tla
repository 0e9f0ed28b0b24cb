---------------------------- MODULE ModelClient -----------------------------
(***************************************************************************)
(* The client of the model provider (mp_llm.c over a session of mp_net.c): *)
(* one request at a time is sent until it is answered, the answer arrives  *)
(* as a stream of events, and the parser builds from them the text and the *)
(* tool calls in a bounded arena.  The events of parallel calls interleave *)
(* and say the same thing more than once; the stream can break, or end     *)
(* early in the middle of a line.                                          *)
(*                                                                         *)
(* An event is one step, whatever the chunks it arrives in: the parser is  *)
(* driven byte by byte and its state between two bytes is its own.         *)
(***************************************************************************)
EXTENDS Naturals, FiniteSets, SequencesExt

CONSTANTS
  Answers,   \* what the provider may answer: sequences of "say" and "call"
  Styles,    \* which of its events a provider sends
  ArenaSize, \* records that fit MP_LLM_CALL_ARENA_LEN
  TextSize,  \* pieces that fit result->text
  MaxTrouble \* bound: requests, connections and streams that fail

ASSUME ModelClientAssumption ==
  /\ Answers \subseteq Seq({"say", "call"})
  /\ Styles \subseteq {"full", "terse", "brief"}
  /\ {ArenaSize, TextSize, MaxTrouble} \subseteq Nat

VARIABLES
  client,  \* where stream_request is, and what it returned
  ready,   \* session->ready: the connection is kept
  answer,  \* the provider's answer, its style and how far its events are
  result,  \* mp_llm_result_t
  trouble

llm == <<client, ready, answer, result, trouble>>

NoAnswer == [items |-> <<>>, style |-> "full", sent |-> <<>>, cut |-> FALSE]
Empty    == [arena |-> <<>>, orders |-> 0, text |-> <<>>, named |-> FALSE, error |-> FALSE]

ClientInit ==
  /\ client = [at |-> "off", verdict |-> "none"] /\ ready = FALSE
  /\ answer = NoAnswer /\ result = Empty /\ trouble = 0
----------------------------------------------------------------------------
(* The arena: records of calls, in the order they were committed.          *)
Items == DOMAIN answer.items

Find(r, item, state) == {k \in DOMAIN r.arena : r.arena[k].item = item /\ r.arena[k].state = state}

(* mp_llm_call_next: the ready calls are taken by their order, which is    *)
(* where the caller's offset stands, whenever they were committed.         *)
Ready(r)            == {k \in DOMAIN r.arena : r.arena[k].state = "ready"}
Left(r, offset)     == {k \in Ready(r) : r.arena[k].order > offset}
CallNext(r, offset) == CHOOSE k \in Left(r, offset) :
                         \A j \in Left(r, offset) : r.arena[k].order <= r.arena[j].order

Overflow(r) == [r EXCEPT !.error = TRUE]

\* commit_scratch with the order of the pending record, or the next one.
Commit(r, item, state, args, name, order) ==
  [r EXCEPT !.arena = Append(@, [item |-> item, state |-> state, args |-> args,
                                 name |-> name, order |-> order]),
            !.orders = IF order > @ THEN order ELSE @]

\* Mutant: a finished call takes the next order, not that of its record.
OrderOfDone(r, item) == r.orders + 1
OrderOf(r, item) ==
  IF Find(r, item, "pending") = {} THEN r.orders + 1
  ELSE r.arena[CHOOSE k \in Find(r, item, "pending") : TRUE].order

Discard(r, item) ==
  [r EXCEPT !.arena = [k \in DOMAIN @ |-> IF k \in Find(r, item, "pending")
                                          THEN [@[k] EXCEPT !.state = "discarded"] ELSE @[k]]]

(* output_item.added and output_item.done of a function call; the name and *)
(* call id come with the item or from its pending record.                  *)
ItemAdded(r, item) ==
  IF Len(r.arena) >= ArenaSize THEN Overflow(r)
  ELSE IF Find(r, item, "ready") # {} THEN r
  ELSE Commit(r, item, "pending", "none", TRUE, OrderOf(r, item))

ItemDone(r, item, args) ==
  IF Len(r.arena) >= ArenaSize THEN Overflow(r)
  ELSE IF Find(r, item, "ready") # {} THEN r
  ELSE Commit(Discard(r, item), item, "ready", args,
              args = "whole" \/ Find(r, item, "pending") # {}, OrderOf(r, item))

(* function_call_arguments.done: only for a call that is pending.          *)
ArgumentsDone(r, item, args) ==
  IF Len(r.arena) >= ArenaSize THEN Overflow(r)
  ELSE IF Find(r, item, "ready") # {} \/ Find(r, item, "pending") = {} THEN r
  ELSE Commit(Discard(r, item), item, "ready", args, TRUE, OrderOf(r, item))

(* output_item of a message: its id, through the same scratch record.      *)
MessageItem(r) ==
  IF Len(r.arena) >= ArenaSize THEN Overflow(r) ELSE [r EXCEPT !.named = TRUE]

(* output_text.delta                                                       *)
Delta(r, item, piece) ==
  IF Len(r.text) >= TextSize THEN Overflow(r)
  ELSE [r EXCEPT !.text = Append(@, [item |-> item, piece |-> piece])]
----------------------------------------------------------------------------
(* The provider.  For an item it sends three events, or fewer: "added",    *)
(* the content, "done".  It starts the items in order and finishes what it *)
(* says before the next item; parallel calls may overlap.                  *)
Closed == 3
NextEvent(i) ==
  IF answer.sent[i] = Closed THEN 0
  ELSE IF answer.items[i] = "say" THEN answer.sent[i] + 1
  ELSE IF answer.style = "brief" \/ (answer.style = "terse" /\ answer.sent[i] = 1) THEN Closed
  ELSE answer.sent[i] + 1

MaySend(i) ==
  /\ NextEvent(i) # 0
  /\ \A j \in 1..(i - 1) :
       /\ answer.sent[j] > 0
       /\ answer.items[j] = "say" \/ answer.style = "brief" => answer.sent[j] = Closed

AllSent == \A i \in Items : answer.sent[i] = Closed

\* event_finish for the next event of item i, with its content so far.
Received(r, i, content) ==
  LET event == NextEvent(i) IN
  IF answer.items[i] = "say"
  THEN IF event = 2 THEN Delta(r, i, content) ELSE MessageItem(r)
  ELSE CASE event = 1 -> ItemAdded(r, i)
         [] event = 2 -> ArgumentsDone(r, i, content)
         [] event = 3 -> ItemDone(r, i, content)
----------------------------------------------------------------------------
(* stream_request.  Its caller sets client.at to "connect"; the result of  *)
(* an earlier attempt is cleared before each one.                          *)
Goto(place) == client' = [client EXCEPT !.at = place]

Ask == client.at = "off" /\ client' = [at |-> "connect", verdict |-> "none"]

(* The request is sent, over the kept connection if that still works, and  *)
(* over a new one otherwise; the provider has an answer.                   *)
Connect ==
  /\ client.at = "connect"
  /\ result' = Empty
  /\ \E items \in Answers, style \in Styles :
       answer' = [items |-> items, style |-> style, sent |-> [i \in DOMAIN items |-> 0], cut |-> FALSE]
  /\ Goto("read")
  /\ ready' \in {ready, FALSE}
  /\ UNCHANGED trouble

(* Neither connection works, or the provider is busy: the same request is  *)
(* sent again after three seconds, for as long as it takes.                *)
Retry ==
  /\ trouble < MaxTrouble /\ trouble' = trouble + 1
  /\ ready' = FALSE /\ answer' = NoAnswer
  /\ \/ client.at = "connect" /\ result' = Empty
     \/ client.at = "read" /\ UNCHANGED result \* the stream breaks
  /\ Goto("connect")

\* Any other status, or the wrong content type.
Rejected ==
  /\ client.at = "connect" /\ trouble < MaxTrouble /\ trouble' = trouble + 1
  /\ client' = [at |-> "off", verdict |-> "failed"]
  /\ result' = [Empty EXCEPT !.error = TRUE]
  /\ ready' \in BOOLEAN /\ answer' = NoAnswer

Receive(i) ==
  /\ client.at = "read" /\ i \in Items /\ MaySend(i)
  /\ result' = Received(result, i, "whole")
  /\ answer' = [answer EXCEPT !.sent[i] = NextEvent(i)]
  /\ UNCHANGED <<client, ready, trouble>>

\* parse_finish
Verdict(r) ==
  IF r.error THEN "failed"
  ELSE IF \E k \in Ready(r) : ~r.arena[k].name \/ r.arena[k].args = "none" THEN "failed"
  ELSE IF Ready(r) # {} \/ (r.text # <<>> /\ r.named) THEN "ok" ELSE "failed"

Finish(r) == result' = r /\ client' = [at |-> "off", verdict |-> Verdict(r)]

\* Everything has arrived; the provider may keep the connection open.
EndOfStream ==
  /\ client.at = "read" /\ AllSent
  /\ Finish(result)
  /\ ready' \in BOOLEAN /\ UNCHANGED <<answer, trouble>>

\* The provider says what went wrong ("error", "response.failed").
ErrorEvent ==
  /\ client.at = "read" /\ trouble < MaxTrouble /\ trouble' = trouble + 1
  /\ Finish([result EXCEPT !.error = TRUE])
  /\ ready' \in BOOLEAN /\ UNCHANGED answer

(* The stream ends early without an error of the session: it is closed, or *)
(* longer than response_limit.  parse_finish ends the line that was cut.   *)
CutOff ==
  /\ client.at = "read" /\ ~AllSent
  /\ trouble < MaxTrouble /\ trouble' = trouble + 1
  /\ \/ Finish(result)
     \/ \E i \in Items : MaySend(i) /\ NextEvent(i) # 1 /\ Finish(Received(result, i, "part"))
  /\ answer' = [answer EXCEPT !.cut = TRUE]
  /\ ready' = FALSE

Client == Connect \/ EndOfStream \/ \E i \in Items : Receive(i)
Provider == Retry \/ Rejected \/ ErrorEvent \/ CutOff
----------------------------------------------------------------------------
Of(kind) == {i \in Items : answer.items[i] = kind}

ClientTypes ==
  /\ client.at \in {"off", "connect", "read"} /\ client.verdict \in {"none", "ok", "failed"}
  /\ ready \in BOOLEAN /\ Len(result.arena) <= ArenaSize /\ Len(result.text) <= TextSize

\* A whole answer as it is handed over, or what came of one that was cut off.
Handed(r, cut) ==
  LET call(k) == r.arena[k]
      said(n) == r.text[n].item
      calls   == {call(k).item : k \in Ready(r)}
      texts   == {said(n) : n \in DOMAIN r.text}
      parts   == {k \in Ready(r) : call(k).args = "part"}
      torn    == {n \in DOMAIN r.text : r.text[n].piece = "part"}
  IN /\ Left(r, 0) = Ready(r)
     /\ \A a, b \in Ready(r) : call(a).order < call(b).order <=> call(a).item < call(b).item
     /\ \A a, b \in Ready(r) : call(a).item = call(b).item => a = b
     /\ \A m, n \in DOMAIN r.text : m < n => said(m) < said(n)
     /\ IF cut
        THEN /\ calls \subseteq Of("call") /\ texts \subseteq Of("say")
             /\ \A i \in texts, j \in Of("say") : j < i => j \in texts
             /\ torn \subseteq {Len(r.text)}
             /\ parts # {} => torn = {} /\ \E k \in parts : parts = {k}
        ELSE calls = Of("call") /\ texts = Of("say") /\ parts = {} /\ torn = {}

(* What the client hands to the agent is what the provider answered: each  *)
(* call once, in the order the provider started them, with its arguments,  *)
(* and the text once, whatever the order of the events, the attempts       *)
(* before and the records already in the arena.  When the stream was cut   *)
(* off it is a part of that, and only what came last is incomplete; the    *)
(* connection is not kept then, so no later answer meets the rest of it.   *)
AnswerAsSent ==
  /\ ClientTypes
  /\ ready => ~answer.cut
  /\ client.at = "off" /\ client.verdict = "ok" => Handed(result, answer.cut)
=============================================================================
