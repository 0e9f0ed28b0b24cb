---------------------------- MODULE ContextStore ----------------------------
(***************************************************************************)
(* The conversation store (mp_context.c) and the agent's use of it:        *)
(* persist_turn, then compact_context, which has the model summarise the   *)
(* oldest turns.  Every turn and both summary banks are blobs of their own *)
(* in NVS; the description of what is current (context_meta_t) is written  *)
(* alternately to two banks, so the last one written survives a torn write.*)
(*                                                                         *)
(* NVS is external: a blob write that fails changes nothing, and a crash   *)
(* leaves the old blob, the new one or, for a description, one that its    *)
(* checksum rejects.  The store is used by the agent task alone here.      *)
(***************************************************************************)
EXTENDS Integers, Sequences

CONSTANTS
  TurnTrigger,  \* MP_CONTEXT_TURN_TRIGGER
  RemoveTurns,  \* turns the turn trigger removes
  ByteTrigger,  \* MP_CONTEXT_BYTE_TRIGGER
  ByteTarget,   \* MP_CONTEXT_BYTE_TARGET
  Sizes,        \* sizes of a turn
  MaxTurns,     \* bound: turns in all
  MaxFaults,    \* bound: failed writes
  MaxReboots,   \* bound: reboots
  MaxForgets    \* bound: /forget commands

ASSUME ContextAssumption ==
  /\ {TurnTrigger, RemoveTurns, ByteTrigger, ByteTarget} \subseteq Nat \ {0}
  /\ RemoveTurns < TurnTrigger /\ 2 < TurnTrigger /\ ByteTarget <= ByteTrigger
  /\ Sizes \subseteq Nat \ {0}
  /\ {MaxTurns, MaxFaults, MaxReboots, MaxForgets} \subseteq Nat

VARIABLES
  metas,     \* flash: meta0 and meta1
  turns,     \* flash: the turn blobs
  summaries, \* flash: summary0 and summary1, as the turns each one covers
  ram,       \* s_meta
  stage,     \* where the agent is in the store
  draft,     \* the summary being committed
  remove,    \* how many turns it replaces
  erased,    \* how many of them are erased
  attempts, faults, reboots,
  forgets,   \* /forget commands carried out
  acked      \* history: the last turn mp_context_append reported as stored

flash == <<metas, turns, summaries>>
work  == <<stage, draft, remove, erased>>
count == <<attempts, faults, reboots, forgets, acked>>
vars  == <<flash, ram, work, count>>

Banks  == {0, 1}
Keys   == 1..MaxTurns
NoTurn == [turn |-> 0, size |-> 0]

\* turn_count is next - first; summary stands for summary_bytes # 0.
Meta   == [gen : Nat, first : Nat, next : Nat, bytes : Int,
           summary : BOOLEAN, bank : Banks]
Fresh  == [gen |-> 0, first |-> 1, next |-> 1, bytes |-> 0,
           summary |-> FALSE, bank |-> 0]
Absent == [Fresh EXCEPT !.first = 0, !.next = 0] \* no valid description

Stored(m) == m.next - m.first

\* The bytes of the blobs 1..n of t.
SizeTo(t, n) ==
  LET sum[k \in 0..MaxTurns] == IF k = 0 THEN 0 ELSE sum[k - 1] + t[k].size
  IN  sum[n]

\* The bytes of the first n turns of m.
Bytes(m, n) == SizeTo(turns, m.first + n - 1) - SizeTo(turns, m.first - 1)

\* format_range: the summary and then the first n turns.
Told(m, n) ==
  (IF m.summary THEN summaries[m.bank] ELSE <<>>)
  \o [k \in 1..n |-> turns[m.first + k - 1].turn]

Readable(m, n) ==
  /\ m.summary => summaries[m.bank] # <<>>
  /\ \A k \in m.first..(m.first + n - 1) : turns[k] # NoTurn

\* mp_context_init.
Newest ==
  IF metas[0] = Absent /\ metas[1] = Absent THEN Fresh
  ELSE IF metas[1] = Absent \/ (metas[0] # Absent /\ metas[0].gen >= metas[1].gen)
       THEN metas[0] ELSE metas[1]

Init ==
  /\ metas = [b \in Banks |-> IF b = 0 THEN Fresh ELSE Absent]
  /\ turns = [k \in Keys |-> NoTurn]
  /\ summaries = [b \in Banks |-> <<>>]
  /\ ram = Fresh
  /\ stage = "idle" /\ draft = <<>> /\ remove = 0 /\ erased = 0
  /\ attempts = 0 /\ faults = 0 /\ reboots = 0 /\ forgets = 0 /\ acked = 0

Go(place) == stage' = place
Fault == faults < MaxFaults /\ faults' = faults + 1

NextBank(gen) == gen % 2

\* write_meta: the description of the next generation.
WriteMeta(m) == metas' = [metas EXCEPT ![NextBank(m.gen)] = m]

----------------------------------------------------------------------------
(* mp_context_append.  When the first write fails nothing has changed.     *)

AppendBlob(size) ==
  /\ stage = "idle" /\ attempts < MaxTurns
  /\ attempts' = attempts + 1
  /\ turns' = [turns EXCEPT ![ram.next] = [turn |-> attempts + 1, size |-> size]]
  /\ Go("append")
  /\ UNCHANGED <<metas, summaries, ram, draft, remove, erased, faults, reboots, forgets, acked>>

Appended ==
  [ram EXCEPT !.gen = @ + 1, !.next = @ + 1, !.bytes = @ + turns[ram.next].size]

AppendMeta ==
  /\ stage = "append"
  /\ WriteMeta(Appended)
  /\ ram' = Appended
  /\ Go("plan")
  /\ acked' = attempts
  /\ UNCHANGED <<turns, summaries, draft, remove, erased, attempts, faults, reboots, forgets>>

AppendFails ==
  /\ stage = "append" /\ Fault
  /\ Go("idle")
  /\ UNCHANGED <<flash, ram, draft, remove, erased, attempts, reboots, forgets, acked>>

----------------------------------------------------------------------------
(* compact_context.                                                        *)

\* The byte trigger removes turns until ByteTarget or two turns are left.
OverBytes ==
  CHOOSE n \in 0..Stored(ram) :
    /\ ram.bytes - Bytes(ram, n) < ByteTarget \/ Stored(ram) - n <= 2
    /\ \A m \in 0..(n - 1) : /\ ram.bytes - Bytes(ram, m) >= ByteTarget
                             /\ Stored(ram) - m > 2

\* Mutant: one turn too late.
PlanLate ==
  IF turns[ram.next - 1].size >= ByteTrigger THEN Stored(ram)
  ELSE IF ram.bytes >= ByteTrigger THEN OverBytes
  ELSE IF Stored(ram) > TurnTrigger THEN RemoveTurns
  ELSE 0

\* mp_context_compaction_plan, or every turn after a very long one.
Plan ==
  IF turns[ram.next - 1].size >= ByteTrigger THEN Stored(ram)
  ELSE IF ram.bytes >= ByteTrigger THEN OverBytes
  ELSE IF Stored(ram) >= TurnTrigger THEN RemoveTurns
  ELSE 0

\* build_compaction_request reads what the summary is to cover.
PlanCompaction ==
  /\ stage = "plan"
  /\ remove' = Plan
  /\ draft' = IF Plan = 0 THEN <<>> ELSE Told(ram, Plan)
  /\ Go(IF Plan = 0 THEN "idle"
        ELSE IF Readable(ram, Plan) THEN "summarise" ELSE "failed")
  /\ UNCHANGED <<flash, ram, erased, count>>

\* mp_llm_stream answers with a summary or fails.
Summarise ==
  /\ stage = "summarise"
  /\ Go("blob") \/ Go("failed")
  /\ UNCHANGED <<flash, ram, draft, remove, erased, count>>

\* Mutant: the new summary overwrites the current one.
CommitBlobInPlace ==
  /\ stage = "blob" /\ remove <= Stored(ram)
  /\ summaries' = [summaries EXCEPT ![ram.bank] = draft]
  /\ Go("meta")
  /\ UNCHANGED <<metas, turns, ram, draft, remove, erased, count>>

\* mp_context_commit_summary.
CommitBlob ==
  /\ stage = "blob" /\ remove <= Stored(ram)
  /\ summaries' = [summaries EXCEPT ![1 - ram.bank] = draft]
  /\ Go("meta")
  /\ UNCHANGED <<metas, turns, ram, draft, remove, erased, count>>

\* Mutant: the bytes are taken off as if every turn had been removed.
CompactedAll ==
  [ram EXCEPT !.gen = @ + 1, !.first = @ + remove,
              !.bytes = @ - Bytes(ram, Stored(ram)),
              !.summary = TRUE, !.bank = 1 - @]

Compacted ==
  [ram EXCEPT !.gen = @ + 1, !.first = @ + remove, !.bytes = @ - Bytes(ram, remove),
              !.summary = TRUE, !.bank = 1 - @]

CommitMeta ==
  /\ stage = "meta"
  /\ WriteMeta(Compacted)
  /\ Go("erase") /\ erased' = 0
  /\ UNCHANGED <<turns, summaries, ram, draft, remove, count>>

CommitFails ==
  /\ stage \in {"blob", "meta"} /\ Fault
  /\ Go("failed")
  /\ UNCHANGED <<flash, ram, draft, remove, erased, attempts, reboots, forgets, acked>>

\* A failed erase is ignored and leaves the blob.
EraseTurn ==
  /\ stage = "erase" /\ erased < remove
  /\ erased' = erased + 1
  /\ \/ /\ turns' = [turns EXCEPT ![ram.first + erased] = NoTurn]
        /\ UNCHANGED faults
     \/ Fault /\ UNCHANGED turns
  /\ UNCHANGED <<metas, summaries, ram, stage, draft, remove, attempts, reboots, forgets, acked>>

EraseSummary ==
  /\ stage = "erase" /\ erased = remove
  /\ summaries' = IF ram.summary THEN [summaries EXCEPT ![ram.bank] = <<>>] ELSE summaries
  /\ ram' = metas[NextBank(ram.gen + 1)] \* what CommitMeta wrote
  /\ Go("idle") /\ draft' = <<>> /\ remove' = 0 /\ erased' = 0
  /\ UNCHANGED <<metas, turns, count>>

\* mp_context_compaction_failed writes a new generation of the same.
CompactionFailed ==
  /\ stage = "failed"
  /\ \/ /\ ram' = [ram EXCEPT !.gen = @ + 1]
        /\ WriteMeta(ram')
        /\ UNCHANGED faults
     \/ Fault /\ UNCHANGED <<metas, ram>>
  /\ Go("idle") /\ draft' = <<>> /\ remove' = 0
  /\ UNCHANGED <<turns, summaries, erased, attempts, reboots, forgets, acked>>

----------------------------------------------------------------------------
(* mp_context_forget: everything is erased, then a fresh description is    *)
(* written, which may fail.                                                *)

ForgetErase ==
  /\ stage = "idle" /\ forgets < MaxForgets
  /\ forgets' = forgets + 1
  /\ metas' = [b \in Banks |-> Absent]
  /\ turns' = [k \in Keys |-> NoTurn]
  /\ summaries' = [b \in Banks |-> <<>>]
  /\ ram' = Fresh
  /\ Go("fresh")
  /\ UNCHANGED <<draft, remove, erased, attempts, faults, reboots, acked>>

ForgetWrite ==
  /\ stage = "fresh"
  /\ \/ WriteMeta(Fresh) /\ UNCHANGED faults
     \/ Fault /\ UNCHANGED metas
  /\ Go("idle")
  /\ UNCHANGED <<turns, summaries, ram, draft, remove, erased, attempts, reboots, forgets, acked>>

\* The description being written when the power went.
Torn ==
  CASE stage \in {"append", "meta", "failed"} -> {NextBank(ram.gen + 1)}
    [] stage = "fresh" -> {NextBank(0)}
    [] OTHER -> {}

\* mp_context_init; a fresh description is written when none is valid.
Reboot ==
  /\ reboots < MaxReboots
  /\ reboots' = reboots + 1
  /\ \E lost \in SUBSET Torn :
       LET left == [b \in Banks |-> IF b \in lost THEN Absent ELSE metas[b]]
           none == \A b \in Banks : left[b] = Absent
       IN  /\ metas' = IF none THEN [left EXCEPT ![0] = Fresh] ELSE left
           /\ ram' = Newest'
  /\ Go("idle") /\ draft' = <<>> /\ remove' = 0 /\ erased' = 0
  /\ UNCHANGED <<turns, summaries, attempts, faults, forgets, acked>>

----------------------------------------------------------------------------
Next ==
  \/ \E size \in Sizes : AppendBlob(size)
  \/ AppendMeta \/ AppendFails
  \/ PlanCompaction \/ Summarise
  \/ CommitBlob \/ CommitMeta \/ CommitFails \/ EraseTurn \/ EraseSummary
  \/ CompactionFailed
  \/ ForgetErase \/ ForgetWrite
  \/ Reboot

Spec == Init /\ [][Next]_vars

----------------------------------------------------------------------------
Stages == {"idle", "append", "plan", "summarise", "blob", "meta", "erase",
           "failed", "fresh"}

TypeOK ==
  /\ metas \in [Banks -> Meta] /\ ram \in Meta
  /\ turns \in [Keys -> [turn : Nat, size : Nat]]
  /\ summaries \in [Banks -> Seq(Nat)]
  /\ stage \in Stages /\ draft \in Seq(Nat)
  /\ remove \in Nat /\ erased \in 0..remove
  /\ {attempts, faults, reboots, forgets, acked} \subseteq Nat

(* Between operations RAM describes what a reboot would find: the boot     *)
(* rule picks the bank written last, whatever writes failed.               *)
RamIsFlash == stage \in {"idle", "append", "plan", "fresh"} => ram = Newest

(* recent_bytes is the size of the turns kept in full, for RAM and for     *)
(* what a reboot would load; taking a removed turn off never wraps it.     *)
BytesExact ==
  /\ stage # "erase" => ram.bytes = Bytes(ram, Stored(ram))
  /\ Newest.bytes = Bytes(Newest, Stored(Newest))

(* What both of them say, and the types.                                   *)
ContextSound == TypeOK /\ RamIsFlash /\ BytesExact

KeepsUp(m) ==
  /\ Stored(m) < TurnTrigger
  /\ m.bytes < ByteTrigger \/ Stored(m) <= 2

(* A compaction that is not behind already leaves both triggers untouched, *)
(* and none is skipped while a trigger calls for it.                       *)
CompactionKeepsUp ==
  [][/\ (CommitMeta /\ Stored(ram) <= TurnTrigger) => KeepsUp(Compacted)
     /\ (PlanCompaction /\ remove' = 0) => KeepsUp(ram)]_vars

(* The conversation: a reboot, a failed write or a compaction never loses, *)
(* repeats or reorders a turn.  A turn is in what a reboot would tell the  *)
(* model from the step on in which it was acknowledged, and only a /forget *)
(* takes it out.                                                           *)
Log == INSTANCE ConversationLog WITH
  Turns <- Keys, log <- Told(Newest, Stored(Newest)),
  acked <- acked, forgets <- forgets

ConversationKept == Log!Spec
=============================================================================
