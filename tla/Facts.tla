------------------------------- MODULE Facts --------------------------------
(***************************************************************************)
(* What the device remembers and how it is made to forget: the saved facts *)
(* (mp_memory.c), the conversation an older firmware left there            *)
(* ("history"), and the stores that /reset confirm, reset-state and        *)
(* /forget clear (mp_agent.c, main.c).                                     *)
(*                                                                         *)
(* The facts are modelled slot by slot.  Of the other stores only the ages *)
(* of their contents count: how many times something was made to forget    *)
(* before a thing came.                                                    *)
(* ContextStore and Scheduler have their details.                          *)
(***************************************************************************)
EXTENDS Integers, FiniteSets, Sequences, FiniteSetsExt

CONSTANTS
  Slots,      \* MP_MEMORY_SLOTS, as a set of indices
  MaxSaves,   \* bound: facts saved
  MaxThings,  \* bound: turns, jobs and prompts that come up
  MaxAges     \* bound: resets and /forget commands

ASSUME FactsAssumption ==
  /\ Slots \subseteq Nat /\ IsFiniteSet(Slots) /\ Slots # {}
  /\ {MaxSaves, MaxThings, MaxAges} \subseteq Nat

VARIABLES
  facts,     \* s_memory: [next, slots]
  factsNvs,  \* its blob in flash
  history,   \* s_history: ages, none once erased
  historyNvs,\* its blob in flash
  context,   \* the conversation, the same in RAM and in flash
  jobs,      \* jobs in RAM
  jobsNvs,   \* and in flash
  prompts,   \* calls that wait for an approval, RAM only
  resetter,  \* how far the agent's and the console's reset have come
  saves,     \* facts whose save was tried: [age, ok], ok when it was answered "Memory saved."
  given,     \* how many of those came before the last reset or unreadable load (history)
  age,       \* resets and /forgets begun: the age of what comes now
  cleared,   \* the age of the last reset that answered (history)
  forgotten, \* the age of the last /forget that answered (history)
  things

memory   == <<facts, factsNvs>>
past     == <<history, historyNvs>>
stores   == <<context, jobs, jobsNvs, prompts>>
told     == <<saves, given, age, cleared, forgotten, things>>
remembered == <<memory, past, stores, resetter, told>>

Actors  == {"console", "agent"}
NoReset == [step |-> "none", age |-> 0]
Empty   == [next |-> 1, slots |-> [i \in Slots |-> [seq |-> 0, fact |-> 0]]]
Texts(m) == {m.slots[i].fact : i \in Slots} \ {0}

FactsInit(legacy) ==
  /\ facts = Empty /\ factsNvs = Empty
  /\ historyNvs = legacy /\ history = legacy
  /\ context = {} /\ jobs = {} /\ jobsNvs = {} /\ prompts = {}
  /\ resetter = [a \in Actors |-> NoReset]
  /\ saves = <<>> /\ given = 0 /\ age = 0 /\ cleared = 0
  /\ forgotten = 0 /\ things = 0

AgentFree == resetter["agent"] = NoReset

(* s_lock, which mp_memory_reset keeps until both of its blobs are written.*)
Unlocked == \A a \in Actors : resetter[a].step # "history"
----------------------------------------------------------------------------
(* Mutant: the slot with the highest number is taken.                      *)
OldestSlotLatest(m) ==
  CHOOSE i \in Slots : \A j \in Slots : m.slots[j].seq <= m.slots[i].seq

(* oldest_memory_slot: a free one, or the one written longest ago.         *)
OldestSlot(m) ==
  CHOOSE i \in Slots : \A j \in Slots :
    \/ m.slots[i].seq < m.slots[j].seq
    \/ m.slots[i].seq = m.slots[j].seq /\ i <= j

(* mp_memory_save: RAM first; what a failed save put there goes to flash   *)
(* with the next one.                                                      *)
SaveFact(fails) ==
  LET n   == Len(saves) + 1
      new == [next  |-> facts.next + 1,
              slots |-> [facts.slots EXCEPT ![OldestSlot(facts)] = [seq |-> facts.next, fact |-> n]]]
  IN  /\ AgentFree /\ Unlocked /\ Len(saves) < MaxSaves
      /\ facts' = new
      /\ factsNvs' \in IF fails THEN {factsNvs, new} ELSE {new}
      /\ saves' = Append(saves, [age |-> age, ok |-> ~fails])
      /\ UNCHANGED <<past, stores, resetter, given, age, cleared, forgotten, things>>

(* A turn is kept, a job added, an approval asked for.                     *)
Comes(fails) ==
  /\ AgentFree /\ things < MaxThings /\ things' = things + 1
  /\ \/ ~fails /\ context' = context \cup {age} /\ UNCHANGED <<jobs, jobsNvs, prompts>>
     \/ ~fails /\ jobs' = jobs \cup {age} /\ jobsNvs' = jobs' /\ UNCHANGED <<context, prompts>>
     \/ ~fails /\ prompts' = {age} /\ UNCHANGED <<context, jobs, jobsNvs>>
  /\ UNCHANGED <<memory, past, resetter, saves, given, age, cleared, forgotten>>
----------------------------------------------------------------------------
(* reset_state and reset-state YES: facts, history, context, jobs and then *)
(* the prompts; the first one that fails ends it.                          *)
Goes(a, step, fails) ==
  resetter' = [resetter EXCEPT ![a] = IF fails THEN NoReset ELSE [step |-> step, age |-> resetter[a].age]]

ResetFacts(a, fails) ==
  /\ resetter[a] = NoReset /\ Unlocked /\ age < MaxAges /\ age' = age + 1
  /\ facts' = Empty /\ history' = {}
  /\ factsNvs' \in IF fails THEN {factsNvs, Empty} ELSE {Empty}
  /\ given' = Len(saves)
  /\ resetter' = [resetter EXCEPT ![a] = IF fails THEN NoReset ELSE [step |-> "history", age |-> age + 1]]
  /\ UNCHANGED <<historyNvs, stores, saves, cleared, forgotten, things>>

(* Mutant: the legacy conversation stays in flash.                         *)
ResetHistoryInRam(a, fails) ==
  /\ resetter[a].step = "history"
  /\ historyNvs' = historyNvs
  /\ Goes(a, "context", fails)
  /\ UNCHANGED <<memory, history, stores, told>>

ResetHistory(a, fails) ==
  /\ resetter[a].step = "history"
  /\ historyNvs' \in IF fails THEN {historyNvs, {}} ELSE {{}}
  /\ Goes(a, "context", fails)
  /\ UNCHANGED <<memory, history, stores, told>>

ResetContext(a, fails) ==
  /\ resetter[a].step = "context"
  /\ context' \in IF fails THEN {context, {}} ELSE {{}}
  /\ Goes(a, "jobs", fails)
  /\ UNCHANGED <<memory, past, jobs, jobsNvs, prompts, told>>

ResetJobs(a, fails) ==
  /\ resetter[a].step = "jobs"
  /\ jobs' = {} /\ jobsNvs' \in IF fails THEN {jobsNvs, {}} ELSE {{}}
  /\ Goes(a, "prompts", fails)
  /\ UNCHANGED <<memory, past, context, prompts, told>>

ResetPrompts(a) ==
  /\ resetter[a].step = "prompts"
  /\ prompts' = {}
  /\ cleared' = Max({cleared, resetter[a].age})
  /\ resetter' = [resetter EXCEPT ![a] = NoReset]
  /\ UNCHANGED <<memory, past, context, jobs, jobsNvs, saves, given, age, forgotten, things>>

(* /forget and forget-telegram: the context alone.                         *)
Forget(a, fails) ==
  /\ resetter[a] = NoReset /\ age < MaxAges
  /\ context' \in IF fails THEN {context, {}} ELSE {{}}
  /\ IF fails
       THEN UNCHANGED <<age, forgotten>>
       ELSE age' = age + 1 /\ forgotten' = age + 1
  /\ UNCHANGED <<memory, past, jobs, jobsNvs, prompts, resetter, saves, given, cleared, things>>
----------------------------------------------------------------------------
(* The power goes: RAM is lost, and a reset is where it was in flash.      *)
FactsLost ==
  /\ resetter' = [a \in Actors |-> NoReset]
  /\ prompts' = {}
  /\ UNCHANGED <<memory, past, context, jobs, jobsNvs, told>>

(* mp_memory_init: a blob that cannot be read counts as none.  (The jobs   *)
(* are loaded with it here; mp_scheduler_init is in Scheduler.)            *)
FactsLoad(fails) ==
  /\ \/ ~fails /\ facts' = factsNvs /\ history' = historyNvs /\ UNCHANGED given
     \/ fails /\ facts' = Empty /\ history' = historyNvs /\ given' = Len(saves)
     \/ fails /\ facts' = factsNvs /\ history' = {} /\ UNCHANGED given
  /\ jobs' = jobsNvs
  /\ UNCHANGED <<factsNvs, historyNvs, context, jobsNvs, prompts, resetter, saves, age, cleared, forgotten, things>>

(* mp_agent_init: with no turn in the context the legacy conversation      *)
(* becomes one; erasing it comes second, and its result is not looked at.  *)
Migrate(fails) ==
  /\ context' = IF context = {} /\ ~fails THEN history ELSE context
  /\ UNCHANGED <<memory, past, jobs, jobsNvs, prompts, resetter, told>>

EraseHistory(fails) ==
  /\ history' = {}
  /\ historyNvs' \in IF fails THEN {historyNvs, {}} ELSE {{}}
  /\ UNCHANGED <<memory, stores, resetter, told>>

FactsStep(fails) ==
  \/ SaveFact(fails) \/ Comes(fails)
  \/ \E a \in Actors :
       \/ ResetFacts(a, fails) \/ ResetHistory(a, fails) \/ ResetContext(a, fails)
       \/ ResetJobs(a, fails) \/ Forget(a, fails)
       \/ (~fails /\ ResetPrompts(a))
----------------------------------------------------------------------------
(* A fact the model was told is saved stays until as many later saves as   *)
(* there are slots have been tried, a reset has begun or a boot could not  *)
(* read the store; a save that failed may still cost the oldest fact.      *)
(* (mp_memory.c:152-167, mp_tools.c:240)                                   *)
FactsKept ==
  \A n \in DOMAIN saves :
    (saves[n].ok /\ n > given /\ n > Len(saves) - Cardinality(Slots)) =>
      n \in Texts(factsNvs)

(* Once a reset has answered, nothing from before it began is there or     *)
(* comes back: no fact, no turn, no job, no prompt; whatever failed or was *)
(* interrupted before, and whoever else was resetting.                     *)
ResetStays ==
  /\ \A n \in Texts(facts) \cup Texts(factsNvs) : saves[n].age >= cleared
  /\ \A a \in context \cup jobs \cup jobsNvs \cup prompts \cup history \cup historyNvs : a >= cleared

(* COMMANDS.md:13, "`/forget` clears conversation context": no turn from   *)
(* before an answered /forget is in the context.                           *)
ForgottenStays == \A a \in context : a >= forgotten
=============================================================================
