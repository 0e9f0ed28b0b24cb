---------------------------- MODULE DeviceProofs ----------------------------
(***************************************************************************)
(* Theorems about the device over its restarts, for any keys, values and   *)
(* files, slots, saves and resets, any interleaving of the console and the *)
(* agent, any failures and power losses, any releases: a reset that        *)
(* answered stays, a saved fact is kept, RAM holds the settings a reboot   *)
(* would load, and one slot holds a confirmed image that works.            *)
(***************************************************************************)
EXTENDS Device, TLAPS, WellFoundedInduction, FiniteSetTheorems

(***************************************************************************)
(* What a step of the device does to the facts: it is one of theirs while  *)
(* the tasks run, a part of the start, the loss of the power, or nothing.  *)
(***************************************************************************)
Working == {"confirm", "up"}

StartStep ==
  \E fails \in BOOLEAN :
    \/ stage = "memory" /\ stage' = "agent" /\ FactsLoad(fails)
    \/ stage = "agent" /\ stage' \in {"erase", "start"} /\ Migrate(fails)
    \/ stage = "erase" /\ stage' = "start" /\ EraseHistory(fails)

Elsewhere == UNCHANGED remembered /\ (stage \in Working => stage' \in Working)

LEMMA StepsOfFacts ==
  ASSUME [DeviceNext]_all
  PROVE  \/ \E fails \in BOOLEAN : FactsStep(fails) /\ stage \in Working /\ stage' = stage
         \/ FactsLost
         \/ StartStep
         \/ Elsewhere
<1>1. CASE UseSettings
  BY <1>1 DEF UseSettings, Elsewhere, firmware
<1>2. CASE UseFacts
  BY <1>2 DEF UseFacts, TasksRun, Working, firmware
<1>3. CASE UseUpdate
  BY <1>3 DEF UseUpdate, UpdateRefused, UpdateBegins, UpdateFails, UpdateFinishes, Elsewhere
<1>4. CASE RestartUpdated \/ PowerLost \/ Crashes
  BY <1>4 DEF RestartUpdated, PowerLost, Crashes
<1>5. CASE BootImage
  BY <1>5 DEF BootImage, Bootloader, Elsewhere, Working
<1>6. CASE StartTasks
  BY <1>6 DEF StartTasks, InitStep, Elsewhere, Working
<1>7. ASSUME NEW fails \in BOOLEAN, LoadSettings(fails)
      PROVE  Elsewhere
  BY <1>7 DEF LoadSettings, InitStep, Elsewhere, Working
<1>8. ASSUME NEW fails \in BOOLEAN, LoadFacts(fails) \/ AppendHistory(fails) \/ DropHistory(fails)
      PROVE  StartStep
  BY <1>8 DEF LoadFacts, AppendHistory, DropHistory, StartStep, StageTo
<1>9. ASSUME NEW fails \in BOOLEAN, ConfirmRunning(fails)
      PROVE  FactsLost \/ Elsewhere
  BY <1>9 DEF ConfirmRunning, Confirm, RollbackPending, Elsewhere, Working
<1>10. CASE UNCHANGED all
  BY <1>10 DEF all, firmware, Elsewhere
<1> QED BY <1>1, <1>2, <1>3, <1>4, <1>5, <1>6, <1>7, <1>8, <1>9, <1>10 DEF DeviceNext, BootStep

(***************************************************************************)
(* Ages.  What a store holds is not older than what was cleared from it;   *)
(* while a reset is under way this already holds, for its own age, of the  *)
(* stores it has passed.                                                   *)
(***************************************************************************)
Age == 0..age

StoreOf(m) ==
  m \in [next : Nat, slots : [Slots -> [seq : Nat, fact : 0..Len(saves)]]]

AgesTyped ==
  /\ age \in Nat /\ cleared \in Age
  /\ saves \in Seq([age : Nat, ok : BOOLEAN]) /\ \A n \in DOMAIN saves : saves[n].age <= age
  /\ StoreOf(facts) /\ StoreOf(factsNvs)
  /\ context \subseteq Age /\ jobs \subseteq Age /\ jobsNvs \subseteq Age
  /\ prompts \subseteq Age /\ history \subseteq Age /\ historyNvs \subseteq Age
  /\ resetter \in [Actors -> [step : {"none", "history", "context", "jobs", "prompts"}, age : Age]]

FactsFrom(m, a) == \A i \in Slots : m.slots[i].fact # 0 => saves[m.slots[i].fact].age >= a
From(ages, a)   == \A x \in ages : x >= a

Passed(r) ==
  r.step # "none" =>
    /\ FactsFrom(facts, r.age) /\ FactsFrom(factsNvs, r.age) /\ history = {}
    /\ r.step # "history" => historyNvs = {}
    /\ r.step \in {"jobs", "prompts"} => From(context, r.age)
    /\ r.step = "prompts" => From(jobs, r.age) /\ From(jobsNvs, r.age)

Cleared ==
  /\ FactsFrom(facts, cleared) /\ FactsFrom(factsNvs, cleared)
  /\ From(context, cleared) /\ From(jobs, cleared) /\ From(jobsNvs, cleared)
  /\ From(prompts, cleared) /\ From(history, cleared) /\ From(historyNvs, cleared)

Quiet == stage \notin Working => \A a \in Actors : resetter[a].step = "none"

ResetInv == AgesTyped /\ Cleared /\ (\A a \in Actors : Passed(resetter[a])) /\ Quiet

LEMMA MaxOfTwo ==
  ASSUME NEW x \in Nat, NEW y \in Nat
  PROVE  Max({x, y}) \in {x, y} /\ Max({x, y}) >= x /\ Max({x, y}) >= y
<1>1. \E m \in {x, y} : \A z \in {x, y} : m >= z
  OBVIOUS
<1> QED BY <1>1 DEF Max

LEMMA ElementOf ==
  ASSUME NEW R, NEW s \in Seq(R), NEW n \in DOMAIN s
  PROVE  s[n] \in R
<1>1. n \in 1..Len(s)
  OBVIOUS
<1> QED BY <1>1

LEMMA AgesOfSaves ==
  ASSUME AgesTyped
  PROVE  \A n \in DOMAIN saves : saves[n].age \in Nat /\ saves[n].age <= age
<1> SUFFICES ASSUME NEW n \in DOMAIN saves
             PROVE  saves[n].age \in Nat /\ saves[n].age <= age
  OBVIOUS
<1>1. saves \in Seq([age : Nat, ok : BOOLEAN]) /\ saves[n].age <= age
  BY DEF AgesTyped
<1>2. saves[n] \in [age : Nat, ok : BOOLEAN]
  BY <1>1, ElementOf
<1> QED BY <1>1, <1>2

LEMMA SaveFactStep ==
  ASSUME ResetInv, NEW fails \in BOOLEAN, SaveFact(fails), UNCHANGED stage
  PROVE  ResetInv'
<1> DEFINE n   == Len(saves) + 1
           new == [next  |-> facts.next + 1,
                   slots |-> [facts.slots EXCEPT ![OldestSlot(facts)] = [seq |-> facts.next, fact |-> n]]]
<1>1. /\ facts' = new /\ factsNvs' \in {factsNvs, new}
      /\ saves' = Append(saves, [age |-> age, ok |-> ~fails])
      /\ UNCHANGED <<history, historyNvs, context, jobs, jobsNvs, prompts, resetter, age, cleared>>
  BY DEF SaveFact, past, stores
<1>2. /\ saves \in Seq([age : Nat, ok : BOOLEAN]) /\ age \in Nat /\ cleared \in 0..age
      /\ Len(saves) \in Nat /\ n \in Nat /\ n # 0
  BY DEF ResetInv, AgesTyped, Age
<1>3. /\ saves' \in Seq([age : Nat, ok : BOOLEAN]) /\ Len(saves') = n
      /\ \A k \in 1..Len(saves) : saves'[k] = saves[k]
      /\ saves'[n].age = age
  BY <1>1, <1>2
<1>4. \A k \in DOMAIN saves' : saves'[k].age <= age
  BY <1>2, <1>3 DEF ResetInv, AgesTyped
<1>5. ASSUME NEW i \in Slots
      PROVE  new.slots[i] = facts.slots[i] \/ new.slots[i] = [seq |-> facts.next, fact |-> n]
  BY DEF ResetInv, AgesTyped, StoreOf
<1>6. StoreOf(facts)' /\ StoreOf(factsNvs)'
  <2>1. new \in [next : Nat, slots : [Slots -> [seq : Nat, fact : 0..n]]]
    <3>1. facts.next \in Nat /\ facts.slots \in [Slots -> [seq : Nat, fact : 0..Len(saves)]]
      BY DEF ResetInv, AgesTyped, StoreOf
    <3>2. facts.slots \in [Slots -> [seq : Nat, fact : 0..n]]
      BY <1>2, <3>1
    <3>3. [seq |-> facts.next, fact |-> n] \in [seq : Nat, fact : 0..n]
      BY <1>2, <3>1
    <3>4. new.slots \in [Slots -> [seq : Nat, fact : 0..n]]
      BY <3>2, <3>3
    <3> QED BY <3>1, <3>4
  <2>2. factsNvs \in [next : Nat, slots : [Slots -> [seq : Nat, fact : 0..n]]]
    <3>1. factsNvs \in [next : Nat, slots : [Slots -> [seq : Nat, fact : 0..Len(saves)]]]
      BY DEF ResetInv, AgesTyped, StoreOf
    <3> QED BY <1>2, <3>1
  <2> HIDE DEF new
  <2> QED BY <1>1, <1>3, <2>1, <2>2 DEF StoreOf
<1>7. ASSUME NEW a \in 0..age, FactsFrom(facts, a), FactsFrom(factsNvs, a)
      PROVE  FactsFrom(facts, a)' /\ FactsFrom(factsNvs, a)'
  <2>1. ASSUME NEW i \in Slots, new.slots[i].fact # 0
        PROVE  saves'[new.slots[i].fact].age >= a
    <3>1. CASE new.slots[i] = facts.slots[i]
      <4>1. facts.slots[i].fact \in 1..Len(saves)
        BY <2>1, <3>1 DEF ResetInv, AgesTyped, StoreOf
      <4>2. saves[facts.slots[i].fact].age >= a
        BY <1>7, <2>1, <3>1 DEF FactsFrom
      <4> QED BY <1>3, <3>1, <4>1, <4>2
    <3>2. CASE new.slots[i] = [seq |-> facts.next, fact |-> n]
      BY <1>2, <1>3, <1>7, <3>2
    <3> QED BY <1>5, <3>1, <3>2
  <2>2. ASSUME NEW i \in Slots, factsNvs.slots[i].fact # 0
        PROVE  saves'[factsNvs.slots[i].fact].age >= a
    <3>1. factsNvs.slots[i].fact \in 1..Len(saves)
      BY <2>2 DEF ResetInv, AgesTyped, StoreOf
    <3>2. saves[factsNvs.slots[i].fact].age >= a
      BY <1>7, <2>2 DEF FactsFrom
    <3> QED BY <1>3, <3>1, <3>2
  <2> HIDE DEF new
  <2> QED BY <1>1, <2>1, <2>2 DEF FactsFrom
<1> HIDE DEF new, n
<1>8. AgesTyped'
  BY <1>1, <1>3, <1>4, <1>6 DEF ResetInv, AgesTyped, Age
<1>9. Cleared'
  BY <1>1, <1>2, <1>7 DEF ResetInv, Cleared, From
<1>10. ASSUME NEW a \in Actors
       PROVE  Passed(resetter[a])'
  <2>1. Passed(resetter[a]) /\ resetter[a].age \in 0..age
    BY DEF ResetInv, AgesTyped, Age
  <2> QED BY <1>1, <1>7, <2>1 DEF Passed, From
<1> QED BY <1>1, <1>8, <1>9, <1>10 DEF ResetInv, Quiet

LEMMA ComesStep ==
  ASSUME ResetInv, NEW fails \in BOOLEAN, Comes(fails), UNCHANGED stage
  PROVE  ResetInv'
<1>1. /\ context' \in {context, context \cup {age}} /\ jobs' \in {jobs, jobs \cup {age}}
      /\ jobsNvs' \in {jobsNvs, jobs'} /\ prompts' \in {prompts, {age}}
      /\ UNCHANGED <<facts, factsNvs, history, historyNvs, resetter, saves, age, cleared>>
  BY DEF Comes, memory, past
<1>2. age \in Nat /\ cleared \in 0..age
  BY DEF ResetInv, AgesTyped, Age
<1>3. AgesTyped'
  BY <1>1, <1>2 DEF ResetInv, AgesTyped, Age, StoreOf
<1>4. ASSUME NEW x \in 0..age
      PROVE  /\ From(context, x) => From(context, x)'
             /\ From(jobs, x) => From(jobs, x)'
             /\ From(jobsNvs, x) /\ From(jobs, x) => From(jobsNvs, x)'
             /\ From(prompts, x) => From(prompts, x)'
  BY <1>1, <1>2 DEF From
<1>5. Cleared'
  BY <1>1, <1>2, <1>4 DEF ResetInv, Cleared, From, FactsFrom
<1>6. ASSUME NEW a \in Actors
      PROVE  Passed(resetter[a])'
  <2>1. Passed(resetter[a]) /\ resetter[a].age \in 0..age
    BY DEF ResetInv, AgesTyped, Age
  <2> QED BY <1>1, <1>4, <2>1 DEF Passed, From, FactsFrom
<1> QED BY <1>1, <1>3, <1>5, <1>6 DEF ResetInv, Quiet

(* An empty store of facts, and one that is as it was, is as old as ever.  *)
LEMMA EmptyStore ==
  ASSUME saves \in Seq([age : Nat, ok : BOOLEAN])
  PROVE  StoreOf(Empty) /\ \A a : FactsFrom(Empty, a)
BY DEF StoreOf, Empty, FactsFrom

LEMMA ResetFactsStep ==
  ASSUME ResetInv, NEW a \in Actors, NEW fails \in BOOLEAN, ResetFacts(a, fails), stage \in Working, UNCHANGED stage
  PROVE  ResetInv'
<1>1. /\ age' = age + 1 /\ facts' = Empty /\ history' = {} /\ factsNvs' \in {factsNvs, Empty}
      /\ fails \/ factsNvs' = Empty
      /\ resetter' = [resetter EXCEPT ![a] = IF fails THEN NoReset ELSE [step |-> "history", age |-> age + 1]]
      /\ UNCHANGED <<historyNvs, context, jobs, jobsNvs, prompts, saves, cleared>>
  BY DEF ResetFacts, stores
<1>2. /\ age \in Nat /\ cleared \in 0..age /\ saves \in Seq([age : Nat, ok : BOOLEAN])
      /\ resetter \in [Actors -> [step : {"none", "history", "context", "jobs", "prompts"}, age : 0..age]]
  BY DEF ResetInv, AgesTyped, Age
<1>3. StoreOf(Empty) /\ \A x : FactsFrom(Empty, x)
  BY <1>2, EmptyStore
<1>4. StoreOf(facts)' /\ StoreOf(factsNvs)'
  BY <1>1, <1>3 DEF ResetInv, AgesTyped, StoreOf
<1>5. FactsFrom(facts, cleared)' /\ FactsFrom(factsNvs, cleared)'
  BY <1>1, <1>3 DEF ResetInv, Cleared, FactsFrom
<1>6. AgesTyped'
  <2>1. resetter' \in [Actors -> [step : {"none", "history", "context", "jobs", "prompts"}, age : 0..(age + 1)]]
    BY <1>1, <1>2 DEF NoReset
  <2>2. context' \subseteq 0..(age + 1) /\ jobs' \subseteq 0..(age + 1) /\ jobsNvs' \subseteq 0..(age + 1)
        /\ prompts' \subseteq 0..(age + 1) /\ historyNvs' \subseteq 0..(age + 1)
    BY <1>1, <1>2 DEF ResetInv, AgesTyped, Age
  <2>3. \A n \in DOMAIN saves' : saves'[n].age <= age'
    <3>1. \A n \in DOMAIN saves : saves[n].age \in Nat /\ saves[n].age <= age
      BY AgesOfSaves DEF ResetInv
    <3> QED BY <1>1, <1>2, <3>1
  <2> QED BY <1>1, <1>2, <1>4, <2>1, <2>2, <2>3 DEF AgesTyped, Age
<1>7. Cleared'
  BY <1>1, <1>5 DEF ResetInv, Cleared, From
<1>8. ASSUME NEW b \in Actors
      PROVE  Passed(resetter[b])'
  <2>1. CASE b = a /\ fails
    BY <1>1, <1>2, <2>1 DEF Passed, NoReset
  <2>2. CASE b = a /\ ~fails
    <3>1. resetter'[b] = [step |-> "history", age |-> age + 1]
      BY <1>1, <1>2, <2>2
    <3>2. facts' = Empty /\ factsNvs' = Empty /\ history' = {}
      BY <1>1, <2>2
    <3> QED BY <1>3, <3>1, <3>2 DEF Passed, FactsFrom, Empty
  <2>3. CASE b # a
    <3>1. resetter'[b] = resetter[b] /\ Passed(resetter[b])
      BY <1>1, <1>2, <2>3 DEF ResetInv
    <3>2. FactsFrom(factsNvs, resetter[b].age) => FactsFrom(factsNvs, resetter[b].age)'
      BY <1>1, <1>3, <3>1 DEF FactsFrom
    <3>3. FactsFrom(facts, resetter[b].age)'
      BY <1>1, <1>3 DEF FactsFrom, Empty
    <3> QED BY <1>1, <3>1, <3>2, <3>3 DEF Passed, From
  <2> QED BY <2>1, <2>2, <2>3
<1> QED BY <1>6, <1>7, <1>8 DEF ResetInv, Quiet

(* The steps that clear one store each.                                    *)
LEMMA ResetStoreStep ==
  ASSUME ResetInv, NEW a \in Actors, NEW fails \in BOOLEAN, stage \in Working, UNCHANGED stage,
         ResetHistory(a, fails) \/ ResetContext(a, fails) \/ ResetJobs(a, fails)
  PROVE  ResetInv'
<1>1. /\ context' \subseteq context /\ jobs' \subseteq jobs /\ jobsNvs' \subseteq jobsNvs
      /\ historyNvs' \subseteq historyNvs
      /\ UNCHANGED <<facts, factsNvs, history, prompts, saves, age, cleared>>
  BY DEF ResetHistory, ResetContext, ResetJobs, memory, past, stores, told
<1>2. resetter \in [Actors -> [step : {"none", "history", "context", "jobs", "prompts"}, age : 0..age]]
  BY DEF ResetInv, AgesTyped, Age
<1>3. \E s \in {"context", "jobs", "prompts"} :
        /\ resetter' = [resetter EXCEPT ![a] = IF fails THEN NoReset ELSE [step |-> s, age |-> resetter[a].age]]
        /\ s = "context" => resetter[a].step = "history" /\ (~fails => historyNvs' = {})
        /\ s = "jobs"    => resetter[a].step = "context" /\ (~fails => context' = {})
        /\ s = "prompts" => resetter[a].step = "jobs" /\ (~fails => jobs' = {} /\ jobsNvs' = {})
  BY DEF ResetHistory, ResetContext, ResetJobs, Goes
<1>4. AgesTyped'
  <2>1. resetter' \in [Actors -> [step : {"none", "history", "context", "jobs", "prompts"}, age : 0..age]]
    BY <1>2, <1>3 DEF NoReset, ResetInv, AgesTyped
  <2> QED BY <1>1, <2>1 DEF ResetInv, AgesTyped, Age, StoreOf
<1>5. Cleared'
  BY <1>1 DEF ResetInv, Cleared, From, FactsFrom
<1>6. ASSUME NEW b \in Actors
      PROVE  Passed(resetter[b])'
  <2>1. /\ Passed(resetter[b]) /\ Passed(resetter[a])
        /\ \A x : FactsFrom(facts, x)' = FactsFrom(facts, x) /\ FactsFrom(factsNvs, x)' = FactsFrom(factsNvs, x)
    BY <1>1 DEF ResetInv, FactsFrom
  <2>2. CASE b # a \/ fails
    <3>1. resetter'[b] = resetter[b] \/ resetter'[b] = NoReset
      BY <1>2, <1>3, <2>2
    <3> QED BY <1>1, <2>1, <3>1 DEF Passed, From, NoReset
  <2>3. CASE b = a /\ ~fails
    <3>1. PICK s \in {"context", "jobs", "prompts"} :
            /\ resetter' = [resetter EXCEPT ![a] = [step |-> s, age |-> resetter[a].age]]
            /\ s = "context" => resetter[a].step = "history" /\ historyNvs' = {}
            /\ s = "jobs"    => resetter[a].step = "context" /\ context' = {}
            /\ s = "prompts" => resetter[a].step = "jobs" /\ jobs' = {} /\ jobsNvs' = {}
      BY <1>3, <2>3
    <3>2. resetter'[b].step = s /\ resetter'[b].age = resetter[a].age
      BY <1>2, <2>3, <3>1
    <3> QED BY <1>1, <2>1, <2>3, <3>1, <3>2 DEF Passed, From
  <2> QED BY <2>2, <2>3
<1> QED BY <1>4, <1>5, <1>6 DEF ResetInv, Quiet

LEMMA ResetPromptsStep ==
  ASSUME ResetInv, NEW a \in Actors, ResetPrompts(a), UNCHANGED stage
  PROVE  ResetInv'
<1>1. /\ resetter[a].step = "prompts" /\ prompts' = {}
      /\ cleared' = Max({cleared, resetter[a].age}) /\ resetter' = [resetter EXCEPT ![a] = NoReset]
      /\ UNCHANGED <<facts, factsNvs, history, historyNvs, context, jobs, jobsNvs, saves, age>>
  BY DEF ResetPrompts, memory, past
<1>2. /\ age \in Nat /\ cleared \in 0..age /\ resetter[a].age \in 0..age
      /\ resetter \in [Actors -> [step : {"none", "history", "context", "jobs", "prompts"}, age : 0..age]]
  BY DEF ResetInv, AgesTyped, Age
<1>3. cleared' \in {cleared, resetter[a].age}
  BY <1>1, <1>2, MaxOfTwo
<1>4. AgesTyped'
  BY <1>1, <1>2, <1>3 DEF ResetInv, AgesTyped, Age, StoreOf, NoReset
<1>5. Cleared'
  <2>1. CASE cleared' = cleared
    BY <1>1, <2>1 DEF ResetInv, Cleared, From, FactsFrom
  <2>2. CASE cleared' = resetter[a].age
    <3>1. Passed(resetter[a])
      BY DEF ResetInv
    <3> QED BY <1>1, <2>2, <3>1 DEF Passed, Cleared, From, FactsFrom
  <2> QED BY <1>3, <2>1, <2>2
<1>6. ASSUME NEW b \in Actors
      PROVE  Passed(resetter[b])'
  <2>1. resetter'[b] = resetter[b] \/ resetter'[b] = NoReset
    BY <1>1, <1>2
  <2> QED BY <1>1, <2>1 DEF ResetInv, Passed, From, FactsFrom, NoReset
<1>7. Quiet'
  BY <1>1, <1>2 DEF ResetInv, Quiet, NoReset
<1> QED BY <1>4, <1>5, <1>6, <1>7 DEF ResetInv

LEMMA ForgetStep ==
  ASSUME ResetInv, NEW a \in Actors, NEW fails \in BOOLEAN, Forget(a, fails), UNCHANGED stage
  PROVE  ResetInv'
<1>1. /\ context' \subseteq context /\ age' \in {age, age + 1}
      /\ UNCHANGED <<facts, factsNvs, history, historyNvs, jobs, jobsNvs, prompts, resetter, saves, cleared>>
  BY DEF Forget, memory, past
<1>2. age \in Nat /\ cleared \in 0..age /\ 0..age \subseteq 0..age'
  BY <1>1 DEF ResetInv, AgesTyped, Age
<1>3. AgesTyped'
  <2>1. \A n \in DOMAIN saves' : saves'[n].age <= age'
    <3>1. \A n \in DOMAIN saves : saves[n].age \in Nat /\ saves[n].age <= age
      BY AgesOfSaves DEF ResetInv
    <3> QED BY <1>1, <1>2, <3>1
  <2>2. resetter' \in [Actors -> [step : {"none", "history", "context", "jobs", "prompts"}, age : 0..age']]
    BY <1>1, <1>2 DEF ResetInv, AgesTyped, Age
  <2> QED BY <1>1, <1>2, <2>1, <2>2 DEF ResetInv, AgesTyped, Age, StoreOf
<1>4. Cleared'
  BY <1>1 DEF ResetInv, Cleared, From, FactsFrom
<1>5. \A b \in Actors : Passed(resetter[b])'
  BY <1>1 DEF ResetInv, Passed, From, FactsFrom
<1> QED BY <1>1, <1>3, <1>4, <1>5 DEF ResetInv, Quiet

(* The power goes, and the start that follows it.                          *)
LEMMA LostStep ==
  ASSUME ResetInv, FactsLost
  PROVE  ResetInv'
<1>1. /\ resetter' = [b \in Actors |-> NoReset] /\ prompts' = {}
      /\ UNCHANGED <<facts, factsNvs, history, historyNvs, context, jobs, jobsNvs, saves, age, cleared>>
  BY DEF FactsLost, memory, past, told
<1>2. AgesTyped'
  BY <1>1 DEF ResetInv, AgesTyped, Age, StoreOf, NoReset
<1>3. Cleared'
  BY <1>1 DEF ResetInv, Cleared, From, FactsFrom
<1> QED BY <1>1, <1>2, <1>3 DEF ResetInv, Passed, Quiet, NoReset

LEMMA StartStepKeeps ==
  ASSUME ResetInv, StartStep
  PROVE  ResetInv'
<1>1. /\ stage \notin Working /\ stage' \notin Working
      /\ UNCHANGED <<resetter, saves, age, cleared, factsNvs, jobsNvs, prompts>>
      /\ facts' \in {facts, factsNvs, Empty} /\ history' \in {history, historyNvs, {}}
      /\ historyNvs' \in {historyNvs, {}} /\ jobs' \in {jobs, jobsNvs} /\ context' \in {context, history}
  BY DEF StartStep, Working, FactsLoad, Migrate, EraseHistory, memory, past, stores, told
<1>2. saves \in Seq([age : Nat, ok : BOOLEAN])
  BY DEF ResetInv, AgesTyped
<1>3. StoreOf(Empty) /\ \A x : FactsFrom(Empty, x)
  BY <1>2, EmptyStore
<1>4. StoreOf(facts)' /\ FactsFrom(facts, cleared)'
  BY <1>1, <1>3 DEF ResetInv, AgesTyped, Cleared, StoreOf, FactsFrom
<1>5. AgesTyped'
  BY <1>1, <1>4 DEF ResetInv, AgesTyped, Age, StoreOf
<1>6. Cleared'
  BY <1>1, <1>4 DEF ResetInv, Cleared, From, FactsFrom
<1>7. \A b \in Actors : resetter'[b].step = "none"
  BY <1>1 DEF ResetInv, Quiet
<1> QED BY <1>5, <1>6, <1>7 DEF ResetInv, Passed, Quiet

LEMMA ElsewhereKeeps ==
  ASSUME ResetInv, Elsewhere
  PROVE  ResetInv'
BY DEF ResetInv, Elsewhere, remembered, memory, past, stores, told,
       AgesTyped, Age, StoreOf, Cleared, From, FactsFrom, Passed, Quiet

LEMMA ResetInvStep == ResetInv /\ [DeviceNext]_all => ResetInv'
<1> SUFFICES ASSUME ResetInv, [DeviceNext]_all
             PROVE  ResetInv'
  OBVIOUS
<1>1. ASSUME NEW fails \in BOOLEAN, FactsStep(fails), stage \in Working, stage' = stage
      PROVE  ResetInv'
  <2>1. CASE SaveFact(fails) \/ Comes(fails)
    BY <1>1, <2>1, SaveFactStep, ComesStep
  <2>2. ASSUME NEW a \in Actors,
               \/ ResetFacts(a, fails) \/ ResetHistory(a, fails) \/ ResetContext(a, fails)
               \/ ResetJobs(a, fails) \/ Forget(a, fails) \/ ResetPrompts(a)
        PROVE  ResetInv'
    BY <1>1, <2>2, ResetFactsStep, ResetStoreStep, ForgetStep, ResetPromptsStep
  <2> QED BY <1>1, <2>1, <2>2 DEF FactsStep
<1> QED BY <1>1, StepsOfFacts, LostStep, StartStepKeeps, ElsewhereKeeps

LEMMA ResetInvInit == DeviceInit => ResetInv
<1> SUFFICES ASSUME DeviceInit
             PROVE  ResetInv
  OBVIOUS
<1>1. /\ saves = <<>> /\ age = 0 /\ cleared = 0 /\ facts = Empty /\ factsNvs = Empty
      /\ context = {} /\ jobs = {} /\ jobsNvs = {} /\ prompts = {}
      /\ history \in {{}, {0}} /\ historyNvs = history
      /\ resetter = [a \in Actors |-> NoReset]
  BY DEF DeviceInit, FactsInit
<1>2. saves \in Seq([age : Nat, ok : BOOLEAN]) /\ DOMAIN saves = {}
  BY <1>1
<1>3. StoreOf(Empty) /\ \A x : FactsFrom(Empty, x)
  BY <1>2, EmptyStore
<1>4. AgesTyped
  BY <1>1, <1>2, <1>3 DEF AgesTyped, Age, NoReset
<1>5. Cleared
  BY <1>1, <1>3 DEF Cleared, From
<1> QED BY <1>1, <1>4, <1>5 DEF ResetInv, Passed, Quiet, NoReset

THEOREM ResetInvariant == DeviceSpec => []ResetInv
BY ResetInvInit, ResetInvStep, PTL DEF DeviceSpec

(* Once a reset has answered, nothing from before it began comes back,     *)
(* whatever fails, loses power or resets besides (reset_state,             *)
(* mp_memory_reset, mp_memory_init, mp_agent_init).                        *)
THEOREM ResetHolds == DeviceSpec => []ResetStays
<1>1. ResetInv => ResetStays
  <2> SUFFICES ASSUME ResetInv
               PROVE  ResetStays
    OBVIOUS
  <2>1. \A n \in Texts(facts) \cup Texts(factsNvs) : saves[n].age >= cleared
    BY DEF ResetInv, Cleared, FactsFrom, Texts
  <2>2. \A x \in context \cup jobs \cup jobsNvs \cup prompts \cup history \cup historyNvs : x >= cleared
    BY DEF ResetInv, Cleared, From
  <2> QED BY <2>1, <2>2 DEF ResetStays
<1> QED BY <1>1, ResetInvariant, PTL
----------------------------------------------------------------------------
(***************************************************************************)
(* The facts.  In each blob the older entry holds the older fact, a free   *)
(* slot counts as the oldest; so what a save drops is, when no slot is     *)
(* free, older than a fact in every other slot, and as many newer ones     *)
(* were tried as there are slots.                                          *)
(***************************************************************************)
InOrder(m) ==
  /\ \A i \in Slots : m.slots[i].seq < m.next
  /\ \A i, j \in Slots : m.slots[i].seq <= m.slots[j].seq => m.slots[i].fact <= m.slots[j].fact
  /\ \A i, j \in Slots : m.slots[i].fact = m.slots[j].fact => i = j \/ m.slots[i].fact = 0

Lasting(n) == n \in DOMAIN saves /\ saves[n].ok /\ n > given /\ n > Len(saves) - Cardinality(Slots)

Holds(m) == \A n : Lasting(n) => \E i \in Slots : m.slots[i].fact = n

KeptInv ==
  /\ given \in 0..Len(saves)
  /\ InOrder(facts) /\ InOrder(factsNvs)
  /\ Holds(facts) /\ Holds(factsNvs)

(* A set of naturals has a least member.                                   *)
LEMMA LeastNumber ==
  ASSUME NEW T \in SUBSET Nat, T # {}
  PROVE  \E x \in T : \A y \in T : x <= y
<1> DEFINE R == {p \in Nat \X Nat : p[1] < p[2]}
<1>1. IsWellFoundedOn(R, Nat)
  BY NatLessThanWellFounded DEF OpToRel
<1> HIDE DEF R
<1>2. PICK x \in T : \A y \in T : ~(<<y, x>> \in R)
  BY <1>1, WFMin
<1>3. ASSUME NEW y \in T
      PROVE  x <= y
  <2>1. x \in Nat /\ y \in Nat
    OBVIOUS
  <2>2. ~(<<y, x>> \in R)
    BY <1>2
  <2> QED BY <2>1, <2>2 DEF R
<1> QED BY <1>3

(* oldest_memory_slot finds a slot, and none is older.                     *)
LEMMA OldestSlotFound ==
  ASSUME NEW m, StoreOf(m)
  PROVE  /\ OldestSlot(m) \in Slots
         /\ \A j \in Slots : m.slots[OldestSlot(m)].seq <= m.slots[j].seq
<1> DEFINE T == {m.slots[i].seq : i \in Slots}
<1>1. Slots \subseteq Nat /\ Slots # {}
  BY FactsAssumption
<1>2. \A i \in Slots : m.slots[i].seq \in Nat
  BY DEF StoreOf
<1>3. PICK s \in T : \A t \in T : s <= t
  <2>1. T \in SUBSET Nat /\ T # {}
    BY <1>1, <1>2
  <2> HIDE DEF T
  <2> QED BY <2>1, LeastNumber
<1> DEFINE U == {i \in Slots : m.slots[i].seq = s}
<1>4. PICK i \in U : \A j \in U : i <= j
  <2>1. U \in SUBSET Nat /\ U # {}
    BY <1>1, <1>3
  <2> HIDE DEF U
  <2> QED BY <2>1, LeastNumber
<1>5. \A j \in Slots : s <= m.slots[j].seq
  BY <1>3
<1>6. \A j \in Slots :
        \/ m.slots[i].seq < m.slots[j].seq
        \/ m.slots[i].seq = m.slots[j].seq /\ i <= j
  BY <1>1, <1>2, <1>4, <1>5
<1> HIDE DEF T, U
<1>7. i \in Slots
  BY <1>4 DEF U
<1>8. OldestSlot(m) \in Slots /\ \A j \in Slots :
        \/ m.slots[OldestSlot(m)].seq < m.slots[j].seq
        \/ m.slots[OldestSlot(m)].seq = m.slots[j].seq /\ OldestSlot(m) <= j
  BY <1>6, <1>7 DEF OldestSlot
<1> QED BY <1>2, <1>8

(* What a save drops has as many saves behind it as there are slots.       *)
LEMMA OldestSlotDone ==
  ASSUME NEW m, StoreOf(m), InOrder(m), saves \in Seq([age : Nat, ok : BOOLEAN]),
         m.slots[OldestSlot(m)].fact # 0
  PROVE  m.slots[OldestSlot(m)].fact <= Len(saves) + 1 - Cardinality(Slots)
<1> DEFINE f == m.slots[OldestSlot(m)].fact
           L == Len(saves)
           h == [i \in Slots |-> m.slots[i].fact]
<1>1. L \in Nat /\ OldestSlot(m) \in Slots /\ \A i \in Slots : m.slots[i].fact \in 0..L
  BY OldestSlotFound DEF StoreOf
<1>2. f \in 1..L /\ \A i \in Slots : m.slots[i].fact \in f..L
  <2>1. \A i \in Slots : f <= m.slots[i].fact
    BY OldestSlotFound DEF InOrder
  <2> QED BY <1>1, <2>1
<1>3. h \in Injection(Slots, f..L)
  <2>1. h \in [Slots -> f..L]
    BY <1>2
  <2>2. \A i, j \in Slots : h[i] = h[j] => i = j
    BY <1>2 DEF InOrder
  <2> HIDE DEF h, f, L
  <2> QED BY <2>1, <2>2 DEF Injection, IsInjective
<1> HIDE DEF f, L, h
<1>4. IsFiniteSet(f..L) /\ Cardinality(f..L) = L - f + 1
  BY <1>1, <1>2, FS_Interval
<1>5. Cardinality(Slots) <= L - f + 1 /\ Cardinality(Slots) \in Nat
  BY <1>3, <1>4, FS_Injection, FS_CardinalityType, FactsAssumption
<1> QED BY <1>1, <1>2, <1>4, <1>5 DEF f, L

LEMMA EmptyKept == InOrder(Empty)
BY DEF InOrder, Empty

LEMMA SaveFactKeeps ==
  ASSUME ResetInv, KeptInv, NEW fails \in BOOLEAN, SaveFact(fails)
  PROVE  KeptInv'
<1> DEFINE n   == Len(saves) + 1
           o   == OldestSlot(facts)
           new == [next  |-> facts.next + 1,
                   slots |-> [facts.slots EXCEPT ![o] = [seq |-> facts.next, fact |-> n]]]
<1>1. /\ facts' = new /\ factsNvs' \in {factsNvs, new} /\ (~fails => factsNvs' = new)
      /\ saves' = Append(saves, [age |-> age, ok |-> ~fails]) /\ given' = given
  BY DEF SaveFact
<1>2. /\ saves \in Seq([age : Nat, ok : BOOLEAN]) /\ Len(saves) \in Nat /\ given \in 0..Len(saves)
      /\ StoreOf(facts) /\ StoreOf(factsNvs)
  BY DEF ResetInv, AgesTyped, KeptInv
<1>3. /\ Len(saves') = n /\ n \in Nat
      /\ \A k \in 1..Len(saves) : saves'[k] = saves[k]
      /\ saves'[n].ok = ~fails
  BY <1>1, <1>2
<1>4. /\ facts.next \in Nat /\ o \in Slots /\ Cardinality(Slots) \in Nat
      /\ \A i \in Slots : facts.slots[i].seq \in Nat /\ facts.slots[i].fact \in 0..Len(saves)
  BY <1>2, OldestSlotFound, FS_CardinalityType, FactsAssumption DEF StoreOf
<1>5. /\ new.next = facts.next + 1
      /\ \A i \in Slots : /\ i = o => new.slots[i].seq = facts.next /\ new.slots[i].fact = n
                          /\ i # o => new.slots[i] = facts.slots[i]
  BY <1>2, <1>4 DEF StoreOf
<1>6. facts.slots[o].fact # 0 => facts.slots[o].fact <= Len(saves) + 1 - Cardinality(Slots)
  BY <1>2, OldestSlotDone DEF KeptInv
<1> HIDE DEF new, o
<1>7. InOrder(new)
  <2>1. InOrder(facts)
    BY DEF KeptInv
  <2>2. \A i \in Slots : new.slots[i].seq < new.next
    BY <1>4, <1>5, <2>1 DEF InOrder
  <2> /\ new.slots[o].seq = facts.next /\ new.slots[o].fact = n
      /\ \A i \in Slots \ {o} : new.slots[i] = facts.slots[i]
    BY <1>4, <1>5
  <2> HIDE DEF n
  <2> \A i \in Slots : facts.slots[i].seq < facts.next /\ facts.slots[i].fact < n
    BY <1>2, <1>4, <2>1 DEF InOrder, n
  <2>3. ASSUME NEW i \in Slots, NEW j \in Slots, new.slots[i].seq <= new.slots[j].seq
        PROVE  new.slots[i].fact <= new.slots[j].fact
    <3>1. CASE j = o
      BY <1>3, <1>4, <3>1
    <3>2. CASE j # o /\ i = o
      BY <1>4, <2>3, <3>2
    <3>3. CASE j # o /\ i # o
      BY <2>1, <2>3, <3>3 DEF InOrder
    <3> QED BY <3>1, <3>2, <3>3
  <2>4. ASSUME NEW i \in Slots, NEW j \in Slots, new.slots[i].fact = new.slots[j].fact
        PROVE  i = j \/ new.slots[i].fact = 0
    <3>1. CASE i # o /\ j # o
      BY <2>1, <2>4, <3>1 DEF InOrder
    <3>2. CASE i = o \/ j = o
      BY <1>3, <1>4, <2>4, <3>2
    <3> QED BY <3>1, <3>2
  <2> QED BY <2>2, <2>3, <2>4 DEF InOrder
<1>8. ASSUME NEW k, Lasting(k)'
      PROVE  k \in 1..n /\ k > n - Cardinality(Slots) /\ (k = n => ~fails) /\ (k # n => Lasting(k))
  <2>1. DOMAIN saves' = 1..n /\ DOMAIN saves = 1..Len(saves)
    BY <1>1, <1>2
  <2>2. k \in 1..n /\ k > given /\ k > n - Cardinality(Slots) /\ saves'[k].ok
    BY <1>1, <1>3, <1>8, <2>1 DEF Lasting
  <2>3. k # n => k \in 1..Len(saves) /\ saves[k].ok /\ k > Len(saves) - Cardinality(Slots)
    BY <1>2, <1>3, <1>4, <2>2
  <2>4. k = n => ~fails
    BY <1>3, <2>2, Zenon
  <2> HIDE DEF n
  <2>5. k # n => Lasting(k)
    BY <2>1, <2>2, <2>3 DEF Lasting
  <2> QED BY <2>2, <2>4, <2>5
<1>9. ASSUME NEW k, Lasting(k)'
      PROVE  \E i \in Slots : new.slots[i].fact = k
  <2>1. CASE k = n
    BY <1>4, <1>5, <2>1
  <2>2. CASE k # n
    <3>1. PICK i \in Slots : facts.slots[i].fact = k
      BY <1>8, <1>9, <2>2 DEF KeptInv, Holds
    <3>2. i # o
      BY <1>3, <1>4, <1>6, <1>8, <1>9, <3>1
    <3> QED BY <1>5, <3>1, <3>2
  <2> QED BY <2>1, <2>2
<1>10. ASSUME NEW k, Lasting(k)', factsNvs' # new
       PROVE  \E i \in Slots : factsNvs.slots[i].fact = k
  BY <1>1, <1>8, <1>10 DEF KeptInv, Holds
<1>11. InOrder(facts)' /\ InOrder(factsNvs)'
  BY <1>1, <1>7 DEF InOrder, KeptInv
<1>12. Holds(facts)' /\ Holds(factsNvs)'
  BY <1>1, <1>9, <1>10 DEF Holds
<1> QED BY <1>1, <1>2, <1>3, <1>11, <1>12 DEF KeptInv

LEMMA ResetFactsKeeps ==
  ASSUME ResetInv, KeptInv, NEW a \in Actors, NEW fails \in BOOLEAN, ResetFacts(a, fails)
  PROVE  KeptInv'
<1>1. facts' = Empty /\ factsNvs' \in {factsNvs, Empty} /\ given' = Len(saves) /\ saves' = saves
  BY DEF ResetFacts
<1>2. saves \in Seq([age : Nat, ok : BOOLEAN]) /\ Len(saves) \in Nat
  BY DEF ResetInv, AgesTyped
<1>3. \A n : ~Lasting(n)'
  BY <1>1, <1>2 DEF Lasting
<1>4. InOrder(facts)' /\ InOrder(factsNvs)'
  BY <1>1, EmptyKept DEF InOrder, KeptInv
<1> QED BY <1>1, <1>2, <1>3, <1>4 DEF KeptInv, Holds

LEMMA StartKeeps ==
  ASSUME ResetInv, KeptInv, StartStep
  PROVE  KeptInv'
<1>1. /\ factsNvs' = factsNvs /\ saves' = saves
      /\ \/ facts' \in {facts, factsNvs} /\ given' = given
         \/ facts' = Empty /\ given' = Len(saves)
  BY DEF StartStep, FactsLoad, Migrate, EraseHistory, memory, told
<1>2. saves \in Seq([age : Nat, ok : BOOLEAN]) /\ Len(saves) \in Nat
  BY DEF ResetInv, AgesTyped
<1>3. CASE facts' \in {facts, factsNvs} /\ given' = given
  BY <1>1, <1>3 DEF KeptInv, InOrder, Holds, Lasting
<1>4. CASE facts' = Empty /\ given' = Len(saves)
  <2>1. \A n : ~Lasting(n)'
    BY <1>1, <1>2, <1>4 DEF Lasting
  <2>2. InOrder(facts)' /\ InOrder(factsNvs)'
    BY <1>1, <1>4, EmptyKept DEF InOrder, KeptInv
  <2> QED BY <1>1, <1>2, <1>4, <2>1, <2>2 DEF KeptInv, Holds
<1> QED BY <1>1, <1>3, <1>4

LEMMA KeptInvStep == ResetInv /\ KeptInv /\ [DeviceNext]_all => KeptInv'
<1> SUFFICES ASSUME ResetInv, KeptInv, [DeviceNext]_all
             PROVE  KeptInv'
  OBVIOUS
<1>1. ASSUME UNCHANGED <<facts, factsNvs, saves, given>>
      PROVE  KeptInv'
  BY <1>1 DEF KeptInv, InOrder, Holds, Lasting
<1>2. ASSUME NEW fails \in BOOLEAN, FactsStep(fails)
      PROVE  KeptInv'
  <2>1. CASE SaveFact(fails)
    BY <2>1, SaveFactKeeps
  <2>2. ASSUME NEW a \in Actors, ResetFacts(a, fails)
        PROVE  KeptInv'
    BY <2>2, ResetFactsKeeps
  <2>3. CASE Comes(fails)
    BY <1>1, <2>3 DEF Comes, memory
  <2>4. ASSUME NEW a \in Actors,
               \/ ResetHistory(a, fails) \/ ResetContext(a, fails)
               \/ ResetJobs(a, fails) \/ Forget(a, fails) \/ ResetPrompts(a)
        PROVE  KeptInv'
    BY <1>1, <2>4 DEF ResetHistory, ResetContext, ResetJobs, Forget, ResetPrompts, memory, told
  <2> QED BY <1>2, <2>1, <2>2, <2>3, <2>4 DEF FactsStep
<1>3. CASE FactsLost \/ Elsewhere
  BY <1>1, <1>3 DEF FactsLost, Elsewhere, remembered, memory, told
<1> QED BY <1>2, <1>3, StepsOfFacts, StartKeeps

LEMMA KeptInvInit == DeviceInit => KeptInv
<1> SUFFICES ASSUME DeviceInit
             PROVE  KeptInv
  OBVIOUS
<1>1. saves = <<>> /\ given = 0 /\ facts = Empty /\ factsNvs = Empty
  BY DEF DeviceInit, FactsInit
<1>2. Len(saves) = 0 /\ DOMAIN saves = {}
  BY <1>1
<1> QED BY <1>1, <1>2, EmptyKept DEF KeptInv, Holds, Lasting

THEOREM KeptInvariant == DeviceSpec => []KeptInv
BY ResetInvariant, KeptInvInit, KeptInvStep, PTL DEF DeviceSpec

(* A fact that was answered as saved is in flash until as many later saves *)
(* as there are slots were tried, a reset began or a start could not read  *)
(* the store (mp_memory_save, oldest_memory_slot).                         *)
THEOREM SavedFactsStay == DeviceSpec => []FactsKept
<1>1. KeptInv => FactsKept
  <2> SUFFICES ASSUME KeptInv, NEW n \in DOMAIN saves, saves[n].ok, n > given, n > Len(saves) - Cardinality(Slots)
               PROVE  n \in Texts(factsNvs)
    BY DEF FactsKept
  <2>1. \E i \in Slots : factsNvs.slots[i].fact = n
    BY DEF KeptInv, Holds, Lasting
  <2>2. n # 0
    BY DEF KeptInv
  <2> QED BY <2>1, <2>2 DEF Texts
<1> QED BY <1>1, KeptInvariant, PTL
----------------------------------------------------------------------------
(***************************************************************************)
(* The settings: RAM is what a reboot would load.                          *)
(***************************************************************************)
(***************************************************************************)
(* What a step of the device does to the settings.                         *)
(***************************************************************************)
LEMMA StepsOfSettings ==
  ASSUME [DeviceNext]_all
  PROVE  \/ \E fails \in BOOLEAN : SettingsStep(fails) /\ stage \in Working /\ stage' = stage
         \/ SettingsLost
         \/ SettingsLoad /\ stage = "config"
         \/ UNCHANGED settings /\ (stage \in Working => stage' \in Working)
<1>1. CASE UseSettings
  BY <1>1 DEF UseSettings, TasksRun, Working, firmware
<1>2. CASE UseFacts
  BY <1>2 DEF UseFacts, firmware
<1>3. CASE UseUpdate
  BY <1>3 DEF UseUpdate, UpdateRefused, UpdateBegins, UpdateFails, UpdateFinishes
<1>4. CASE RestartUpdated \/ PowerLost \/ Crashes
  BY <1>4 DEF RestartUpdated, PowerLost, Crashes
<1>5. CASE BootImage
  BY <1>5 DEF BootImage, Bootloader, Working
<1>6. CASE StartTasks
  BY <1>6 DEF StartTasks, InitStep, Working
<1>7. ASSUME NEW fails \in BOOLEAN, LoadSettings(fails)
      PROVE  \/ SettingsLoad /\ stage = "config"
             \/ UNCHANGED settings /\ (stage \in Working => stage' \in Working)
  BY <1>7 DEF LoadSettings, InitStep, Working
<1>8. ASSUME NEW fails \in BOOLEAN, LoadFacts(fails) \/ AppendHistory(fails) \/ DropHistory(fails)
      PROVE  UNCHANGED settings /\ stage \notin Working
  BY <1>8 DEF LoadFacts, AppendHistory, DropHistory, Working
<1>9. ASSUME NEW fails \in BOOLEAN, ConfirmRunning(fails)
      PROVE  SettingsLost \/ (UNCHANGED settings /\ stage' \in Working)
  BY <1>9 DEF ConfirmRunning, Confirm, RollbackPending, Working
<1>10. CASE UNCHANGED all
  BY <1>10 DEF all, firmware
<1> QED BY <1>1, <1>2, <1>3, <1>4, <1>5, <1>6, <1>7, <1>8, <1>9, <1>10 DEF DeviceNext, BootStep

(***************************************************************************)
(* Who is in the middle of what.                                           *)
(***************************************************************************)
Peer(w) == IF w = "console" THEN "agent" ELSE "console"

Shape ==
  writer = [w \in Writers |-> [op   |-> writer[w].op,   keys  |-> writer[w].keys,
                               left |-> writer[w].left, gives |-> writer[w].gives]]

(* A set has its key in flash; an import the keys it has come to, and the  *)
(* others are as they were; an erase has none.  Nothing is said of keys    *)
(* that are spoiled.                                                       *)
SetSound(me) ==
  me.op = "set" =>
    /\ me.keys \subseteq Keys
    /\ \A k \in me.keys : me.gives[k] \in Values /\ (k \notin spoiled => nvs[k] = me.gives[k])

ImportSound(me) ==
  me.op = "import" =>
    /\ me.keys \subseteq Keys /\ me.left \subseteq me.keys /\ me.gives \in [Keys -> Values]
    /\ \A k \in Keys \ spoiled :
         /\ k \in me.keys \ me.left => nvs[k] = me.gives[k]
         /\ k \notin me.keys \ me.left => config[k] = Loaded[k]
         /\ k \notin me.keys => me.gives[k] = Loaded[k]

EraseSound(me) ==
  me.op = "erase" =>
    me.gives = [k \in Keys |-> Default] /\ \A k \in Keys \ spoiled : nvs[k] = Unset

WritersSound ==
  \A w \in Writers :
    /\ writer[w].op \in {"idle", "set", "import", "erase"}
    /\ writer[w].op \in {"import", "erase"} => w = "console"
    /\ SetSound(writer[w]) /\ ImportSound(writer[w]) /\ EraseSound(writer[w])

(* What both are touching is spoiled, and what nobody touches is loaded.   *)
Agrees ==
  \A w \in Writers :
    /\ Touches(w) \cap Touches(Peer(w)) \subseteq spoiled
    /\ \A k \in Keys \ (spoiled \cup Touches(w) \cup Touches(Peer(w))) : config[k] = Loaded[k]

Stored == nvs \in [Keys -> Values \cup {Unset}] /\ config \in [Keys -> Values]

SettingsInv == Stored /\ Shape /\ WritersSound /\ Agrees

NobodyWrites == stage \notin Working => \A w \in Writers : writer[w].op = "idle"

LEMMA OverlapOf ==
  ASSUME NEW w \in Writers, NEW keys
  PROVE  Overlap(w, keys) = keys \cap Touches(Peer(w))
<1>1. Writers \ {w} = {Peer(w)}
  BY DEF Writers, Peer
<1>2. UNION {Touches(v) : v \in {Peer(w)}} = Touches(Peer(w))
  OBVIOUS
<1> QED BY <1>1, <1>2 DEF Overlap

LEMMA LoadedAt ==
  ASSUME NEW k \in Keys
  PROVE  Loaded[k] = IF nvs[k] = Unset THEN Default ELSE nvs[k]
BY DEF Loaded

LEMMA LoadedTyped ==
  ASSUME nvs \in [Keys -> Values \cup {Unset}]
  PROVE  Loaded \in [Keys -> Values]
BY SettingsAssumption DEF Loaded

(* The least key left to write is one of them.                             *)
LEMMA LeastLeft ==
  ASSUME NEW T \in SUBSET Keys, T # {}
  PROVE  Min(T) \in T
<1>1. T \in SUBSET Nat
  BY SettingsAssumption
<1> QED BY <1>1, LeastNumber DEF Min

LEMMA TwoWriters ==
  ASSUME NEW w \in Writers
  PROVE  /\ Peer(w) \in Writers /\ Peer(w) # w /\ Peer(Peer(w)) = w
         /\ \A u \in Writers : u = w \/ u = Peer(w)
BY DEF Writers, Peer

LEMMA LoadedKept ==
  ASSUME NEW k \in Keys, nvs'[k] = nvs[k]
  PROVE  Loaded'[k] = Loaded[k]
BY DEF Loaded

(* A write changes its key alone, whether or not it reports success.       *)
LEMMA StoreStep ==
  ASSUME Stored, NEW k \in Keys, NEW v \in Values, NEW fails \in BOOLEAN, Store(k, v, fails)
  PROVE  /\ nvs' \in [Keys -> Values \cup {Unset}]
         /\ \A x \in Keys \ {k} : nvs'[x] = nvs[x] /\ Loaded'[x] = Loaded[x]
         /\ ~fails => nvs'[k] = v
<1>1. nvs' = nvs \/ nvs' = [nvs EXCEPT ![k] = v]
  BY DEF Store
<1>2. nvs' \in [Keys -> Values \cup {Unset}]
  BY <1>1 DEF Stored
<1>3. \A x \in Keys \ {k} : nvs'[x] = nvs[x]
  BY <1>1 DEF Stored
<1>4. ~fails => nvs'[k] = v
  BY DEF Store, Stored
<1> QED BY <1>2, <1>3, <1>4, LoadedKept

(* Keys that become spoiled weaken what is said of a writer.               *)
LEMMA WriterKept ==
  ASSUME NEW u \in Writers, NEW T, WritersSound, writer'[u] = writer[u], config' = config,
         spoiled' = spoiled \cup T,
         \A x \in Keys \ T : nvs'[x] = nvs[x] /\ Loaded'[x] = Loaded[x]
  PROVE  SetSound(writer[u])' /\ ImportSound(writer[u])' /\ EraseSound(writer[u])'
<1>1. SetSound(writer[u])'
  BY DEF WritersSound, SetSound
<1>2. ImportSound(writer[u])'
  BY DEF WritersSound, ImportSound
<1>3. EraseSound(writer[u])'
  BY DEF WritersSound, EraseSound
<1> QED BY <1>1, <1>2, <1>3

LEMMA NothingChanged ==
  ASSUME SettingsInv, UNCHANGED <<nvs, config, writer, spoiled>>
  PROVE  SettingsInv'
<1>1. Loaded' = Loaded /\ Stored' /\ Shape'
  BY DEF SettingsInv, Stored, Shape, Loaded
<1>2. WritersSound'
  <2>1. \A w \in Writers : SetSound(writer[w])' /\ ImportSound(writer[w])' /\ EraseSound(writer[w])'
    <3>1. spoiled' = spoiled \cup {} /\ \A x \in Keys : nvs'[x] = nvs[x] /\ Loaded'[x] = Loaded[x]
      BY <1>1
    <3> QED BY <3>1, WriterKept DEF SettingsInv
  <2> QED BY <2>1 DEF SettingsInv, WritersSound
<1>3. Agrees'
  BY <1>1 DEF SettingsInv, Agrees, Touches
<1> QED BY <1>1, <1>2, <1>3 DEF SettingsInv

LEMMA SetStep ==
  ASSUME SettingsInv, NEW w \in Writers, NEW k \in Keys, NEW v \in Values \cup {"bad"},
         NEW fails \in BOOLEAN, Set(w, k, v, fails)
  PROVE  SettingsInv'
<1> DEFINE u == Peer(w)
<1>1. /\ v \in Values /\ writer[w].op = "idle" /\ config' = config /\ Touches(w) = {}
      /\ Store(k, v, fails)
  BY DEF Set, Begin, Touches
<1>2. u \in Writers /\ u # w /\ Peer(u) = w /\ \A x \in Writers : x = w \/ x = u
  BY TwoWriters
<1>3. /\ nvs' \in [Keys -> Values \cup {Unset}]
      /\ \A x \in Keys \ {k} : nvs'[x] = nvs[x] /\ Loaded'[x] = Loaded[x]
      /\ ~fails => nvs'[k] = v
  BY <1>1, StoreStep DEF SettingsInv
<1> HIDE DEF u
<1>4. CASE fails
  <2>1. writer' = writer /\ spoiled' = spoiled \cup {k}
    BY <1>4 DEF Set
  <2>2. WritersSound'
    <3> SUFFICES ASSUME NEW x \in Writers
                 PROVE  SetSound(writer[x])' /\ ImportSound(writer[x])' /\ EraseSound(writer[x])'
      BY <2>1 DEF SettingsInv, WritersSound
    <3> QED BY <1>1, <1>3, <2>1, WriterKept DEF SettingsInv
  <2>3. Agrees'
    BY <1>1, <1>3, <2>1 DEF SettingsInv, Agrees, Touches
  <2> QED BY <1>1, <1>3, <2>1, <2>2, <2>3 DEF SettingsInv, Stored, Shape
<1>5. CASE ~fails
  <2>1. /\ writer' = [writer EXCEPT ![w] = [op |-> "set", keys |-> {k}, left |-> {}, gives |-> [x \in {k} |-> v]]]
        /\ spoiled' = (spoiled \ {k}) \cup ({k} \cap Touches(u))
    BY <1>5, OverlapOf DEF Set, u
  <2>2. /\ writer'[w] = [op |-> "set", keys |-> {k}, left |-> {}, gives |-> [x \in {k} |-> v]]
        /\ writer'[u] = writer[u]
    BY <1>2, <2>1 DEF SettingsInv, Shape
  <2>3. Shape'
    BY <2>1 DEF SettingsInv, Shape
  <2>4. SetSound(writer[w])' /\ ImportSound(writer[w])' /\ EraseSound(writer[w])' /\ writer'[w].op = "set"
    BY <1>3, <1>5, <1>1, <2>2 DEF SetSound, ImportSound, EraseSound
  <2>5. SetSound(writer[u])' /\ ImportSound(writer[u])' /\ EraseSound(writer[u])'
    <3>1. SetSound(writer[u]) /\ ImportSound(writer[u]) /\ EraseSound(writer[u])
      BY <1>2 DEF SettingsInv, WritersSound
    <3>2. SetSound(writer[u])'
      BY <1>3, <2>1, <2>2, <3>1 DEF SetSound, Touches
    <3>3. ImportSound(writer[u])'
      BY <1>1, <1>3, <2>1, <2>2, <3>1 DEF ImportSound, Touches
    <3>4. EraseSound(writer[u])'
      BY <1>3, <2>1, <2>2, <3>1 DEF EraseSound, Touches
    <3> QED BY <3>2, <3>3, <3>4
  <2>6. WritersSound'
    BY <1>2, <2>2, <2>4, <2>5 DEF SettingsInv, WritersSound
  <2>7. Touches(w)' = {k} /\ Touches(u)' = Touches(u)
    BY <2>2 DEF Touches
  <2>8. Agrees'
    <3>1. \A x \in Keys \ (spoiled' \cup {k} \cup Touches(u)) : config'[x] = Loaded'[x]
      BY <1>1, <1>2, <1>3, <2>1 DEF SettingsInv, Agrees, u
    <3> QED BY <1>2, <2>1, <2>7, <3>1 DEF Agrees, u
  <2> QED BY <1>1, <1>3, <2>3, <2>6, <2>8 DEF SettingsInv, Stored
<1> QED BY <1>4, <1>5

LEMMA SetDoneStep ==
  ASSUME SettingsInv, NEW w \in Writers, SetDone(w)
  PROVE  SettingsInv'
<1> DEFINE u  == Peer(w)
           me == writer[w]
<1>1. /\ me.op = "set" /\ UNCHANGED <<nvs, spoiled, writes>> /\ Loaded' = Loaded
      /\ config' = [k \in Keys |-> IF k \in me.keys THEN me.gives[k] ELSE config[k]]
      /\ writer' = [writer EXCEPT ![w] = Idle]
  BY DEF SetDone, Loaded
<1>2. u \in Writers /\ u # w /\ Peer(u) = w /\ \A x \in Writers : x = w \/ x = u
  BY TwoWriters
<1>3. writer'[w] = Idle /\ writer'[u] = writer[u] /\ Shape'
  BY <1>1, <1>2 DEF SettingsInv, Shape, Idle
<1> HIDE DEF u
<1>4. Touches(w) = me.keys /\ Touches(w)' = {} /\ Touches(u)' = Touches(u)
  BY <1>1, <1>3 DEF Touches, Idle
<1>5. /\ me.keys \subseteq Keys
      /\ \A k \in me.keys : me.gives[k] \in Values /\ (k \notin spoiled => nvs[k] = me.gives[k])
  BY <1>1 DEF SettingsInv, WritersSound, SetSound
<1>6. Stored'
  BY <1>1, <1>5 DEF SettingsInv, Stored
<1>7. \A k \in Keys \ (spoiled \cup Touches(u)) : config'[k] = Loaded[k]
  <2> SUFFICES ASSUME NEW k \in Keys \ (spoiled \cup Touches(u))
               PROVE  config'[k] = Loaded[k]
    OBVIOUS
  <2>1. CASE k \in me.keys
    BY <1>1, <1>5, <2>1, SettingsAssumption DEF Loaded
  <2>2. CASE k \notin me.keys
    BY <1>1, <1>4, <2>2, <1>2 DEF SettingsInv, Agrees, u
  <2> QED BY <2>1, <2>2
<1>8. Agrees'
  BY <1>1, <1>2, <1>4, <1>7 DEF Agrees, u
<1>9. SetSound(writer[u])' /\ ImportSound(writer[u])' /\ EraseSound(writer[u])'
  <2>1. SetSound(writer[u]) /\ ImportSound(writer[u]) /\ EraseSound(writer[u])
    BY <1>2 DEF SettingsInv, WritersSound
  <2>2. SetSound(writer[u])' /\ EraseSound(writer[u])'
    BY <1>1, <1>3, <2>1 DEF SetSound, EraseSound
  <2>3. \A k \in Keys \ spoiled : Touches(u) = Keys => config'[k] = config[k]
    BY <1>1, <1>2, <1>4 DEF SettingsInv, Agrees, u
  <2>4. ImportSound(writer[u])'
    BY <1>1, <1>3, <2>1, <2>3 DEF ImportSound, Touches
  <2> QED BY <2>2, <2>4
<1>10. WritersSound'
  BY <1>2, <1>3, <1>9 DEF SettingsInv, WritersSound, SetSound, ImportSound, EraseSound, Idle
<1> QED BY <1>3, <1>6, <1>8, <1>10 DEF SettingsInv

(* A file that parses gives known keys valid values.                       *)
LEMMA GivenByFile ==
  ASSUME NEW file \in Files, Parses(file)
  PROVE  /\ DOMAIN Gives(file) \subseteq Keys
         /\ \A k \in DOMAIN Gives(file) : Gives(file)[k] \in Values
<1>1. \A i \in DOMAIN file : file[i] \in [key : Nat, value : Values \cup {"bad"}]
  <2>1. file \in Seq([key : Nat, value : Values \cup {"bad"}])
    BY SettingsAssumption
  <2> QED BY <2>1, ElementOf
<1>2. \A i \in Given(file) : i \in DOMAIN file /\ file[i].key \in Keys /\ file[i].value \in Values
  BY <1>1 DEF Parses, Given
<1>3. DOMAIN Gives(file) = {file[i].key : i \in Given(file)}
  BY DEF Gives
<1>4. ASSUME NEW k \in DOMAIN Gives(file)
      PROVE  Gives(file)[k] \in Values
  <2>1. \E i \in Given(file) : file[i].key = k
    BY <1>3
  <2>2. (CHOOSE i \in Given(file) : file[i].key = k) \in Given(file)
    BY <2>1
  <2>3. Gives(file)[k] = file[CHOOSE i \in Given(file) : file[i].key = k].value
    BY <1>3 DEF Gives
  <2> QED BY <1>2, <2>2, <2>3
<1> QED BY <1>2, <1>3, <1>4

LEMMA ImportStep ==
  ASSUME SettingsInv, NEW file \in Files, Import(file)
  PROVE  SettingsInv'
<1>1. CASE ~Parses(file)
  <2>1. UNCHANGED <<nvs, config, writer, spoiled>>
    BY <1>1 DEF Import
  <2> QED BY <2>1, NothingChanged
<1>2. CASE Parses(file)
  <2> DEFINE new  == Gives(file)
             copy == [k \in Keys |-> IF k \in DOMAIN new THEN new[k] ELSE config[k]]
             me   == [op |-> "import", keys |-> DOMAIN new, left |-> DOMAIN new, gives |-> copy]
  <2>1. /\ writer["console"].op = "idle" /\ UNCHANGED <<nvs, config>> /\ Loaded' = Loaded
        /\ writer' = [writer EXCEPT !["console"] = me]
        /\ spoiled' = spoiled \cup Overlap("console", Keys)
    BY <1>2 DEF Import, Begin, Loaded
  <2>2. DOMAIN new \subseteq Keys /\ \A k \in DOMAIN new : new[k] \in Values
    BY <1>2, GivenByFile
  <2> HIDE DEF new
  <2>3. Overlap("console", Keys) = Keys \cap Touches("agent")
    BY OverlapOf DEF Writers, Peer
  <2>4. copy \in [Keys -> Values] /\ \A k \in Keys \ DOMAIN new : copy[k] = config[k]
    BY <2>2 DEF SettingsInv, Stored
  <2> HIDE DEF copy
  <2>5. writer'["console"] = me /\ writer'["agent"] = writer["agent"] /\ Shape'
    BY <2>1 DEF SettingsInv, Shape, Writers
  <2>6. Touches("console") = {} /\ Touches("console")' = Keys /\ Touches("agent")' = Touches("agent")
    BY <2>1, <2>5 DEF Touches
  <2>7. \A k \in Keys \ spoiled' : config[k] = Loaded[k]
    BY <2>1, <2>3, <2>6 DEF SettingsInv, Agrees, Writers, Peer
  <2>8. SetSound(writer["console"])' /\ ImportSound(writer["console"])' /\ EraseSound(writer["console"])'
    <3>1. ImportSound(writer["console"])'
      BY <2>1, <2>2, <2>4, <2>5, <2>7 DEF ImportSound
    <3>2. SetSound(writer["console"])' /\ EraseSound(writer["console"])'
      BY <2>5 DEF SetSound, EraseSound
    <3> QED BY <3>1, <3>2
  <2>9. SetSound(writer["agent"])' /\ ImportSound(writer["agent"])' /\ EraseSound(writer["agent"])'
    BY <2>1, <2>5, WriterKept DEF SettingsInv, Writers
  <2>10. WritersSound'
    BY <2>5, <2>8, <2>9 DEF SettingsInv, WritersSound, Writers
  <2>11. Touches("agent") \subseteq Keys
    BY DEF SettingsInv, WritersSound, SetSound, Touches, Writers
  <2>12. Agrees'
    BY <2>1, <2>3, <2>6, <2>11 DEF Agrees, Writers, Peer
  <2> QED BY <2>1, <2>5, <2>10, <2>12 DEF SettingsInv, Stored
<1> QED BY <1>1, <1>2

LEMMA ImportWriteStep ==
  ASSUME SettingsInv, NEW fails \in BOOLEAN, ImportWrite(fails)
  PROVE  SettingsInv'
<1> DEFINE me == writer["console"]
           k  == Min(me.left)
<1>1. /\ me.op = "import" /\ me.left # {} /\ config' = config /\ Store(k, me.gives[k], fails)
      /\ me.keys \subseteq Keys /\ me.left \subseteq me.keys /\ me.gives \in [Keys -> Values]
      /\ \A x \in Keys \ spoiled :
           /\ x \in me.keys \ me.left => nvs[x] = me.gives[x]
           /\ x \notin me.keys \ me.left => config[x] = Loaded[x]
           /\ x \notin me.keys => me.gives[x] = Loaded[x]
  BY DEF ImportWrite, SettingsInv, WritersSound, ImportSound, Writers
<1>2. k \in me.left /\ k \in Keys /\ me.gives[k] \in Values
  BY <1>1, LeastLeft
<1>3. /\ nvs' \in [Keys -> Values \cup {Unset}]
      /\ \A x \in Keys \ {k} : nvs'[x] = nvs[x] /\ Loaded'[x] = Loaded[x]
      /\ ~fails => nvs'[k] = me.gives[k]
  BY <1>1, <1>2, StoreStep DEF SettingsInv
<1>4. fails => spoiled' = spoiled \cup ({k} \cup (me.keys \ me.left)) /\ writer' = [writer EXCEPT !["console"] = Idle]
  BY DEF ImportWrite
<1>5. ~fails => spoiled' = spoiled /\ writer' = [writer EXCEPT !["console"].left = me.left \ {k}]
  BY DEF ImportWrite
<1>6. Touches("console") = Keys /\ Touches("console") \cap Touches("agent") \subseteq spoiled
  BY <1>1 DEF SettingsInv, Agrees, Touches, Writers, Peer
<1>7. Touches("agent") \subseteq Keys
  BY DEF SettingsInv, WritersSound, SetSound, Touches, Writers
<1> HIDE DEF k
<1>8. CASE fails
  <2>1. writer'["console"] = Idle /\ writer'["agent"] = writer["agent"] /\ Shape'
    <3> HIDE DEF me
    <3>1. writer' = [writer EXCEPT !["console"] = Idle]
      BY <1>4, <1>8
    <3>2. writer'["console"] = Idle /\ writer'["agent"] = writer["agent"]
      BY <3>1 DEF SettingsInv, Shape, Writers
    <3> QED BY <3>1, <3>2 DEF SettingsInv, Shape, Writers, Idle
  <2>2. SetSound(writer["agent"])' /\ ImportSound(writer["agent"])' /\ EraseSound(writer["agent"])'
    <3>1. \A x \in Keys \ ({k} \cup (me.keys \ me.left)) : nvs'[x] = nvs[x] /\ Loaded'[x] = Loaded[x]
      BY <1>3
    <3> HIDE DEF me
    <3> QED BY <1>1, <1>4, <1>8, <2>1, <3>1, WriterKept DEF SettingsInv, Writers
  <2>3. WritersSound'
    BY <2>1, <2>2 DEF SettingsInv, WritersSound, SetSound, ImportSound, EraseSound, Idle, Writers
  <2>4. Touches("console")' = {} /\ Touches("agent")' = Touches("agent")
    BY <2>1 DEF Touches, Idle
  <2>5. \A x \in Keys \ spoiled' : config'[x] = Loaded'[x]
    BY <1>1, <1>3, <1>4, <1>8
  <2>6. Agrees'
    BY <2>4, <2>5 DEF Agrees, Writers, Peer
  <2> QED BY <1>1, <1>3, <2>1, <2>3, <2>6 DEF SettingsInv, Stored
<1>9. CASE ~fails
  <2>1. /\ writer'["console"] = [me EXCEPT !.left = me.left \ {k}] /\ writer'["agent"] = writer["agent"]
        /\ Shape'
    BY <1>5, <1>9 DEF SettingsInv, Shape, Writers
  <2>2. /\ writer'["console"].op = "import" /\ writer'["console"].keys = me.keys
        /\ writer'["console"].left = me.left \ {k} /\ writer'["console"].gives = me.gives
    BY <1>1, <2>1 DEF SettingsInv, Shape, Writers
  <2>3. ImportSound(writer["console"])'
    <3>1. ASSUME NEW x \in Keys \ spoiled
          PROVE  /\ x \in me.keys \ (me.left \ {k}) => nvs'[x] = me.gives[x]
                 /\ x \notin me.keys \ (me.left \ {k}) => config[x] = Loaded'[x]
                 /\ x \notin me.keys => me.gives[x] = Loaded'[x]
      BY <1>1, <1>2, <1>3, <1>9
    <3> HIDE DEF me
    <3> QED BY <1>1, <1>5, <1>9, <2>2, <3>1 DEF ImportSound
  <2>4. SetSound(writer["console"])' /\ EraseSound(writer["console"])'
    BY <2>2 DEF SetSound, EraseSound
  <2>5. SetSound(writer["agent"])' /\ ImportSound(writer["agent"])' /\ EraseSound(writer["agent"])'
    <3>1. /\ SetSound(writer["agent"]) /\ writer["agent"].op \notin {"import", "erase"}
      BY DEF SettingsInv, WritersSound, Writers
    <3>2. writer["agent"].op = "set" => Touches("agent") = writer["agent"].keys
      BY DEF Touches
    <3>3. k \in Touches("agent") => k \in spoiled
      BY <1>2, <1>6
    <3>4. SetSound(writer["agent"])'
      BY <1>3, <1>5, <1>9, <2>1, <3>1, <3>2, <3>3 DEF SetSound
    <3> QED BY <2>1, <3>1, <3>4 DEF ImportSound, EraseSound
  <2>6. WritersSound'
    BY <2>1, <2>2, <2>3, <2>4, <2>5 DEF SettingsInv, WritersSound, Writers
  <2>7. Touches("console")' = Keys /\ Touches("agent")' = Touches("agent")
    BY <2>1, <2>2 DEF Touches
  <2>8. Agrees'
    BY <1>5, <1>6, <1>9, <2>7 DEF Agrees, Writers, Peer
  <2> QED BY <1>1, <1>3, <2>1, <2>6, <2>8 DEF SettingsInv, Stored
<1> QED BY <1>8, <1>9

(* An import or an erase ends: what it gives becomes RAM.                  *)
LEMMA CopyStep ==
  ASSUME SettingsInv, writer["console"].op \in {"import", "erase"},
         writer["console"].gives \in [Keys -> Values],
         \A k \in Keys \ spoiled : writer["console"].gives[k] = Loaded[k],
         config' = writer["console"].gives, writer' = [writer EXCEPT !["console"] = Idle],
         UNCHANGED <<nvs, spoiled>>
  PROVE  SettingsInv'
<1>1. writer'["console"] = Idle /\ writer'["agent"] = writer["agent"] /\ Shape'
  BY DEF SettingsInv, Shape, Writers, Idle
<1>2. Loaded' = Loaded
  BY DEF Loaded
<1>3. SetSound(writer["agent"])' /\ ImportSound(writer["agent"])' /\ EraseSound(writer["agent"])'
  <2>1. SetSound(writer["agent"]) /\ writer["agent"].op \notin {"import", "erase"}
    BY DEF SettingsInv, WritersSound, Writers
  <2> QED BY <1>1, <2>1 DEF SetSound, ImportSound, EraseSound
<1>4. WritersSound'
  BY <1>1, <1>3 DEF SettingsInv, WritersSound, SetSound, ImportSound, EraseSound, Idle, Writers
<1>5. Touches("console")' = {} /\ Touches("agent")' = Touches("agent")
  BY <1>1 DEF Touches, Idle
<1>6. Agrees'
  BY <1>2, <1>5 DEF Agrees, Writers, Peer
<1> QED BY <1>1, <1>4, <1>6 DEF SettingsInv, Stored

LEMMA ImportDoneStep ==
  ASSUME SettingsInv, ImportDone
  PROVE  SettingsInv'
<1> DEFINE me == writer["console"]
<1>1. /\ me.op = "import" /\ me.left = {} /\ me.gives \in [Keys -> Values]
      /\ \A k \in Keys \ spoiled :
           /\ k \in me.keys \ me.left => nvs[k] = me.gives[k]
           /\ k \notin me.keys => me.gives[k] = Loaded[k]
  BY DEF ImportDone, SettingsInv, WritersSound, ImportSound, Writers
<1>2. ASSUME NEW k \in Keys \ spoiled
      PROVE  me.gives[k] = Loaded[k]
  <2>1. me.gives[k] # Unset
    BY <1>1, SettingsAssumption
  <2> QED BY <1>1, <2>1, LoadedAt
<1> QED BY <1>1, <1>2, CopyStep DEF ImportDone

LEMMA EraseDoneStep ==
  ASSUME SettingsInv, EraseDone
  PROVE  SettingsInv'
<1> DEFINE me == writer["console"]
<1>1. /\ me.op = "erase" /\ me.gives = [k \in Keys |-> Default]
      /\ \A k \in Keys \ spoiled : nvs[k] = Unset
  BY DEF EraseDone, SettingsInv, WritersSound, EraseSound, Writers
<1>2. me.gives \in [Keys -> Values] /\ \A k \in Keys \ spoiled : me.gives[k] = Loaded[k]
  BY <1>1, LoadedAt, SettingsAssumption
<1> QED BY <1>1, <1>2, CopyStep DEF EraseDone

LEMMA EraseStep ==
  ASSUME SettingsInv, NEW fails \in BOOLEAN, Erase(fails)
  PROVE  SettingsInv'
<1> DEFINE me == [op |-> "erase", keys |-> Keys, left |-> {}, gives |-> [k \in Keys |-> Default]]
<1>1. writer["console"].op = "idle" /\ config' = config /\ Touches("console") = {}
  BY DEF Erase, Begin, Touches
<1>2. SetSound(writer["agent"]) /\ writer["agent"].op \in {"idle", "set"}
  BY DEF SettingsInv, WritersSound, Writers
<1>3. nvs' \in [Keys -> Values \cup {Unset}]
  BY DEF Erase, SettingsInv, Stored
<1>4. Touches("agent") \subseteq Keys /\ Overlap("console", Keys) = Touches("agent")
  <2>1. Touches("agent") \subseteq Keys
    BY <1>2 DEF SetSound, Touches
  <2> QED BY <2>1, OverlapOf DEF Writers, Peer
<1>5. CASE fails
  <2>1. writer' = writer /\ spoiled' = Keys
    BY <1>5 DEF Erase
  <2>2. WritersSound'
    BY <1>1, <1>2, <2>1 DEF SettingsInv, WritersSound, SetSound, ImportSound, EraseSound, Writers
  <2>3. Agrees'
    BY <1>1, <1>4, <2>1 DEF Agrees, Touches, Writers, Peer
  <2> QED BY <1>1, <1>3, <2>1, <2>2, <2>3 DEF SettingsInv, Stored, Shape
<1>6. CASE ~fails
  <2>1. /\ nvs' = [k \in Keys |-> Unset] /\ writer' = [writer EXCEPT !["console"] = me]
        /\ spoiled' = Touches("agent")
    BY <1>4, <1>6 DEF Erase
  <2>2. writer'["console"] = me /\ writer'["agent"] = writer["agent"] /\ Shape'
    BY <2>1 DEF SettingsInv, Shape, Writers
  <2>3. SetSound(writer["agent"])' /\ ImportSound(writer["agent"])' /\ EraseSound(writer["agent"])'
    BY <1>2, <2>1, <2>2 DEF SetSound, ImportSound, EraseSound, Touches
  <2>4. SetSound(writer["console"])' /\ ImportSound(writer["console"])' /\ EraseSound(writer["console"])'
    BY <2>1, <2>2 DEF SetSound, ImportSound, EraseSound
  <2>5. WritersSound'
    BY <1>2, <2>2, <2>3, <2>4 DEF WritersSound, Writers
  <2>6. Touches("console")' = Keys /\ Touches("agent")' = Touches("agent")
    BY <2>2 DEF Touches
  <2>7. Agrees'
    BY <2>1, <2>6 DEF Agrees, Writers, Peer
  <2> QED BY <1>1, <1>3, <2>2, <2>5, <2>7 DEF SettingsInv, Stored
<1> QED BY <1>5, <1>6

(* Power lost: nothing is claimed until the settings are loaded.           *)
LEMMA LostSettingsStep ==
  ASSUME SettingsInv, SettingsLost
  PROVE  SettingsInv'
<1>1. /\ writer' = [w \in Writers |-> Idle] /\ spoiled' = Keys /\ UNCHANGED <<nvs, config>>
      /\ \A w \in Writers : writer'[w] = Idle /\ Touches(w)' = {}
  BY DEF SettingsLost, Touches, Idle
<1>2. WritersSound'
  BY <1>1 DEF WritersSound, SetSound, ImportSound, EraseSound, Idle
<1>3. Shape'
  BY <1>1 DEF Shape, Idle
<1>4. Agrees'
  BY <1>1, TwoWriters DEF Agrees
<1> QED BY <1>1, <1>2, <1>3, <1>4 DEF SettingsInv, Stored

LEMMA LoadStep ==
  ASSUME SettingsInv, \A w \in Writers : writer[w].op = "idle", SettingsLoad
  PROVE  SettingsInv'
<1>1. /\ config' = Loaded /\ spoiled' = {} /\ UNCHANGED <<nvs, writer>> /\ Loaded' = Loaded
      /\ \A w \in Writers : Touches(w)' = {}
  BY DEF SettingsLoad, Touches, Loaded
<1>2. Stored'
  BY <1>1, LoadedTyped DEF SettingsInv, Stored
<1>3. WritersSound'
  BY <1>1 DEF SettingsInv, WritersSound, SetSound, ImportSound, EraseSound
<1>4. Agrees'
  BY <1>1, TwoWriters DEF Agrees
<1> QED BY <1>1, <1>2, <1>3, <1>4 DEF SettingsInv, Shape

LEMMA SettingsStepSound ==
  ASSUME SettingsInv, NEW fails \in BOOLEAN, SettingsStep(fails)
  PROVE  SettingsInv'
BY SetStep, ImportStep, ImportWriteStep, EraseStep, ImportDoneStep, EraseDoneStep, SetDoneStep
   DEF SettingsStep

LEMMA SettingsInvStep ==
  SettingsInv /\ NobodyWrites /\ [DeviceNext]_all => SettingsInv' /\ NobodyWrites'
<1> SUFFICES ASSUME SettingsInv, NobodyWrites, [DeviceNext]_all
             PROVE  SettingsInv' /\ NobodyWrites'
  OBVIOUS
<1>1. ASSUME NEW fails \in BOOLEAN, SettingsStep(fails), stage \in Working, stage' = stage
      PROVE  SettingsInv' /\ NobodyWrites'
  BY <1>1, SettingsStepSound DEF NobodyWrites
<1>2. CASE SettingsLost
  <2>1. NobodyWrites'
    BY <1>2 DEF SettingsLost, NobodyWrites, Idle
  <2> QED BY <1>2, <2>1, LostSettingsStep
<1>3. CASE SettingsLoad /\ stage = "config"
  <2>1. \A w \in Writers : writer[w].op = "idle"
    BY <1>3 DEF NobodyWrites, Working
  <2>2. NobodyWrites'
    BY <1>3, <2>1 DEF SettingsLoad, NobodyWrites
  <2> QED BY <1>3, <2>1, <2>2, LoadStep
<1>4. CASE UNCHANGED settings /\ (stage \in Working => stage' \in Working)
  <2>1. UNCHANGED <<nvs, config, writer, spoiled>>
    BY <1>4 DEF settings
  <2>2. NobodyWrites'
    BY <1>4, <2>1 DEF NobodyWrites
  <2> QED BY <2>1, <2>2, NothingChanged
<1> QED BY <1>1, <1>2, <1>3, <1>4, StepsOfSettings

LEMMA SettingsInvInit == DeviceInit => SettingsInv /\ NobodyWrites
<1> SUFFICES ASSUME DeviceInit
             PROVE  SettingsInv /\ NobodyWrites
  OBVIOUS
<1>1. /\ nvs = [k \in Keys |-> Unset] /\ config = [k \in Keys |-> Default] /\ spoiled = Keys
      /\ writer = [w \in Writers |-> Idle] /\ \A w \in Writers : writer[w] = Idle /\ Touches(w) = {}
  BY DEF DeviceInit, SettingsInit, Touches, Idle
<1>2. Stored
  BY <1>1, SettingsAssumption DEF Stored
<1>3. Shape
  BY <1>1 DEF Shape, Idle
<1>4. WritersSound
  BY <1>1 DEF WritersSound, SetSound, ImportSound, EraseSound, Idle
<1>5. Agrees
  BY <1>1, TwoWriters DEF Agrees
<1>6. NobodyWrites
  BY <1>1 DEF NobodyWrites, Idle
<1> QED BY <1>2, <1>3, <1>4, <1>5, <1>6 DEF SettingsInv

(* What flash, RAM and the operations under way have to do with each other *)
(* at any moment (mp_config_set, mp_config_import_toml, mp_config_erase).  *)
THEOREM SettingsInvariant == DeviceSpec => [](SettingsInv /\ NobodyWrites)
BY SettingsInvInit, SettingsInvStep, PTL DEF DeviceSpec

(* The device runs with valid settings that are the ones a reboot would    *)
(* load, but for keys of an operation that is under way, failed or         *)
(* overlapped another one since the last start.                            *)
THEOREM SettingsStayHeld == DeviceSpec => []SettingsHold
<1>1. SettingsInv => SettingsHold
  <2> SUFFICES ASSUME SettingsInv
               PROVE  SettingsHold
    OBVIOUS
  <2>1. Loaded \in [Keys -> Values] /\ config \in [Keys -> Values]
    BY LoadedTyped DEF SettingsInv, Stored
  <2>2. ASSUME NEW k \in Keys \ (spoiled \cup UNION {Touches(w) : w \in Writers})
        PROVE  config[k] = Loaded[k]
    <3>1. k \notin Touches("console") /\ k \notin Touches("agent")
      BY DEF Writers
    <3> QED BY <3>1 DEF SettingsInv, Agrees, Writers, Peer
  <2> QED BY <2>1, <2>2 DEF SettingsHold
<1> QED BY <1>1, SettingsInvariant, PTL

(***************************************************************************)
(* The firmware.  A confirmed image that is still whole works; the running *)
(* one is confirmed or on probation, the other never is on probation while *)
(* it runs; only a confirmed image takes an update; and the initialisation *)
(* is over without a failure before the image is confirmed.                *)
(***************************************************************************)
Both     == {0, 1}
Sound(s) == slots[s] # NoImage /\ slots[s].works = "fine" /\ state[s] = "valid"

ImagesTyped ==
  /\ slots \in [Both -> Releases \cup {First, NoImage}]
  /\ state \in [Both -> {"new", "pending", "valid", "aborted", "invalid", "none"}]
  /\ latest \in Both /\ running \in Both

ImagesInv ==
  /\ ImagesTyped
  /\ \A s \in Both : state[s] = "valid" /\ slots[s] # NoImage => slots[s].works = "fine"
  /\ \E s \in Both : Sound(s)
  /\ stage # "off" =>
       /\ state[running] \in {"valid", "pending"} /\ slots[running] # NoImage
       /\ state[Other(running)] # "pending"
  /\ stage \in {"confirm", "up"} => Works = "fine"
  /\ stage = "up" \/ update = "loading" => state[running] = "valid"
  /\ update = "loading" => stage # "off"
  /\ stage = "halted" => state[running] = "valid"

LEMMA TwoSlots ==
  ASSUME NEW s \in Both
  PROVE  Other(s) \in Both /\ Other(s) # s /\ Other(Other(s)) = s /\ Both = {s, Other(s)}
BY DEF Both, Other

(* What a step of the device does to the images.                           *)
StartFails == RollbackPending /\ stage # "off"
ImageStep ==
  \/ TasksRun /\ (UpdateRefused \/ UpdateFails \/ \E image \in Releases : UpdateBegins(image) \/ UpdateFinishes(image))
  \/ Restart
  \/ Bootloader
  \/ StartFails
  \/ stage # "off" /\ \E to \in {"memory", "agent", "erase", "start"} : StageTo(to)
  \/ stage # "off" /\ Works = "fine" /\ StageTo("confirm")
  \/ \E fails \in BOOLEAN : Confirm(fails)
  \/ UNCHANGED firmware

LEMMA Worked ==
  ASSUME ImagesInv, stage # "off", Works \notin {"crashes", "fails"}
  PROVE  Works = "fine"
<1>1. slots[running] \in Releases \cup {First} /\ First.works = "fine"
  BY DEF ImagesInv, ImagesTyped, First
<1> QED
  BY <1>1, FirmwareAssumption DEF Works

LEMMA StepsOfImages ==
  ASSUME ImagesInv, [DeviceNext]_all
  PROVE  ImageStep
<1>1. CASE UseSettings \/ UseFacts \/ UNCHANGED all
  BY <1>1 DEF UseSettings, UseFacts, ImageStep, all
<1>2. CASE UseUpdate
  BY <1>2 DEF UseUpdate, ImageStep
<1>3. CASE RestartUpdated \/ PowerLost \/ Crashes
  BY <1>3 DEF RestartUpdated, PowerLost, Crashes, ImageStep
<1>4. CASE BootImage
  BY <1>4 DEF BootImage, ImageStep
<1>5. CASE StartTasks
  <2>1. stage = "start" /\ Works # "crashes"
    BY <1>5 DEF StartTasks, InitStep
  <2>2. CASE Works = "fails"
    BY <1>5, <2>1, <2>2 DEF StartTasks, InitStep, StartFails, ImageStep
  <2>3. CASE Works # "fails"
    BY <1>5, <2>1, <2>3, Worked DEF StartTasks, InitStep, ImageStep
  <2> QED
    BY <2>2, <2>3
<1>6. ASSUME NEW fails \in BOOLEAN, LoadSettings(fails)
      PROVE  ImageStep
  BY <1>6 DEF LoadSettings, InitStep, StartFails, ImageStep
<1>7. ASSUME NEW fails \in BOOLEAN, LoadFacts(fails) \/ AppendHistory(fails) \/ DropHistory(fails)
      PROVE  ImageStep
  BY <1>7 DEF LoadFacts, AppendHistory, DropHistory, ImageStep
<1>8. ASSUME NEW fails \in BOOLEAN, ConfirmRunning(fails)
      PROVE  ImageStep
  BY <1>8 DEF ConfirmRunning, ImageStep
<1> QED
  BY <1>1, <1>2, <1>3, <1>4, <1>5, <1>6, <1>7, <1>8 DEF DeviceNext, BootStep

LEMMA ImagesKept ==
  ASSUME ImagesInv, [DeviceNext]_all
  PROVE  ImagesInv'
<1> DEFINE o == Other(running)
<1>1. running \in Both /\ o \in Both /\ o # running /\ Both = {running, o}
  BY TwoSlots DEF ImagesInv, ImagesTyped
<1>2. CASE TasksRun /\ (UpdateRefused \/ UpdateFails)
  BY <1>2 DEF UpdateRefused, UpdateFails, ImagesInv, ImagesTyped, Sound, Works
<1>3. ASSUME NEW image \in Releases, TasksRun, UpdateBegins(image)
      PROVE  ImagesInv'
  <2>1. stage \in {"confirm", "up"} /\ state[running] = "valid" /\ slots[running] # NoImage
    BY <1>3 DEF TasksRun, UpdateBegins, ImagesInv
  <2>2. /\ slots' = [slots EXCEPT ![o] = NoImage] /\ update' = "loading"
        /\ UNCHANGED <<state, latest, running, stage>>
    BY <1>3 DEF UpdateBegins
  <2>3. slots'[running] = slots[running] /\ slots'[o] = NoImage /\ slots' \in [Both -> Releases \cup {First, NoImage}]
    BY <1>1, <2>2 DEF ImagesInv, ImagesTyped
  <2>4. Sound(running)'
    BY <1>1, <2>1, <2>2, <2>3 DEF Sound, ImagesInv
  <2> QED
    BY <1>1, <2>1, <2>2, <2>3, <2>4 DEF ImagesInv, ImagesTyped, Works
<1>4. ASSUME NEW image \in Releases, TasksRun, UpdateFinishes(image)
      PROVE  ImagesInv'
  <2>1. stage \in {"confirm", "up"} /\ state[running] = "valid" /\ slots[running] # NoImage
    BY <1>4 DEF TasksRun, UpdateFinishes, ImagesInv
  <2>2. /\ slots' = [slots EXCEPT ![o] = image] /\ state' = [state EXCEPT ![o] = "new"]
        /\ latest' = o /\ update' = "done" /\ UNCHANGED <<running, stage>>
    BY <1>4 DEF UpdateFinishes
  <2>3. /\ slots'[running] = slots[running] /\ slots' \in [Both -> Releases \cup {First, NoImage}]
        /\ state'[running] = state[running] /\ state'[o] = "new"
        /\ state' \in [Both -> {"new", "pending", "valid", "aborted", "invalid", "none"}]
    BY <1>1, <2>2 DEF ImagesInv, ImagesTyped
  <2>4. Sound(running)'
    BY <1>1, <2>1, <2>2, <2>3 DEF Sound, ImagesInv
  <2> QED
    BY <1>1, <2>1, <2>2, <2>3, <2>4 DEF ImagesInv, ImagesTyped, Works
<1>5. CASE Restart
  BY <1>5 DEF Restart, ImagesInv, ImagesTyped, Sound, Works
<1>6. CASE Bootloader
  <2> DEFINE seen == [s \in Both |-> IF state[s] = "pending" THEN "aborted" ELSE state[s]]
             pick == IF Startable(seen, latest) THEN latest ELSE Other(latest)
  <2>1. /\ stage = "off" /\ Startable(seen, pick) /\ running' = pick /\ stage' = "config"
        /\ state' = IF seen[pick] = "new" THEN [seen EXCEPT ![pick] = "pending"] ELSE seen
        /\ UNCHANGED <<slots, latest, update>>
    BY <1>6 DEF Bootloader, Both
  <2>2. pick \in Both /\ Other(pick) \in Both /\ Other(pick) # pick /\ Both = {pick, Other(pick)}
    BY TwoSlots DEF ImagesInv, ImagesTyped
  <2>3. /\ seen \in [Both -> {"new", "valid", "aborted", "invalid", "none"}]
        /\ \A s \in Both : seen[s] = "valid" <=> state[s] = "valid"
    BY DEF ImagesInv, ImagesTyped
  <2>4. seen[pick] \in {"new", "valid"} /\ slots[pick] # NoImage
    BY <2>1, <2>2, <2>3 DEF Startable
  <2> HIDE DEF seen, pick
  <2>5. /\ state' \in [Both -> {"new", "pending", "valid", "aborted", "invalid", "none"}]
        /\ state'[pick] \in {"pending", "valid"} /\ state'[Other(pick)] # "pending"
        /\ \A s \in Both : state'[s] = "valid" <=> state[s] = "valid"
    BY <2>1, <2>2, <2>3, <2>4
  <2>6. PICK s \in Both : Sound(s)
    BY DEF ImagesInv
  <2>7. Sound(s)'
    BY <2>1, <2>5, <2>6 DEF Sound
  <2>8. update' # "loading"
    BY <2>1 DEF ImagesInv
  <2> QED
    BY <2>1, <2>2, <2>4, <2>5, <2>7, <2>8 DEF ImagesInv, ImagesTyped
<1>7. CASE StartFails
  <2>1. CASE state[running] = "pending"
    <3>1. /\ state' = [state EXCEPT ![running] = "invalid"] /\ stage' = "off"
          /\ UNCHANGED <<slots, latest, running, update>>
      BY <1>7, <2>1 DEF StartFails, RollbackPending
    <3>2. /\ state' \in [Both -> {"new", "pending", "valid", "aborted", "invalid", "none"}]
          /\ state'[running] = "invalid" /\ state'[o] = state[o]
      BY <1>1, <3>1 DEF ImagesInv, ImagesTyped
    <3>3. Sound(o)
      BY <1>1, <2>1 DEF ImagesInv, Sound
    <3>4. Sound(o)'
      BY <3>1, <3>2, <3>3 DEF Sound
    <3> QED
      BY <1>1, <2>1, <3>1, <3>2, <3>4 DEF ImagesInv, ImagesTyped
  <2>2. CASE state[running] # "pending"
    <3>1. stage' = "halted" /\ stage # "off" /\ UNCHANGED <<slots, state, latest, running, update>>
      BY <1>7, <2>2 DEF StartFails, RollbackPending
    <3> QED
      BY <2>2, <3>1 DEF ImagesInv, ImagesTyped, Sound
  <2> QED
    BY <2>1, <2>2
<1>8. ASSUME stage # "off", NEW to \in {"memory", "agent", "erase", "start"}, StageTo(to)
      PROVE  ImagesInv'
  BY <1>8 DEF StageTo, ImagesInv, ImagesTyped, Sound
<1>9. CASE stage # "off" /\ Works = "fine" /\ StageTo("confirm")
  BY <1>9 DEF StageTo, ImagesInv, ImagesTyped, Sound, Works
<1>10. ASSUME NEW fails \in BOOLEAN, Confirm(fails)
       PROVE  ImagesInv'
  <2>1. CASE state[running] = "pending" /\ fails
    BY <1>7, <1>10, <2>1 DEF Confirm, StartFails
  <2>2. CASE ~(state[running] = "pending" /\ fails)
    <3>1. /\ stage = "confirm" /\ Works = "fine" /\ slots[running] # NoImage
          /\ state' = [state EXCEPT ![running] = "valid"] /\ stage' = "up"
          /\ UNCHANGED <<slots, latest, running, update>>
      BY <1>10, <2>2 DEF Confirm, ImagesInv
    <3>2. /\ state' \in [Both -> {"new", "pending", "valid", "aborted", "invalid", "none"}]
          /\ state'[running] = "valid" /\ state'[o] = state[o]
      BY <1>1, <3>1 DEF ImagesInv, ImagesTyped
    <3>3. Sound(running)'
      BY <3>1, <3>2 DEF Sound, Works
    <3> QED
      BY <1>1, <3>1, <3>2, <3>3 DEF ImagesInv, ImagesTyped, Works
  <2> QED
    BY <2>1, <2>2
<1>11. CASE UNCHANGED firmware
  BY <1>11 DEF firmware, ImagesInv, ImagesTyped, Sound, Works
<1> QED
  BY <1>2, <1>3, <1>4, <1>5, <1>6, <1>7, <1>8, <1>9, <1>10, <1>11, StepsOfImages DEF ImageStep

LEMMA FirstImages ==
  ASSUME DeviceInit
  PROVE  ImagesInv
<1>1. /\ slots = [s \in {0, 1} |-> IF s = 0 THEN First ELSE NoImage]
      /\ state = [s \in {0, 1} |-> IF s = 0 THEN "valid" ELSE "none"]
      /\ latest = 0 /\ running = 0 /\ stage = "off" /\ update = "idle"
  BY DEF DeviceInit, FirmwareInit
<1>2. First # NoImage /\ First.works = "fine"
  BY FirmwareAssumption DEF First
<1>3. Sound(0)
  BY <1>1, <1>2 DEF Sound
<1> QED
  BY <1>1, <1>2, <1>3 DEF ImagesInv, ImagesTyped, Both

(* The images in the slots, their states in otadata and where the start    *)
(* is, at any moment (mp_ota.c, app_main of main.c).                       *)
THEOREM ImagesInvariant == DeviceSpec => []ImagesInv
BY FirstImages, ImagesKept, PTL DEF DeviceSpec

(* The safety half of UpAgain: a confirmed image that works is always in   *)
(* one of the slots, through updates that break off, images that fail or   *)
(* crash, and power lost at any point.                                     *)
THEOREM SoundImageStays == DeviceSpec => []SoundImageKept
<1>1. ImagesInv => SoundImageKept
  BY DEF ImagesInv, ImagesTyped, Sound, SoundImageKept, Works, Both
<1> QED
  BY <1>1, ImagesInvariant, PTL
=============================================================================
