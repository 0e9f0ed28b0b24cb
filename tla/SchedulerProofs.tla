-------------------------- MODULE SchedulerProofs --------------------------
(***************************************************************************)
(* Theorems about the job store, for any number of slots, any bounds and   *)
(* any interleaving of requests, passes, incomplete saves and reboots; and *)
(* about the store with the agent's queue and its turns, of which every    *)
(* step is one of the store or leaves it alone.                            *)
(***************************************************************************)
EXTENDS ScheduledTurns, TLAPS, WellFoundedInduction, FiniteSetTheorems

(***************************************************************************)
(* Numbers and slots.                                                      *)
(***************************************************************************)

(* A set of naturals has a least member.                                   *)
LEMMA LeastNat ==
  ASSUME NEW T \in SUBSET Nat, T # {}
  PROVE  \E x \in T : \A y \in T : x <= y
<1> DEFINE R == {p \in Nat \X Nat : p[1] < p[2]}
<1>1. IsWellFoundedOn(R, Nat)
  BY NatLessThanWellFounded DEF OpToRel
<1> HIDE DEF R
<1>2. PICK x \in T : \A y \in T : ~(<<y, x>> \in R)
  BY <1>1, WFMin
<1>3. ASSUME NEW y \in T
      PROVE  x <= y
  <2>1. x \in Nat /\ y \in Nat
    OBVIOUS
  <2>2. ~(<<y, x>> \in R)
    BY <1>2
  <2>3. ~(y < x)
    BY <2>1, <2>2 DEF R
  <2> QED BY <2>1, <2>3
<1> QED BY <1>3

(* free_slot and the pass pick a slot out of those they look for.          *)
LEMMA LeastSlot ==
  ASSUME NEW S \in SUBSET Slots, S # {}
  PROVE  Least(S) \in S
<1>1. S \in SUBSET Nat
  BY SchedulerAssumption DEF Slots
<1> QED BY <1>1, LeastNat DEF Least

(* missed_slot picks a free slot or a delivered one.                       *)
LEMMA MissedSlotRoom ==
  ASSUME missed \in [Slots -> Missed], MissedRoom
  PROVE  MissedSlot \in FreeMissed \cup DeliveredOnes
<1>1. FreeMissed \in SUBSET Slots /\ DeliveredOnes \in SUBSET Slots
  BY DEF FreeMissed, DeliveredOnes
<1>2. CASE FreeMissed # {}
  BY <1>1, <1>2, LeastSlot DEF MissedSlot
<1>3. CASE FreeMissed = {}
  <2> DEFINE Seqs == {missed[s].seq : s \in DeliveredOnes}
  <2>1. Seqs \in SUBSET Nat /\ Seqs # {}
    BY <1>1, <1>3 DEF MissedRoom, Missed
  <2>2. PICK x \in Seqs : \A y \in Seqs : x <= y
    BY <2>1, LeastNat
  <2>3. \E s \in DeliveredOnes :
          \A t \in DeliveredOnes : missed[s].seq <= missed[t].seq
    BY <2>2
  <2> QED BY <1>3, <2>3 DEF MissedSlot
<1> QED BY <1>2, <1>3

LEMMA MissedSlotInSlots ==
  ASSUME missed \in [Slots -> Missed], MissedRoom
  PROVE  MissedSlot \in Slots
BY MissedSlotRoom DEF FreeMissed, DeliveredOnes

LEMMA QuotientIsNat ==
  ASSUME NEW a \in Nat, NEW b \in Nat, b > 0
  PROVE  a \div b \in Nat
OBVIOUS

LEMMA ProductIsNat ==
  ASSUME NEW a \in Nat, NEW b \in Nat
  PROVE  a * b \in Nat
OBVIOUS

LEMMA ProductGrows ==
  ASSUME NEW a \in Nat, NEW b \in Nat, NEW c \in Nat, b <= c
  PROVE  a * b <= a * c /\ b * a <= a * c
<1>1. c - b \in Nat /\ c = b + (c - b)
  OBVIOUS
<1>2. a * c = a * b + a * (c - b)
  OBVIOUS
<1>3. a * (c - b) \in Nat /\ a * b \in Nat /\ b * a = a * b
  BY <1>1, ProductIsNat
<1> QED BY <1>2, <1>3

LEMMA QuotientBounds ==
  ASSUME NEW a \in Nat, NEW b \in Nat \ {0}
  PROVE  a \div b \in Nat /\ b * (a \div b) <= a /\ a < b * (a \div b + 1)
OBVIOUS

LEMMA SmallRemainder ==
  ASSUME NEW a \in Nat, NEW b \in Nat \ {0}, a < b
  PROVE  a % b = a
OBVIOUS

LEMMA NIsNat == N \in Nat \ {0}
BY SchedulerAssumption

LEMMA RepeatsAreNat == \A r \in Repeats : r \in Nat
BY SchedulerAssumption

LEMMA JobFields ==
  ASSUME NEW job \in Job
  PROVE  job.id \in Nat /\ job.due \in Nat /\ job.repeat \in Nat
BY RepeatsAreNat DEF Job

(* A job counts at least one occurrence.                                   *)
LEMMA OccurrencesPositive ==
  ASSUME NEW job \in Job, NEW t \in Nat
  PROVE  Occurrences(job, t) \in Nat \ {0}
<1>1. CASE job.repeat > 0 /\ job.due <= t
  <2>1. t - job.due \in Nat
    BY <1>1, JobFields
  <2>2. (t - job.due) \div job.repeat \in Nat
    BY <1>1, <2>1, JobFields, QuotientIsNat
  <2> QED BY <1>1, <2>2 DEF Occurrences
<1>2. CASE ~(job.repeat > 0 /\ job.due <= t)
  BY <1>2 DEF Occurrences
<1> QED BY <1>1, <1>2

(* A job that is on time counts one occurrence, a late one those up to t.  *)
LEMMA OccurrencesReach ==
  ASSUME NEW job \in Job, job.repeat > 0, NEW t \in Nat
  PROVE  /\ t < job.due + job.repeat * Occurrences(job, t)
         /\ job.due <= t => job.due + job.repeat * (Occurrences(job, t) - 1) <= t
         /\ t < job.due => Occurrences(job, t) = 1
<1> DEFINE late == t - job.due
           q    == late \div job.repeat
<1>1. job.due \in Nat /\ job.repeat \in Nat \ {0}
  BY JobFields
<1>2. CASE job.due <= t
  <2>1. late \in Nat
    BY <1>1, <1>2
  <2>2. q \in Nat /\ job.repeat * q <= late /\ late < job.repeat * (q + 1)
    BY <1>1, <2>1, QuotientBounds
  <2>3. Occurrences(job, t) = q + 1
    BY <1>1, <1>2, <2>2 DEF Occurrences
  <2> QED BY <1>1, <1>2, <2>2, <2>3
<1>3. CASE t < job.due
  <2>1. Occurrences(job, t) = 1
    BY <1>1, <1>3 DEF Occurrences
  <2> QED BY <1>1, <1>3, <2>1
<1> QED BY <1>1, <1>2, <1>3

(* k repeats take a time on by k periods, less the change of the clock if  *)
(* they take it across.                                                    *)
LEMMA RepeatedShape ==
  ASSUME NEW t \in Nat, NEW r \in Nat \ {0}, NEW k \in Nat \ {0}
  PROVE  \/ Repeated(t, r, k) = t + r * k
         \/ /\ OnCalendar(r) /\ Repeated(t, r, k) = t + r * k - ShiftBy
            /\ ClockSetBetween(t, Repeated(t, r, k))
<1>1. Day \in Nat \ {0} /\ ShiftAt \in Nat /\ ShiftBy \in Int
  BY LocalTimeAssumption
<1>2. t + k * r = t + r * k /\ r * k \in Nat
  BY ProductIsNat
<1>3. CASE ~(OnCalendar(r) /\ TakenAcross(t, r, k))
  BY <1>1, <1>2, <1>3 DEF Repeated
<1>4. CASE OnCalendar(r) /\ TakenAcross(t, r, k)
  <2>1. PICK j \in 1..k : t + (j - 1) * r < ShiftAt /\ t + j * r >= ShiftAt + ShiftBy
    BY <1>4 DEF TakenAcross
  <2>2. (j - 1) * r \in Nat /\ j * r \in Nat /\ j * r <= r * k
    BY <2>1, ProductIsNat, ProductGrows
  <2>3. t < ShiftAt /\ ShiftAt <= t + r * k - ShiftBy
    BY <1>1, <1>2, <2>1, <2>2
  <2>4. Repeated(t, r, k) = t + r * k - ShiftBy
    BY <1>1, <1>2, <1>4 DEF Repeated
  <2>5. ClockSetBetween(t, Repeated(t, r, k))
    BY <2>3, <2>4, Zenon DEF ClockSetBetween
  <2> QED BY <1>4, <2>4, <2>5
<1> QED BY <1>3, <1>4

(* Which a job on the calendar, of a day or more, is changed by less.      *)
LEMMA CalendarPeriods ==
  ASSUME NEW r \in Nat \ {0}, OnCalendar(r)
  PROVE  -r < ShiftBy /\ ShiftBy < r
<1>1. Day \in Nat \ {0} /\ ShiftBy \in Int /\ -Day < ShiftBy /\ ShiftBy < Day
  BY LocalTimeAssumption
<1>2. r % Day = 0
  BY DEF OnCalendar
<1>3. r < Day => r % Day = r
  BY <1>1, SmallRemainder
<1>4. r >= Day
  BY <1>1, <1>2, <1>3
<1> QED BY <1>1, <1>4

(* mp_scheduler_complete moves a job on to the first repeat after t, which *)
(* is the one it counted or the one before or after it.                    *)
LEMMA AdvancedStep ==
  ASSUME NEW job \in Job, job.repeat > 0, NEW t \in Nat
  PROVE  LET n == Occurrences(job, t)
         IN  \E k \in 1..(n + 1) :
               /\ AdvancedDue(job, t) = Repeated(job.due, job.repeat, k)
               /\ AdvancedDue(job, t) > t
               /\ k = n \/ OneOff(job, AdvancedDue(job, t), n, k)
<1> DEFINE n     == Occurrences(job, t)
           at(k) == Repeated(job.due, job.repeat, k)
           Past  == {k \in 1..(n + 1) : at(k) > t}
<1>1. /\ job.due \in Nat /\ job.repeat \in Nat \ {0} /\ n \in Nat \ {0} /\ n + 1 \in Nat \ {0}
      /\ ShiftBy \in Int
  BY JobFields, OccurrencesPositive, LocalTimeAssumption
<1>2. \A k \in Nat \ {0} : at(k) \in Int /\ job.repeat * k \in Nat
  <2> TAKE k \in Nat \ {0}
  <2>1. job.repeat * k \in Nat
    BY <1>1, ProductIsNat
  <2>2. at(k) = job.due + job.repeat * k \/ at(k) = job.due + job.repeat * k - ShiftBy
    BY <1>1, RepeatedShape
  <2> HIDE DEF at
  <2> QED BY <1>1, <2>1, <2>2
<1>3. job.due + job.repeat * n > t
  BY <1>1, OccurrencesReach
<1>4. job.repeat * (n + 1) = job.repeat * n + job.repeat
  BY <1>1
<1>5. n + 1 \in Past
  <2>1. \/ at(n + 1) = job.due + job.repeat * (n + 1)
        \/ OnCalendar(job.repeat) /\ at(n + 1) = job.due + job.repeat * (n + 1) - ShiftBy
    BY <1>1, RepeatedShape
  <2>2. at(n + 1) > t
    <3>1. job.repeat * n \in Nat
      BY <1>1, <1>2
    <3> HIDE DEF at, n
    <3>2. CASE at(n + 1) = job.due + job.repeat * (n + 1)
      BY <1>1, <1>3, <1>4, <3>1, <3>2
    <3>3. CASE OnCalendar(job.repeat) /\ at(n + 1) = job.due + job.repeat * (n + 1) - ShiftBy
      BY <1>1, <1>3, <1>4, <3>1, <3>3, CalendarPeriods
    <3> QED BY <2>1, <3>2, <3>3
  <2> QED BY <1>1, <2>2
<1>6. PICK k \in Past : /\ \A j \in Past : k <= j
                        /\ AdvancedDue(job, t) = at(k)
  <2>1. Past \in SUBSET Nat /\ Past # {}
    BY <1>1, <1>5
  <2>2. Least(Past) \in Past /\ \A j \in Past : Least(Past) <= j
    <3> HIDE DEF Past
    <3> QED BY <2>1, LeastNat DEF Least
  <2>3. AdvancedDue(job, t) = at(Least(Past))
    BY DEF AdvancedDue
  <2> QED BY <2>2, <2>3
<1>7. k \in 1..(n + 1) /\ at(k) > t /\ at(k) \in Int
  BY <1>1, <1>2, <1>6
<1>8. CASE k = n
  BY <1>6, <1>7, <1>8
<1>9. CASE k = n + 1
  <2>1. ~(at(n) > t)
    BY <1>1, <1>6, <1>9
  <2>2. /\ OnCalendar(job.repeat) /\ at(n) = job.due + job.repeat * n - ShiftBy
        /\ ClockSetBetween(job.due, at(n))
    BY <1>1, <1>3, <2>1, RepeatedShape
  <2>3. ClockSetBetween(job.due, at(k))
    BY <1>1, <1>2, <1>7, <2>1, <2>2, LocalTimeAssumption DEF ClockSetBetween
  <2> QED BY <1>1, <1>6, <1>7, <1>9, <2>2, <2>3 DEF OneOff
<1>10. CASE k < n
  <2>1. job.due <= t /\ job.due + job.repeat * (n - 1) <= t
    BY <1>1, <1>7, <1>10, OccurrencesReach
  <2>2. n - 1 \in Nat \ {0} /\ k \in Nat \ {0} /\ k <= n - 1
    BY <1>1, <1>7, <1>10
  <2>3. job.repeat * k <= job.repeat * (n - 1)
    BY <1>1, <2>2, ProductGrows
  <2>4. /\ OnCalendar(job.repeat) /\ at(k) = job.due + job.repeat * k - ShiftBy
        /\ ClockSetBetween(job.due, at(k))
    <3>1. \/ at(k) = job.due + job.repeat * k
          \/ /\ OnCalendar(job.repeat) /\ at(k) = job.due + job.repeat * k - ShiftBy
             /\ ClockSetBetween(job.due, at(k))
      BY <1>1, <2>2, RepeatedShape
    <3>2. at(k) # job.due + job.repeat * k
      <4>1. job.repeat * k \in Nat /\ job.repeat * (n - 1) \in Nat
        BY <1>2, <2>2
      <4> HIDE DEF at, n
      <4> QED BY <1>1, <1>7, <2>1, <2>3, <4>1
    <3> QED BY <3>1, <3>2
  <2>5. k = n - 1
    <3>1. SUFFICES ASSUME k # n - 1 PROVE FALSE
      OBVIOUS
    <3>2. k + 1 <= n - 1 /\ k + 1 \in Nat \ {0}
      BY <2>2, <3>1
    <3>3. job.repeat * (k + 1) <= job.repeat * (n - 1)
      BY <1>1, <2>2, <3>2, ProductGrows
    <3>4. job.repeat * (k + 1) = job.repeat * k + job.repeat /\ job.repeat * k \in Nat
          /\ job.repeat * (n - 1) \in Nat
      BY <1>1, <1>2, <2>2
    <3>5. -job.repeat < ShiftBy
      BY <1>1, <2>4, CalendarPeriods
    <3> HIDE DEF at, n
    <3> QED BY <1>1, <1>7, <2>1, <2>4, <3>3, <3>4, <3>5
  <2> QED BY <1>6, <1>7, <2>4, <2>5 DEF OneOff
<1>11. k < n \/ k = n \/ k = n + 1
  BY <1>1, <1>7
<1> QED BY <1>8, <1>9, <1>10, <1>11

LEMMA AdvancedDueIsTime ==
  ASSUME NEW job \in Job, job.repeat > 0, NEW t \in Nat
  PROVE  AdvancedDue(job, t) \in Nat
<1>1. job.due \in Nat /\ job.repeat \in Nat \ {0} /\ Occurrences(job, t) \in Nat
  BY JobFields, OccurrencesPositive
<1>2. PICK k \in 1..(Occurrences(job, t) + 1) :
        AdvancedDue(job, t) = Repeated(job.due, job.repeat, k) /\ AdvancedDue(job, t) > t
  BY AdvancedStep
<1>3. k \in Nat \ {0} /\ ShiftBy \in Int /\ job.repeat * k \in Nat
  BY <1>1, <1>2, LocalTimeAssumption, ProductIsNat
<1> DEFINE r == Repeated(job.due, job.repeat, k)
<1>4. \/ r = job.due + job.repeat * k
      \/ r = job.due + job.repeat * k - ShiftBy
  BY <1>1, <1>3, RepeatedShape
<1>5. r \in Int
  <2> HIDE DEF r
  <2> QED BY <1>1, <1>3, <1>4
<1> QED BY <1>2, <1>5

(***************************************************************************)
(* Type correctness.                                                       *)
(***************************************************************************)

(* What a save leaves in flash has the type of what is in RAM.             *)
LEMMA SavesTyped ==
  ASSUME FlashTypeOK, faults \in Nat, RamTypeOK',
         NEW w \in Written, NEW touched \in BOOLEAN,
         \/ SaveTouched(touched, w)
         \/ SaveBoth(w)
         \/ SaveMissed(Saved(w))
         \/ UNCHANGED <<flash, faults>>
  PROVE  FlashTypeOK' /\ faults' \in Nat
<1>1. /\ JobsBlob' \in [jobs : [Slots -> Job], nextId : Nat \ {0}]
      /\ MissedBlob' \in [missed : [Slots -> Missed], nextSeq : Nat \ {0}]
  BY DEF RamTypeOK, JobsBlob, MissedBlob
<1>2. ASSUME NEW done \in BOOLEAN, CountFault(done)
      PROVE  faults' \in Nat
  BY <1>2 DEF CountFault
<1>3. ASSUME NEW done \in BOOLEAN, SaveStore(done) \/ SaveMissed(done)
      PROVE  FlashTypeOK' /\ faults' \in Nat
  BY <1>1, <1>2, <1>3 DEF SaveStore, SaveMissed, FlashTypeOK
<1>4. ASSUME SaveBoth(w)
      PROVE  FlashTypeOK' /\ faults' \in Nat
  BY <1>1, <1>2, <1>4 DEF SaveBoth, Saved, FlashTypeOK
<1>5. CASE UNCHANGED <<flash, faults>>
  BY <1>5 DEF flash, FlashTypeOK
<1>6. Saved(w) \in BOOLEAN
  BY DEF Saved
<1> QED BY <1>3, <1>4, <1>5, <1>6 DEF SaveTouched

LEMMA EmptyTyped ==
  /\ EmptyJobs \in [Slots -> Job]
  /\ EmptyMissed \in [Slots -> Missed]
BY DEF EmptyJobs, EmptyMissed, NoJob, NoMissed, Job, Missed

LEMMA InitTyped == Init => TypeOK
<1> SUFFICES ASSUME Init
             PROVE  TypeOK
  OBVIOUS
<1>1. RamTypeOK
  BY EmptyTyped DEF Init, RamTypeOK
<1>2. FlashTypeOK
  BY EmptyTyped DEF Init, FlashTypeOK, JobsBlob, MissedBlob
<1>3. PassTypeOK
  <2>1. cursor \in 0..N
    BY NIsNat DEF Init
  <2>2. now \in Nat /\ passNow \in Nat /\ synced \in BOOLEAN
    BY DEF Init
  <2> QED BY <2>1, <2>2 DEF PassTypeOK
<1>4. HistoryTypeOK
  BY DEF Init, HistoryTypeOK
<1> QED BY <1>1, <1>2, <1>3, <1>4 DEF TypeOK

(* The updates of the missed history keep its type.                        *)
LEMMA CancelTyped ==
  ASSUME RamTypeOK, NEW id, CancelPending(id)
  PROVE  missed' \in [Slots -> Missed]
BY EmptyTyped DEF CancelPending, RamTypeOK, EmptyMissed

LEMMA DeliveredTyped ==
  ASSUME RamTypeOK, now \in Nat, NEW job \in Job, MarkDelivered(job)
  PROVE  missed' \in [Slots -> Missed]
<1>1. Occurrences(job, now) \in Nat
  BY OccurrencesPositive
<1>2. ASSUME NEW s \in Slots
      PROVE  /\ missed[s] \in Missed
             /\ missed[s].count \in Nat
  BY DEF RamTypeOK, Missed
<1> QED BY <1>1, <1>2 DEF MarkDelivered, Missed

LEMMA RecordTyped ==
  ASSUME RamTypeOK, passNow \in Nat, NEW i \in Slots,
         PendingOf(jobs[i].id) # {} \/ MissedRoom, RecordMissed(i)
  PROVE  missed' \in [Slots -> Missed] /\ nextSeq' \in Nat \ {0}
<1> DEFINE job == jobs[i]
           n   == Occurrences(job, passNow)
<1>1. job \in Job /\ n \in Nat
  BY OccurrencesPositive DEF RamTypeOK
<1>2. CASE PendingOf(job.id) # {}
  <2> HIDE DEF n
  <2>1. /\ missed' = [s \in Slots |->
               IF s \in PendingOf(job.id) /\ n > missed[s].count
               THEN [missed[s] EXCEPT !.count = n] ELSE missed[s]]
        /\ nextSeq' = nextSeq
    BY <1>2, Zenon DEF RecordMissed, n
  <2>2. ASSUME NEW s \in Slots
        PROVE  [missed[s] EXCEPT !.count = n] \in Missed /\ missed[s] \in Missed
    BY <1>1, <2>2 DEF RamTypeOK, Missed
  <2>3. missed' \in [Slots -> Missed]
    BY <2>1, <2>2
  <2> QED BY <2>1, <2>3 DEF RamTypeOK
<1>3. CASE PendingOf(job.id) = {}
  <2> DEFINE rec == [job |-> job.id, seq |-> nextSeq, count |-> n,
                     due |-> job.due, text |-> job.text, delivered |-> FALSE]
  <2>1. rec \in Missed
    BY <1>1 DEF Job, Missed, RamTypeOK
  <2>2. /\ missed' = [missed EXCEPT ![MissedSlot] = rec]
        /\ nextSeq' = nextSeq + 1
    BY <1>3, Zenon DEF RecordMissed
  <2> HIDE DEF rec
  <2>3. missed' \in [Slots -> Missed]
    BY <2>1, <2>2 DEF RamTypeOK
  <2>4. nextSeq' \in Nat \ {0}
    BY <2>2 DEF RamTypeOK
  <2> QED BY <2>3, <2>4
<1> QED BY <1>2, <1>3

LEMMA AddTyped ==
  ASSUME TypeOK, NEW w \in Written,
         NEW due \in Nat, NEW r \in Repeats, NEW t \in Texts,
         Add(due, r, t, w)
  PROVE  TypeOK'
<1> DEFINE slot == Least(Slots \ Active(jobs))
           new  == [id |-> nextId, due |-> due, repeat |-> r, text |-> t]
<1>1. new \in Job
  BY DEF TypeOK, RamTypeOK, Job
<1>2. jobs' = [jobs EXCEPT ![slot] = new] /\ nextId' = nextId + 1
  BY Zenon DEF Add
<1>3. RamTypeOK'
  <2> HIDE DEF new, slot
  <2>1. jobs' \in [Slots -> Job]
    BY <1>1, <1>2 DEF TypeOK, RamTypeOK
  <2>2. nextId' \in Nat \ {0}
    BY <1>2 DEF TypeOK, RamTypeOK
  <2> QED BY <2>1, <2>2 DEF Add, TypeOK, RamTypeOK
<1>4. FlashTypeOK' /\ faults' \in Nat
  BY <1>3, SavesTyped DEF TypeOK, HistoryTypeOK, Add
<1>5. HistoryTypeOK'
  BY <1>4 DEF TypeOK, RamTypeOK, HistoryTypeOK, Add, Acknowledge
<1>6. PassTypeOK'
  BY DEF TypeOK, PassTypeOK, Add, clock, pass
<1> QED BY <1>3, <1>4, <1>5, <1>6 DEF TypeOK

LEMMA RescheduleTyped ==
  ASSUME TypeOK, NEW w \in Written, NEW i \in Slots, NEW job \in Job,
         Reschedule(i, job, w)
  PROVE  TypeOK'
<1>1. missed' \in [Slots -> Missed]
  BY CancelTyped DEF TypeOK, Reschedule
<1>2. RamTypeOK'
  BY <1>1 DEF Reschedule, TypeOK, RamTypeOK
<1>3. FlashTypeOK' /\ faults' \in Nat
  BY <1>2, SavesTyped DEF TypeOK, HistoryTypeOK, Reschedule
<1>4. HistoryTypeOK'
  BY <1>3 DEF TypeOK, HistoryTypeOK, Reschedule, Acknowledge, Job
<1>5. PassTypeOK'
  BY DEF TypeOK, PassTypeOK, Reschedule, clock, pass
<1> QED BY <1>2, <1>3, <1>4, <1>5 DEF TypeOK

LEMMA DeleteTyped ==
  ASSUME TypeOK, NEW w \in Written, NEW i \in Slots, Delete(i, w)
  PROVE  TypeOK'
<1>1. missed' \in [Slots -> Missed]
  BY CancelTyped DEF TypeOK, Delete
<1>2. RamTypeOK'
  <2>1. NoJob \in Job
    BY DEF NoJob, Job
  <2> QED BY <1>1, <2>1 DEF Delete, TypeOK, RamTypeOK
<1>3. FlashTypeOK' /\ faults' \in Nat
  BY <1>2, SavesTyped DEF TypeOK, HistoryTypeOK, Delete
<1>4. HistoryTypeOK'
  BY <1>3 DEF TypeOK, RamTypeOK, HistoryTypeOK, Delete, Finish, Job
<1>5. PassTypeOK'
  BY DEF TypeOK, PassTypeOK, Delete, clock, pass
<1> QED BY <1>2, <1>3, <1>4, <1>5 DEF TypeOK

LEMMA ClearMissedTyped ==
  ASSUME TypeOK, NEW w \in Written, ClearMissed(w)
  PROVE  TypeOK'
<1>1. missed' \in [Slots -> Missed]
  BY EmptyTyped DEF TypeOK, RamTypeOK, ClearMissed, EmptyMissed
<1>2. RamTypeOK'
  BY <1>1 DEF ClearMissed, TypeOK, RamTypeOK
<1>3. FlashTypeOK' /\ faults' \in Nat
  BY <1>2, SavesTyped DEF TypeOK, HistoryTypeOK, ClearMissed
<1>4. HistoryTypeOK'
  BY <1>3 DEF TypeOK, HistoryTypeOK, ClearMissed, history
<1>5. PassTypeOK'
  BY DEF TypeOK, PassTypeOK, ClearMissed, clock, pass
<1> QED BY <1>2, <1>3, <1>4, <1>5 DEF TypeOK

LEMMA ResetTyped ==
  ASSUME TypeOK, NEW w \in Written, Reset(w)
  PROVE  TypeOK'
<1>1. RamTypeOK'
  BY EmptyTyped DEF Reset, TypeOK, RamTypeOK
<1>2. FlashTypeOK' /\ faults' \in Nat
  BY <1>1, SavesTyped DEF TypeOK, HistoryTypeOK, Reset
<1>3. HistoryTypeOK'
  BY <1>2 DEF TypeOK, HistoryTypeOK, Reset
<1>4. PassTypeOK'
  BY DEF TypeOK, PassTypeOK, Reset, clock, pass
<1> QED BY <1>1, <1>2, <1>3, <1>4 DEF TypeOK

LEMMA CompleteFailedTyped ==
  ASSUME TypeOK, NEW i \in Slots, CompleteFailed(i)
  PROVE  TypeOK'
<1>1. now + RetryAfter \in Nat
  BY SchedulerAssumption DEF TypeOK, PassTypeOK
<1>2. RamTypeOK'
  BY <1>1 DEF CompleteFailed, TypeOK, RamTypeOK
<1>3. FlashTypeOK' /\ HistoryTypeOK' /\ PassTypeOK'
  BY DEF TypeOK, FlashTypeOK, HistoryTypeOK, PassTypeOK, CompleteFailed,
         clock, flash, pass, history
<1> QED BY <1>2, <1>3 DEF TypeOK

LEMMA CompleteDoneTyped ==
  ASSUME TypeOK, NEW w \in Written, NEW i \in Slots, CompleteDone(i, w)
  PROVE  TypeOK'
<1>1. jobs[i] \in Job /\ now \in Nat
  BY DEF TypeOK, RamTypeOK, PassTypeOK
<1>2. missed' \in [Slots -> Missed]
  BY <1>1, DeliveredTyped DEF TypeOK, CompleteDone
<1>3. /\ NoJob \in Job
      /\ jobs[i].repeat # 0 => [jobs[i] EXCEPT !.due = AdvancedDue(jobs[i], now)] \in Job
  BY <1>1, JobFields, AdvancedDueIsTime DEF NoJob, Job
<1>4. RamTypeOK'
  BY <1>2, <1>3 DEF CompleteDone, TypeOK, RamTypeOK
<1>5. FlashTypeOK' /\ faults' \in Nat
  BY <1>4, SavesTyped DEF TypeOK, HistoryTypeOK, CompleteDone
<1>6. HistoryTypeOK'
  BY <1>1, <1>5 DEF TypeOK, HistoryTypeOK, CompleteDone, Finish, Acknowledge,
                    Job
<1>7. PassTypeOK'
  BY DEF TypeOK, PassTypeOK, CompleteDone, clock, pass
<1> QED BY <1>4, <1>5, <1>6, <1>7 DEF TypeOK

LEMMA MoveOnTyped ==
  ASSUME PassTypeOK, MoveOn
  PROVE  PassTypeOK'
<1>1. CASE DueAfter(cursor) = {}
  BY <1>1, NIsNat DEF MoveOn, PassTypeOK, clock
<1>2. CASE DueAfter(cursor) # {}
  <2>1. Least(DueAfter(cursor)) \in Slots
    BY <1>2, LeastSlot DEF DueAfter
  <2>2. Slots \subseteq 0..N
    BY NIsNat DEF Slots
  <2> QED BY <1>2, <2>1, <2>2 DEF MoveOn, PassTypeOK, clock
<1> QED BY <1>1, <1>2

LEMMA PassUnmarkedTyped ==
  ASSUME TypeOK, PassUnmarked
  PROVE  TypeOK'
<1>1. cursor \in Slots /\ passNow + RetryAfter \in Nat
  BY SchedulerAssumption, NIsNat DEF PassUnmarked, TypeOK, PassTypeOK, Slots
<1>2. missed' \in [Slots -> Missed] /\ nextSeq' \in Nat \ {0}
  BY <1>1, RecordTyped
     DEF PassUnmarked, MarkMissed, TypeOK, RamTypeOK, PassTypeOK
<1>3. RamTypeOK'
  BY <1>1, <1>2 DEF PassUnmarked, Postpone, TypeOK, RamTypeOK
<1>4. \/ UNCHANGED <<flash, faults>>
      \/ SaveMissed(FALSE)
  BY DEF PassUnmarked, MarkMissed, flash
<1>5. "none" \in Written /\ Saved("none") = FALSE
  BY DEF Written, Saved
<1>6. FlashTypeOK' /\ faults' \in Nat
  BY <1>3, <1>4, <1>5, SavesTyped DEF TypeOK, HistoryTypeOK
<1>7. PassTypeOK' /\ HistoryTypeOK'
  BY <1>6, MoveOnTyped
     DEF TypeOK, HistoryTypeOK, PassUnmarked, MoveOn, history
<1> QED BY <1>3, <1>6, <1>7 DEF TypeOK

LEMMA PassEmitTyped ==
  ASSUME TypeOK, NEW taken \in BOOLEAN, PassEmit(taken)
  PROVE  TypeOK'
<1>1. cursor \in Slots /\ passNow + RetryAfter \in Nat
  BY SchedulerAssumption, NIsNat DEF PassEmit, TypeOK, PassTypeOK, Slots
<1>2. missed' \in [Slots -> Missed] /\ nextSeq' \in Nat \ {0}
  BY <1>1, RecordTyped
     DEF PassEmit, MarkMissed, TypeOK, RamTypeOK, PassTypeOK
<1>3. RamTypeOK'
  BY <1>1, <1>2 DEF PassEmit, Postpone, TypeOK, RamTypeOK
<1>4. \/ UNCHANGED <<flash, faults>>
      \/ SaveMissed(TRUE)
  BY DEF PassEmit, MarkMissed, flash
<1>5. "both" \in Written /\ Saved("both") = TRUE
  BY DEF Written, Saved
<1>6. FlashTypeOK' /\ faults' \in Nat
  BY <1>3, <1>4, <1>5, SavesTyped DEF TypeOK, HistoryTypeOK
<1>7. PassTypeOK' /\ HistoryTypeOK'
  BY <1>6, MoveOnTyped
     DEF TypeOK, HistoryTypeOK, PassEmit, MoveOn, history
<1> QED BY <1>3, <1>6, <1>7 DEF TypeOK

LEMMA EnvironmentTyped ==
  ASSUME TypeOK, Environment
  PROVE  TypeOK'
<1>1. CASE Tick \/ SyncClock
  <2>1. now' \in Nat /\ UNCHANGED pass
    BY <1>1 DEF Tick, SyncClock, TypeOK, PassTypeOK
  <2>2. synced' \in BOOLEAN
    BY <1>1 DEF Tick, SyncClock, TypeOK, PassTypeOK
  <2>3. UNCHANGED <<ram, flash, faults, reboots, history>>
    BY <1>1 DEF Tick, SyncClock
  <2> QED BY <2>1, <2>2, <2>3
             DEF TypeOK, RamTypeOK, FlashTypeOK, PassTypeOK, HistoryTypeOK,
                 ram, flash, pass, history
<1>2. CASE Reboot
  <2>1. RamTypeOK'
    BY <1>2 DEF Reboot, TypeOK, RamTypeOK, FlashTypeOK
  <2>2. PassTypeOK'
    <3>1. now' \in Nat /\ passNow' \in Nat /\ synced' \in BOOLEAN
      BY <1>2 DEF Reboot, TypeOK, PassTypeOK
    <3>2. cursor' \in 0..N
      BY <1>2, NIsNat DEF Reboot
    <3> QED BY <3>1, <3>2 DEF PassTypeOK
  <2>3. FlashTypeOK' /\ HistoryTypeOK'
    BY <1>2 DEF Reboot, TypeOK, FlashTypeOK, HistoryTypeOK, flash, history
  <2> QED BY <2>1, <2>2, <2>3 DEF TypeOK
<1> QED BY <1>1, <1>2 DEF Environment

LEMMA StepTyped == TypeOK /\ [Next]_vars => TypeOK'
<1> SUFFICES ASSUME TypeOK, [Next]_vars
             PROVE  TypeOK'
  OBVIOUS
<1>1. ASSUME NEW w \in Written, JobRequest(w)
      PROVE  TypeOK'
  <2>1. \A d \in SoonerThan(MaxDelay) : d \in Nat
    BY SchedulerAssumption DEF SoonerThan, TypeOK, PassTypeOK
  <2>2. CASE \E due \in SoonerThan(MaxDelay), r \in Repeats, t \in Texts :
               Add(due, r, t, w)
    BY <2>1, <2>2, AddTyped
  <2>3. CASE \E i \in Slots, due \in SoonerThan(MaxDelay), r \in Repeats,
                t \in Texts : Update(i, due, r, t, w)
    <3>1. PICK i \in Slots, due \in SoonerThan(MaxDelay), r \in Repeats,
               t \in Texts : Update(i, due, r, t, w)
      BY <2>3
    <3>2. [id |-> jobs[i].id, due |-> due, repeat |-> r, text |-> t] \in Job
      BY <2>1 DEF TypeOK, RamTypeOK, Job
    <3> QED BY <3>1, <3>2, RescheduleTyped DEF Update
  <2>4. CASE \E i \in Slots, due \in SoonerThan(MaxDelay) : Snooze(i, due, w)
    <3>1. PICK i \in Slots, due \in SoonerThan(MaxDelay) : Snooze(i, due, w)
      BY <2>4
    <3>2. [jobs[i] EXCEPT !.due = due] \in Job
      BY <2>1 DEF TypeOK, RamTypeOK, Job
    <3> QED BY <3>1, <3>2, RescheduleTyped DEF Snooze
  <2>5. CASE \E i \in Slots : Delete(i, w)
    BY <2>5, DeleteTyped
  <2>6. CASE ClearMissed(w)
    BY <2>6, ClearMissedTyped
  <2> QED BY <1>1, <2>2, <2>3, <2>4, <2>5, <2>6 DEF JobRequest
<1>2. ASSUME NEW w \in Written, Outcome(w)
      PROVE  TypeOK'
  BY <1>2, CompleteFailedTyped, CompleteDoneTyped DEF Outcome
<1>3. CASE Pass
  <2>1. CASE PassStart
    BY <2>1 DEF PassStart, TypeOK, RamTypeOK, FlashTypeOK, PassTypeOK,
                HistoryTypeOK, clock, ram, flash, history
  <2>2. CASE PassLock
    <3>1. PassTypeOK'
      BY <2>2, MoveOnTyped DEF PassLock, TypeOK
    <3> QED BY <2>2, <3>1 DEF PassLock, MoveOn, TypeOK, RamTypeOK, FlashTypeOK,
                              HistoryTypeOK, ram, flash, history
  <2> QED BY <1>3, <2>1, <2>2, PassUnmarkedTyped, PassEmitTyped DEF Pass
<1>4. CASE UNCHANGED vars
  BY <1>4 DEF vars, clock, ram, flash, pass, history, TypeOK, RamTypeOK,
              FlashTypeOK, PassTypeOK, HistoryTypeOK
<1> QED BY <1>1, <1>2, <1>3, <1>4, EnvironmentTyped, ResetTyped DEF Next

(* Every variable keeps its type, in every instance of the store.          *)
THEOREM TypeCorrect == Spec => []TypeOK
BY InitTyped, StepTyped, PTL DEF Spec

(***************************************************************************)
(* Marks of idle slots.  The slot a pass stands at is due, so the job it   *)
(* puts in flight exists; no request changes that, for the pass holds the  *)
(* lock.                                                                   *)
(***************************************************************************)

CursorDue == cursor # 0 => Due(cursor)

MarksInv == TypeOK /\ IdleSlotsClean /\ CursorDue

LEMMA DueSlot ==
  ASSUME MoveOn, cursor' # 0
  PROVE  cursor' \in Slots /\ cursor' # cursor /\ Due(cursor')
<1>1. DueAfter(cursor) # {} /\ cursor' = Least(DueAfter(cursor))
  BY DEF MoveOn
<1>2. cursor' \in DueAfter(cursor)
  BY <1>1, LeastSlot DEF DueAfter
<1>3. cursor' \in Int /\ cursor' > cursor
  BY <1>2, NIsNat DEF DueAfter, Slots
<1> QED BY <1>2, <1>3 DEF DueAfter

LEMMA MarksStep ==
  ASSUME MarksInv, [Next]_vars
  PROVE  IdleSlotsClean' /\ CursorDue'
<1> USE DEF MarksInv
<1>1. ASSUME cursor = 0, UNCHANGED cursor, IdleSlotsClean'
      PROVE  IdleSlotsClean' /\ CursorDue'
  BY <1>1 DEF CursorDue
<1>2. ASSUME NEW w \in Written, JobRequest(w)
      PROVE  IdleSlotsClean' /\ CursorDue'
  <2>1. ASSUME NEW due, NEW r, NEW t, Add(due, r, t, w)
        PROVE  cursor = 0 /\ cursor' = cursor /\ IdleSlotsClean'
    <3> DEFINE slot == Least(Slots \ Active(jobs))
    <3>1. slot \in Slots /\ slot \notin Active(jobs)
      BY <2>1, LeastSlot DEF Add, Active
    <3>2. \A k \in Slots : k # slot => jobs'[k] = jobs[k]
      BY <2>1 DEF Add, TypeOK, RamTypeOK
    <3>3. jobs'[slot].id = nextId /\ nextId # 0
      BY <2>1, <3>1 DEF Add, TypeOK, RamTypeOK
    <3>4. UNCHANGED <<inflight, retry, cursor>> /\ cursor = 0
      BY <2>1 DEF Add, pass
    <3> QED BY <3>2, <3>3, <3>4 DEF IdleSlotsClean, Active
  <2>2. ASSUME NEW i \in Slots, NEW job, job.id = jobs[i].id,
               Reschedule(i, job, w)
        PROVE  cursor = 0 /\ cursor' = cursor /\ IdleSlotsClean'
    BY <2>2 DEF Reschedule, pass, IdleSlotsClean, Active, TypeOK, RamTypeOK
  <2>3. ASSUME NEW i \in Slots, NEW due, NEW r, NEW t, Update(i, due, r, t, w)
        PROVE  cursor = 0 /\ cursor' = cursor /\ IdleSlotsClean'
    BY <2>2, <2>3 DEF Update
  <2>4. ASSUME NEW i \in Slots, NEW due, Snooze(i, due, w)
        PROVE  cursor = 0 /\ cursor' = cursor /\ IdleSlotsClean'
    <3>1. [jobs[i] EXCEPT !.due = due].id = jobs[i].id
      BY DEF TypeOK, RamTypeOK, Job
    <3> QED BY <2>2, <2>4, <3>1 DEF Snooze
  <2>5. ASSUME NEW i \in Slots, Delete(i, w)
        PROVE  cursor = 0 /\ cursor' = cursor /\ IdleSlotsClean'
    BY <2>5 DEF Delete, pass, IdleSlotsClean, Active, TypeOK, RamTypeOK, NoJob
  <2>6. ASSUME ClearMissed(w)
        PROVE  cursor = 0 /\ cursor' = cursor /\ IdleSlotsClean'
    BY <2>6 DEF ClearMissed, pass, IdleSlotsClean, Active
  <2> QED BY <1>1, <1>2, <2>1, <2>3, <2>4, <2>5, <2>6 DEF JobRequest
<1>3. ASSUME NEW w \in Written, Reset(w)
      PROVE  IdleSlotsClean' /\ CursorDue'
  BY <1>1, <1>3 DEF Reset, pass, IdleSlotsClean, Active
<1>4. ASSUME NEW w \in Written, NEW i \in Slots,
             CompleteFailed(i) \/ CompleteDone(i, w)
      PROVE  IdleSlotsClean' /\ CursorDue'
  <2>1. CASE CompleteFailed(i)
    BY <1>1, <2>1 DEF CompleteFailed, pass, IdleSlotsClean, Active, TypeOK,
                      RamTypeOK
  <2>2. CASE CompleteDone(i, w)
    <3>1. \A k \in Slots : k # i => jobs'[k] = jobs[k] /\ retry'[k] = retry[k]
      BY <2>2 DEF CompleteDone, TypeOK, RamTypeOK
    <3>2. retry'[i] = 0 /\ inflight' = inflight \ {i}
      BY <2>2 DEF CompleteDone, TypeOK, RamTypeOK
    <3>3. IdleSlotsClean'
      BY <3>1, <3>2 DEF IdleSlotsClean, Active
    <3> QED BY <1>1, <2>2, <3>3 DEF CompleteDone, pass
  <2> QED BY <1>4, <2>1, <2>2
<1>5. CASE Pass
  <2>1. CASE PassStart
    BY <1>1, <2>1 DEF PassStart, ram, IdleSlotsClean, Active
  <2>2. ASSUME MoveOn, UNCHANGED jobs,
               cursor' # 0 => passNow' = passNow,
               \A k \in Slots : k # cursor =>
                  /\ k \in inflight' <=> k \in inflight
                  /\ retry'[k] = retry[k],
               cursor = 0 => UNCHANGED <<inflight, retry>>
        PROVE  IdleSlotsClean' /\ CursorDue'
    <3>1. CursorDue'
      BY <2>2, DueSlot DEF CursorDue, Due, Active
    <3>2. cursor \in Slots => cursor \in Active(jobs)
      BY NIsNat DEF CursorDue, Due, Slots
    <3>3. IdleSlotsClean'
      BY <2>2, <3>2 DEF IdleSlotsClean, Active
    <3> QED BY <3>1, <3>3
  <2>3. MoveOn => (cursor' # 0 => passNow' = passNow)
    BY DEF MoveOn
  <2>4. CASE PassLock
    BY <2>2, <2>3, <2>4 DEF PassLock, ram, MoveOn
  <2>5. CASE PassUnmarked
    BY <2>2, <2>3, <2>5 DEF PassUnmarked, Postpone, MoveOn, TypeOK, RamTypeOK
  <2>6. ASSUME NEW taken \in BOOLEAN, PassEmit(taken)
        PROVE  IdleSlotsClean' /\ CursorDue'
    BY <2>2, <2>3, <2>6 DEF PassEmit, Postpone, MoveOn, TypeOK, RamTypeOK
  <2> QED BY <1>5, <2>1, <2>4, <2>5, <2>6 DEF Pass
<1>6. CASE Tick \/ SyncClock
  BY <1>6 DEF Tick, SyncClock, ram, pass, IdleSlotsClean, CursorDue, Active, Due
<1>7. CASE Reboot
  BY <1>7 DEF Reboot, IdleSlotsClean, CursorDue
<1>8. CASE UNCHANGED vars
  BY <1>8 DEF vars, ram, pass, IdleSlotsClean, CursorDue, Active, Due
<1> QED BY <1>2, <1>3, <1>4, <1>5, <1>6, <1>7, <1>8
           DEF Next, Environment, Outcome

(* Only a job that exists is in flight or waits for a retry.               *)
THEOREM IdleSlotsStayClean == Spec => []IdleSlotsClean
<1>1. Init => MarksInv
  BY InitTyped DEF MarksInv, Init, IdleSlotsClean, CursorDue
<1>2. MarksInv /\ [Next]_vars => MarksInv'
  BY StepTyped, MarksStep DEF MarksInv
<1>3. MarksInv => IdleSlotsClean
  BY DEF MarksInv
<1> QED BY <1>1, <1>2, <1>3, PTL DEF Spec

(***************************************************************************)
(* Ids, acknowledged jobs and finished jobs.  Three facts carry each other *)
(* through failed saves and reboots: ids in RAM and in flash stay below    *)
(* the counter stored beside them, an acknowledged job is the same in RAM  *)
(* and in flash, and an id that was finished lies below both counters, so  *)
(* that no new job gets it.                                                *)
(***************************************************************************)

FinishedUsed ==
  \A id \in finished : id # 0 /\ id < nextId /\ id < fJobs.nextId

StoreInv == /\ TypeOK
            /\ JobIdsUnique
            /\ PromisedStored
            /\ FinishedGone
            /\ FinishedUsed

StoreVars == <<jobs, nextId, fJobs, promised, finished>>

LEMMA StoreUnchanged ==
  ASSUME StoreInv, UNCHANGED StoreVars, TypeOK'
  PROVE  StoreInv'
BY DEF StoreInv, StoreVars, JobIdsUnique, DistinctIds, PromisedStored,
       FinishedGone, FinishedUsed, Ids, Active

(* A save writes the job blob as it is in RAM, or leaves flash alone and   *)
(* reports that it failed.                                                 *)
LEMMA JobsSaved ==
  ASSUME NEW w \in Written, NEW touched \in BOOLEAN,
         SaveTouched(touched, w) \/ SaveBoth(w)
  PROVE  \/ fJobs' = JobsBlob'
         \/ fJobs' = fJobs /\ ~Saved(w)
BY DEF SaveTouched, SaveBoth, SaveStore, SaveMissed, Saved, Written

(* Whatever a step does to one slot, it keeps the invariant when the ids   *)
(* stay distinct and below the counter, when it acknowledges at most the   *)
(* job of that slot and only when it saved, and when what it finishes is   *)
(* gone from a saved store.                                                *)
LEMMA SlotStep ==
  ASSUME StoreInv, TypeOK', NEW i \in Slots, NEW w \in Written,
         \A k \in Slots : k # i => jobs'[k] = jobs[k],
         DistinctIds(jobs', nextId'),
         nextId' >= nextId,
         \/ fJobs' = JobsBlob'
         \/ fJobs' = fJobs /\ ~Saved(w),
         jobs[i].id \notin promised' \/ jobs'[i].id = jobs[i].id,
         promised' \in SUBSET (promised \cup {jobs'[i].id}),
         jobs'[i].id \in promised' => jobs'[i].id # 0 /\ Saved(w),
         finished \in SUBSET finished',
         finished' \in SUBSET (finished \cup {jobs[i].id}),
         jobs'[i].id \notin finished,
         jobs[i].id \in finished' \ finished =>
           Saved(w) /\ jobs'[i].id = 0 /\ jobs[i].id # 0
  PROVE  StoreInv'
<1>1. /\ jobs \in [Slots -> Job] /\ jobs' \in [Slots -> Job]
      /\ nextId \in Nat /\ nextId' \in Nat
      /\ fJobs.jobs \in [Slots -> Job] /\ fJobs.nextId \in Nat
      /\ promised \in SUBSET Nat /\ finished \in SUBSET Nat
  BY DEF StoreInv, TypeOK, RamTypeOK, FlashTypeOK, HistoryTypeOK
<1>2. \A k \in Slots : jobs[k].id \in Nat /\ jobs'[k].id \in Nat
  BY <1>1 DEF Job
<1>3. DistinctIds(jobs, nextId) /\ DistinctIds(fJobs.jobs, fJobs.nextId)
  BY DEF StoreInv, JobIdsUnique
<1>4. JobsBlob'.jobs = jobs' /\ JobsBlob'.nextId = nextId'
  BY DEF JobsBlob
<1>5. JobIdsUnique'
  BY <1>3, <1>4 DEF JobIdsUnique
<1>6. PromisedStored'
  <2>1. promised' \in SUBSET Ids(jobs')
    <3>1. ASSUME NEW p \in promised', p # jobs'[i].id
          PROVE  p \in Ids(jobs')
      <4>1. p \in promised
        BY <3>1
      <4>2. PICK k \in Active(jobs) : jobs[k].id = p
        BY <4>1 DEF StoreInv, PromisedStored, Ids
      <4>3. k # i
        BY <3>1, <4>2
      <4> QED BY <4>2, <4>3 DEF Ids, Active
    <3> QED BY <3>1 DEF Ids, Active
  <2>2. ASSUME NEW k \in Active(jobs'), jobs'[k].id \in promised'
        PROVE  fJobs'.jobs[k] = jobs'[k]
    <3>1. CASE fJobs' = JobsBlob'
      BY <3>1, <1>4
    <3>2. CASE fJobs' = fJobs /\ ~Saved(w)
      <4>1. jobs'[i].id \notin promised'
        BY <3>2
      <4>2. k # i /\ jobs'[k].id \in promised
        BY <2>2, <4>1
      <4> QED BY <2>2, <3>2, <4>2 DEF StoreInv, PromisedStored, Active
    <3> QED BY <3>1, <3>2
  <2> QED BY <2>1, <2>2 DEF PromisedStored
<1>7. FinishedGone'
  <2>1. ASSUME NEW k \in Slots, jobs'[k].id # 0
        PROVE  jobs'[k].id \notin finished'
    <3>1. CASE k = i
      BY <2>1, <3>1
    <3>2. CASE k # i
      <4>1. jobs'[k].id = jobs[k].id /\ k \in Active(jobs)
        BY <2>1, <3>2 DEF Active
      <4>2. jobs[k].id \notin finished
        BY <4>1 DEF StoreInv, FinishedGone, Ids
      <4>3. jobs[i].id # 0 => jobs[k].id # jobs[i].id
        BY <1>3, <3>2, <4>1 DEF DistinctIds, Active
      <4> QED BY <4>1, <4>2, <4>3
    <3> QED BY <3>1, <3>2
  <2>2. ASSUME NEW k \in Slots, fJobs'.jobs[k].id # 0
        PROVE  fJobs'.jobs[k].id \notin finished'
    <3>1. CASE fJobs' = JobsBlob'
      BY <1>4, <2>1, <2>2, <3>1
    <3>2. CASE fJobs' = fJobs /\ ~Saved(w)
      <4>1. finished' = finished
        BY <3>2
      <4> QED BY <2>2, <3>2, <4>1 DEF StoreInv, FinishedGone, Ids, Active
    <3> QED BY <3>1, <3>2
  <2> QED BY <2>1, <2>2 DEF FinishedGone, Ids, Active
<1>8. FinishedUsed'
  <2>1. ASSUME NEW id \in finished'
        PROVE  id # 0 /\ id < nextId' /\ id < fJobs'.nextId
    <3>1. CASE id \in finished
      <4>1. id # 0 /\ id < nextId /\ id < fJobs.nextId /\ id \in Nat
        BY <1>1, <3>1 DEF StoreInv, FinishedUsed
      <4> QED BY <1>1, <1>4, <4>1
    <3>2. CASE id \notin finished
      <4>1. id = jobs[i].id /\ Saved(w) /\ i \in Active(jobs)
        BY <3>2 DEF Active
      <4>2. id # 0 /\ id < nextId /\ fJobs'.nextId = nextId'
        BY <1>3, <1>4, <4>1 DEF DistinctIds, Active
      <4> QED BY <1>1, <1>2, <4>1, <4>2
    <3> QED BY <3>1, <3>2
  <2> QED BY <2>1 DEF FinishedUsed
<1> QED BY <1>5, <1>6, <1>7, <1>8 DEF StoreInv

LEMMA StoreFacts ==
  ASSUME StoreInv
  PROVE  /\ \A k \in Slots : jobs[k] \in Job /\ jobs[k].id \in Nat
         /\ nextId \in Nat \ {0}
         /\ DistinctIds(jobs, nextId)
         /\ 0 \notin promised
         /\ \A k \in Active(jobs) : jobs[k].id \notin finished
         /\ nextId \notin finished
<1>1. /\ \A k \in Slots : jobs[k] \in Job /\ jobs[k].id \in Nat
      /\ nextId \in Nat \ {0}
      /\ DistinctIds(jobs, nextId)
      /\ \A k \in Active(jobs) : jobs[k].id \notin finished
  BY DEF StoreInv, TypeOK, RamTypeOK, Job, JobIdsUnique, FinishedGone, Ids
<1>2. 0 \notin promised
  BY DEF StoreInv, PromisedStored, Ids, Active
<1>3. nextId \notin finished
  BY <1>1 DEF StoreInv, FinishedUsed
<1> QED BY <1>1, <1>2, <1>3

LEMMA AddStore ==
  ASSUME StoreInv, TypeOK', NEW w \in Written, NEW due, NEW r, NEW t,
         Add(due, r, t, w)
  PROVE  StoreInv'
<1> DEFINE slot == Least(Slots \ Active(jobs))
<1>1. slot \in Slots /\ jobs[slot].id = 0
  BY LeastSlot DEF Add, Active
<1>2. \A k \in Slots : k # slot => jobs'[k] = jobs[k]
  BY DEF Add, StoreInv, TypeOK, RamTypeOK
<1>3. jobs'[slot].id = nextId /\ nextId' = nextId + 1
  BY <1>1 DEF Add, StoreInv, TypeOK, RamTypeOK
<1>4. DistinctIds(jobs', nextId')
  <2> HIDE DEF slot
  <2>1. \A k \in Slots : k # slot /\ jobs'[k].id # 0 =>
           jobs'[k].id = jobs[k].id /\ jobs[k].id < nextId
    BY <1>2, StoreFacts DEF DistinctIds, Active
  <2>2. \A k, l \in Slots : k # slot /\ l # slot /\ jobs'[k].id # 0
                            /\ jobs'[k].id = jobs'[l].id => k = l
    BY <1>2, StoreFacts DEF DistinctIds, Active
  <2>3. /\ nextId < nextId' /\ nextId # 0
        /\ \A k \in Slots : jobs[k].id < nextId => jobs[k].id < nextId'
        /\ \A k \in Slots : jobs[k].id < nextId => jobs[k].id # nextId
    BY <1>3, StoreFacts
  <2> QED BY <1>3, <2>1, <2>2, <2>3 DEF DistinctIds, Active
<1>5. promised' = IF Saved(w) THEN promised \cup {nextId} ELSE promised \ {nextId}
  BY DEF Add, Acknowledge
<1>6. finished' = finished
  BY DEF Add
<1>7. \/ fJobs' = JobsBlob'
      \/ fJobs' = fJobs /\ ~Saved(w)
  BY JobsSaved DEF Add
<1> HIDE DEF slot
<1> QED BY <1>1, <1>2, <1>3, <1>4, <1>5, <1>6, <1>7, StoreFacts, SlotStep

LEMMA RescheduleStore ==
  ASSUME StoreInv, TypeOK', NEW w \in Written, NEW i \in Slots, NEW job,
         job.id = jobs[i].id, Reschedule(i, job, w)
  PROVE  StoreInv'
<1>1. jobs[i].id # 0 /\ i \in Active(jobs)
  BY DEF Reschedule, Active
<1>2. /\ \A k \in Slots : k # i => jobs'[k] = jobs[k]
      /\ jobs'[i].id = jobs[i].id
  BY DEF Reschedule, StoreInv, TypeOK, RamTypeOK
<1>3. DistinctIds(jobs', nextId') /\ nextId' = nextId
  BY <1>2, StoreFacts DEF DistinctIds, Active, Reschedule
<1>4. /\ promised' = IF Saved(w) THEN promised \cup {jobs[i].id}
                                 ELSE promised \ {jobs[i].id}
      /\ finished' = finished
  BY DEF Reschedule, Acknowledge
<1>5. \/ fJobs' = JobsBlob'
      \/ fJobs' = fJobs /\ ~Saved(w)
  BY JobsSaved DEF Reschedule
<1> QED BY <1>1, <1>2, <1>3, <1>4, <1>5, StoreFacts, SlotStep

LEMMA DeleteStore ==
  ASSUME StoreInv, TypeOK', NEW w \in Written, NEW i \in Slots, Delete(i, w)
  PROVE  StoreInv'
<1>1. jobs[i].id # 0 /\ i \in Active(jobs)
  BY DEF Delete, Active
<1>2. /\ \A k \in Slots : k # i => jobs'[k] = jobs[k]
      /\ jobs'[i].id = 0
  BY DEF Delete, StoreInv, TypeOK, RamTypeOK, NoJob
<1>3. DistinctIds(jobs', nextId') /\ nextId' = nextId
  BY <1>2, StoreFacts DEF DistinctIds, Active, Delete
<1>4. /\ promised' = promised \ {jobs[i].id}
      /\ finished' = IF Saved(w) THEN finished \cup {jobs[i].id} ELSE finished
  BY DEF Delete, Finish
<1>5. \/ fJobs' = JobsBlob'
      \/ fJobs' = fJobs /\ ~Saved(w)
  BY JobsSaved DEF Delete
<1>6. 0 \notin finished
  BY DEF StoreInv, FinishedUsed
<1> QED BY <1>1, <1>2, <1>3, <1>4, <1>5, <1>6, StoreFacts, SlotStep

LEMMA CompleteDoneStore ==
  ASSUME StoreInv, TypeOK', NEW w \in Written, NEW i \in Slots,
         CompleteDone(i, w)
  PROVE  StoreInv'
<1>1. jobs[i].id # 0 /\ i \in Active(jobs)
  BY DEF CompleteDone, Active
<1>2. \A k \in Slots : k # i => jobs'[k] = jobs[k]
  BY DEF CompleteDone, StoreInv, TypeOK, RamTypeOK
<1>3. \/ /\ jobs'[i].id = 0
         /\ promised' = promised \ {jobs[i].id}
         /\ finished' = IF Saved(w) THEN finished \cup {jobs[i].id} ELSE finished
      \/ /\ jobs'[i].id = jobs[i].id
         /\ promised' = IF Saved(w) THEN promised \cup {jobs[i].id}
                                    ELSE promised \ {jobs[i].id}
         /\ finished' = finished
  <2>1. CASE jobs[i].repeat = 0
    <3>1. jobs'[i] = NoJob
      BY <2>1 DEF CompleteDone, StoreInv, TypeOK, RamTypeOK
    <3> QED BY <2>1, <3>1 DEF CompleteDone, Finish, NoJob
  <2>2. CASE jobs[i].repeat # 0
    <3>1. jobs'[i] = [jobs[i] EXCEPT !.due = AdvancedDue(jobs[i], now)]
      BY <2>2 DEF CompleteDone, StoreInv, TypeOK, RamTypeOK
    <3>2. jobs'[i].id = jobs[i].id
      BY <3>1, StoreFacts DEF Job
    <3> QED BY <2>2, <3>2 DEF CompleteDone, Acknowledge
  <2> QED BY <2>1, <2>2
<1>4. DistinctIds(jobs', nextId') /\ nextId' = nextId
  BY <1>2, <1>3, StoreFacts DEF DistinctIds, Active, CompleteDone
<1>5. \/ fJobs' = JobsBlob'
      \/ fJobs' = fJobs /\ ~Saved(w)
  BY JobsSaved DEF CompleteDone
<1>6. 0 \notin finished
  BY DEF StoreInv, FinishedUsed
<1> QED BY <1>1, <1>2, <1>3, <1>4, <1>5, <1>6, StoreFacts, SlotStep

LEMMA ResetStore ==
  ASSUME StoreInv, TypeOK', NEW w \in Written, Reset(w)
  PROVE  StoreInv'
<1>1. jobs' = EmptyJobs /\ nextId' = 1 /\ promised' = {} /\ finished' = {}
  BY DEF Reset
<1>2. Active(jobs') = {}
  BY <1>1 DEF Active, EmptyJobs, NoJob
<1>3. DistinctIds(jobs', nextId')
  BY <1>2 DEF DistinctIds
<1>4. fJobs' = JobsBlob' \/ fJobs' = fJobs
  BY JobsSaved DEF Reset
<1>5. JobIdsUnique'
  BY <1>3, <1>4 DEF JobIdsUnique, StoreInv, JobsBlob
<1> QED BY <1>1, <1>5
           DEF StoreInv, PromisedStored, FinishedGone, FinishedUsed

LEMMA RebootStore ==
  ASSUME StoreInv, TypeOK', Reboot
  PROVE  StoreInv'
<1>1. /\ jobs' = fJobs.jobs /\ nextId' = fJobs.nextId
      /\ fJobs' = fJobs /\ promised' = promised /\ finished' = finished
  BY DEF Reboot, flash, history
<1>2. promised \in SUBSET Ids(fJobs.jobs)
  <2>1. ASSUME NEW p \in promised
        PROVE  p \in Ids(fJobs.jobs)
    <3>1. PICK k \in Active(jobs) : jobs[k].id = p
      BY DEF StoreInv, PromisedStored, Ids
    <3>2. fJobs.jobs[k] = jobs[k]
      BY <3>1 DEF StoreInv, PromisedStored
    <3> QED BY <3>1, <3>2 DEF Ids, Active
  <2> QED BY <2>1
<1>3. PromisedStored'
  BY <1>1, <1>2 DEF PromisedStored
<1>4. JobIdsUnique'
  BY <1>1 DEF StoreInv, JobIdsUnique
<1>5. FinishedGone' /\ FinishedUsed'
  BY <1>1 DEF StoreInv, FinishedGone, FinishedUsed
<1> QED BY <1>3, <1>4, <1>5 DEF StoreInv

LEMMA StoreStep == StoreInv /\ [Next]_vars => StoreInv'
<1> SUFFICES ASSUME StoreInv, [Next]_vars
             PROVE  StoreInv'
  OBVIOUS
<1>1. TypeOK'
  BY StepTyped DEF StoreInv
<1>2. ASSUME UNCHANGED StoreVars
      PROVE  StoreInv'
  BY <1>1, <1>2, StoreUnchanged
<1>3. ASSUME NEW w \in Written, JobRequest(w)
      PROVE  StoreInv'
  <2>1. ASSUME NEW i \in Slots, NEW due, NEW r, NEW t, Update(i, due, r, t, w)
        PROVE  StoreInv'
    BY <1>1, <2>1, RescheduleStore DEF Update
  <2>2. ASSUME NEW i \in Slots, NEW due, Snooze(i, due, w)
        PROVE  StoreInv'
    <3>1. [jobs[i] EXCEPT !.due = due].id = jobs[i].id
      BY StoreFacts DEF Job
    <3> QED BY <1>1, <2>2, <3>1, RescheduleStore DEF Snooze
  <2>3. ASSUME ClearMissed(w)
        PROVE  StoreInv'
    BY <1>2, <2>3 DEF ClearMissed, SaveMissed, history, StoreVars
  <2> QED BY <1>1, <1>3, <2>1, <2>2, <2>3, AddStore, DeleteStore
             DEF JobRequest
<1>4. ASSUME NEW w \in Written, Outcome(w)
      PROVE  StoreInv'
  <2>1. ASSUME NEW i \in Slots, CompleteFailed(i)
        PROVE  StoreInv'
    BY <1>2, <2>1 DEF CompleteFailed, flash, history, StoreVars
  <2> QED BY <1>1, <1>4, <2>1, CompleteDoneStore DEF Outcome
<1>5. CASE Pass
  <2>1. UNCHANGED StoreVars
    BY <1>5 DEF Pass, PassStart, PassLock, PassUnmarked, PassEmit, MarkMissed,
                MoveOn, SaveMissed, ram, flash, history, StoreVars
  <2> QED BY <1>2, <2>1
<1>6. CASE Tick \/ SyncClock
  BY <1>2, <1>6 DEF Tick, SyncClock, ram, flash, history, StoreVars
<1>7. CASE UNCHANGED vars
  BY <1>2, <1>7 DEF vars, ram, flash, history, StoreVars
<1> QED BY <1>1, <1>3, <1>4, <1>5, <1>6, <1>7, ResetStore, RebootStore
           DEF Next, Environment

LEMMA StoreInit == Init => StoreInv
<1> SUFFICES ASSUME Init
             PROVE  StoreInv
  OBVIOUS
<1>1. Active(jobs) = {} /\ Active(fJobs.jobs) = {}
  BY DEF Init, Active, EmptyJobs, NoJob, JobsBlob
<1>2. JobIdsUnique
  BY <1>1 DEF JobIdsUnique, DistinctIds
<1>3. PromisedStored /\ FinishedGone /\ FinishedUsed
  BY DEF Init, PromisedStored, FinishedGone, FinishedUsed
<1> QED BY <1>2, <1>3, InitTyped DEF StoreInv

THEOREM StoreInvariant == Spec => []StoreInv
BY StoreInit, StoreStep, PTL DEF Spec

(* find_slot finds one job at most: ids are unique in RAM and in what a    *)
(* reboot loads, and the next id is in use nowhere.                        *)
THEOREM IdsStayUnique == Spec => []JobIdsUnique
<1>1. StoreInv => JobIdsUnique
  BY DEF StoreInv
<1> QED BY <1>1, StoreInvariant, PTL

(* A job whose last change was reported as done is in flash as it stands.  *)
THEOREM PromisesKept == Spec => []PromisedStored
<1>1. StoreInv => PromisedStored
  BY DEF StoreInv
<1> QED BY <1>1, StoreInvariant, PTL

(* What was reported as deleted or run for the last time never comes back. *)
THEOREM FinishedStaysGone == Spec => []FinishedGone
<1>1. StoreInv => FinishedGone
  BY DEF StoreInv
<1> QED BY <1>1, StoreInvariant, PTL

(***************************************************************************)
(* The missed history while every save goes through.  Flash then equals    *)
(* RAM between two steps, so a reboot loses nothing, and every pending     *)
(* record stays the one record of the job it reports on.                   *)
(***************************************************************************)

StoredAsIs == faults = 0 => fJobs = JobsBlob /\ fMissed = MissedBlob

PendingInv == MarksInv /\ StoredAsIs /\ PendingOwned

LEMMA NoFaultsBefore ==
  ASSUME faults \in Nat, [Next]_vars, faults' = 0
  PROVE  faults = 0
<1>1. ASSUME NEW done, CountFault(done)
      PROVE  faults = 0
  BY <1>1 DEF CountFault
<1>2. ASSUME NEW w, JobRequest(w) \/ Reset(w) \/ Outcome(w)
      PROVE  faults = 0
  <2>1. ASSUME NEW touched, SaveTouched(touched, w)
        PROVE  faults = 0
    BY <1>1, <2>1 DEF SaveTouched, SaveStore, SaveBoth
  <2>2. CASE JobRequest(w)
    <3>1. ASSUME NEW i, NEW job, Reschedule(i, job, w)
          PROVE  faults = 0
      BY <2>1, <3>1 DEF Reschedule
    <3>2. ASSUME NEW i, Delete(i, w)
          PROVE  faults = 0
      BY <2>1, <3>2 DEF Delete
    <3>3. ASSUME NEW due, NEW r, NEW t, Add(due, r, t, w)
          PROVE  faults = 0
      BY <2>1, <3>3 DEF Add
    <3>4. CASE ClearMissed(w)
      BY <1>1, <3>4 DEF ClearMissed, SaveMissed
    <3> QED BY <2>2, <3>1, <3>2, <3>3, <3>4 DEF JobRequest, Update, Snooze
  <2>3. CASE Reset(w)
    BY <1>1, <2>3 DEF Reset, SaveBoth
  <2>4. CASE Outcome(w)
    BY <2>1, <2>4 DEF Outcome, CompleteFailed, CompleteDone
  <2> QED BY <1>2, <2>2, <2>3, <2>4
<1>3. CASE Pass
  BY <1>1, <1>3 DEF Pass, PassStart, PassLock, PassUnmarked, PassEmit,
       MarkMissed, SaveMissed
<1>4. CASE Environment \/ UNCHANGED vars
  BY <1>4 DEF Environment, Tick, SyncClock, Reboot, vars
<1> QED BY <1>2, <1>3, <1>4 DEF Next

(* Saves that went through leave flash equal to RAM.                       *)
LEMMA SavedAsIs ==
  ASSUME StoredAsIs, faults = 0, faults' = 0, faults \in Nat,
         NEW w \in Written, NEW touched \in BOOLEAN,
         \/ SaveTouched(touched, w) /\ (~touched => UNCHANGED <<missed, nextSeq>>)
         \/ SaveBoth(w)
         \/ \E done \in BOOLEAN : SaveMissed(done) /\ UNCHANGED <<jobs, nextId>>
  PROVE  StoredAsIs'
<1>1. \A done \in BOOLEAN : CountFault(done) => done
  BY DEF CountFault
<1>2. Saved(w) \in BOOLEAN
  BY DEF Saved
<1>3. CASE SaveTouched(touched, w) /\ (~touched => UNCHANGED <<missed, nextSeq>>)
  <2>1. CASE touched
    BY <1>1, <1>2, <1>3, <2>1
       DEF SaveTouched, SaveBoth, Saved, StoredAsIs
  <2>2. CASE ~touched
    BY <1>1, <1>2, <1>3, <2>2
       DEF SaveTouched, SaveStore, StoredAsIs, MissedBlob
  <2> QED BY <2>1, <2>2
<1>4. CASE SaveBoth(w)
  BY <1>1, <1>2, <1>4 DEF SaveBoth, Saved, StoredAsIs
<1>5. CASE \E done \in BOOLEAN : SaveMissed(done) /\ UNCHANGED <<jobs, nextId>>
  BY <1>1, <1>5 DEF SaveMissed, StoredAsIs, JobsBlob
<1> QED BY <1>3, <1>4, <1>5

(* A step that takes slot i's job off the pending list, or finds it there  *)
(* no more, and leaves the other jobs and records alone keeps ownership.   *)
LEMMA OwnershipKept ==
  ASSUME OwnedBy(jobs, missed), NEW i \in Slots,
         \A k \in Slots : k # i => jobs'[k] = jobs[k],
         Pending(missed') \in SUBSET Pending(missed),
         \A s \in Pending(missed') : missed'[s] = missed[s]
                                     /\ missed'[s].job # jobs[i].id
  PROVE  OwnedBy(jobs', missed')
<1>1. ASSUME NEW s \in Pending(missed')
      PROVE  \E k \in Active(jobs') : /\ jobs'[k].id = missed'[s].job
                                      /\ jobs'[k].text = missed'[s].text
                                      /\ jobs'[k].due = missed'[s].due
  <2>1. PICK k \in Active(jobs) : /\ jobs[k].id = missed[s].job
                                  /\ jobs[k].text = missed[s].text
                                  /\ jobs[k].due = missed[s].due
    BY <1>1 DEF OwnedBy
  <2>2. k # i /\ missed'[s] = missed[s]
    BY <1>1, <2>1
  <2> QED BY <2>1, <2>2 DEF Active
<1>2. \A s, t \in Pending(missed') : missed'[s].job = missed'[t].job => s = t
  BY DEF OwnedBy
<1> QED BY <1>1, <1>2 DEF OwnedBy

LEMMA CancelOwned ==
  ASSUME TypeOK, NEW id, CancelPending(id)
  PROVE  /\ Pending(missed') \in SUBSET Pending(missed)
         /\ \A s \in Pending(missed') : missed'[s] = missed[s] /\ missed'[s].job # id
         /\ PendingOf(id) = {} => missed' = missed
<1>1. \A s \in Slots : missed'[s] = IF s \in PendingOf(id) THEN NoMissed
                                                           ELSE missed[s]
  BY DEF CancelPending
<1>2. \A s \in Slots : s \in PendingOf(id) => s \notin Pending(missed')
  BY <1>1 DEF Pending, NoMissed
<1>3. ASSUME PendingOf(id) = {}
      PROVE  missed' = missed
  BY <1>3 DEF CancelPending, TypeOK, RamTypeOK
<1> QED BY <1>1, <1>2, <1>3 DEF Pending, PendingOf

LEMMA DeliveredOwned ==
  ASSUME TypeOK, NEW job \in Job, MarkDelivered(job)
  PROVE  /\ Pending(missed') \in SUBSET Pending(missed)
         /\ \A s \in Pending(missed') : /\ missed'[s] = missed[s]
                                        /\ missed'[s].job # job.id
         /\ PendingOf(job.id) = {} => missed' = missed
<1>1. \A s \in Slots : s \notin PendingOf(job.id) => missed'[s] = missed[s]
  BY DEF MarkDelivered
<1>2. \A s \in PendingOf(job.id) : missed'[s].delivered
  BY DEF MarkDelivered, PendingOf, Pending, TypeOK, RamTypeOK, Missed
<1>3. ASSUME PendingOf(job.id) = {}
      PROVE  missed' = missed
  BY <1>3 DEF MarkDelivered, TypeOK, RamTypeOK
<1> QED BY <1>1, <1>2, <1>3 DEF Pending, PendingOf

LEMMA RecordOwned ==
  ASSUME TypeOK, OwnedBy(jobs, missed), NEW i \in Active(jobs),
         PendingOf(jobs[i].id) # {} \/ MissedRoom, RecordMissed(i),
         UNCHANGED jobs
  PROVE  OwnedBy(jobs', missed')
<1> DEFINE job == jobs[i]
           n   == Occurrences(job, passNow)
<1>0. /\ i \in Slots /\ job \in Job /\ job.id # 0
      /\ missed \in [Slots -> Missed]
  BY DEF Active, TypeOK, RamTypeOK
<1>1. CASE PendingOf(job.id) # {}
  <2>1. missed' = [s \in Slots |->
                     IF s \in PendingOf(job.id) /\ n > missed[s].count
                     THEN [missed[s] EXCEPT !.count = n] ELSE missed[s]]
    BY <1>1, Zenon DEF RecordMissed
  <2> HIDE DEF n
  <2>2. \A s \in Slots : /\ missed'[s].job = missed[s].job
                         /\ missed'[s].text = missed[s].text
                         /\ missed'[s].due = missed[s].due
                         /\ missed'[s].delivered = missed[s].delivered
    BY <1>0, <2>1 DEF Missed
  <2>3. Pending(missed') = Pending(missed)
    BY <2>2 DEF Pending
  <2>4. \A s \in Pending(missed) : s \in Slots
    BY DEF Pending
  <2> QED BY <2>2, <2>3, <2>4 DEF OwnedBy
<1>2. CASE PendingOf(job.id) = {}
  <2> DEFINE rec == [job |-> job.id, seq |-> nextSeq, count |-> n,
                     due |-> job.due, text |-> job.text, delivered |-> FALSE]
             slot == MissedSlot
  <2>1. missed' = [missed EXCEPT ![slot] = rec]
    BY <1>2, Zenon DEF RecordMissed
  <2>2. slot \in Slots /\ slot \notin Pending(missed)
    BY <1>0, <1>2, MissedSlotRoom DEF FreeMissed, DeliveredOnes, Pending
  <2>3. /\ rec.job = job.id /\ rec.text = job.text /\ rec.due = job.due
        /\ rec.delivered = FALSE
    OBVIOUS
  <2> HIDE DEF n, rec, slot
  <2>4. missed'[slot] = rec /\ \A s \in Slots : s # slot => missed'[s] = missed[s]
    BY <1>0, <2>1, <2>2
  <2>5. \A s \in Pending(missed') : s = slot \/ s \in Pending(missed)
    BY <2>4 DEF Pending
  <2>6. \A s \in Pending(missed) : missed'[s] = missed[s]
                                   /\ missed'[s].job # job.id
    BY <1>2, <2>2, <2>4 DEF Pending, PendingOf
  <2>7. ASSUME NEW s \in Pending(missed')
        PROVE  \E k \in Active(jobs) : /\ jobs[k].id = missed'[s].job
                                       /\ jobs[k].text = missed'[s].text
                                       /\ jobs[k].due = missed'[s].due
    <3>1. CASE s = slot
      BY <2>3, <2>4, <3>1
    <3>2. CASE s \in Pending(missed)
      BY <2>6, <3>2 DEF OwnedBy
    <3> QED BY <2>5, <3>1, <3>2
  <2>8. ASSUME NEW s \in Pending(missed'), NEW t \in Pending(missed'),
               missed'[s].job = missed'[t].job
        PROVE  s = t
    <3>1. CASE s \in Pending(missed) /\ t \in Pending(missed)
      BY <2>6, <2>8, <3>1 DEF OwnedBy
    <3>2. CASE s = slot \/ t = slot
      BY <2>3, <2>4, <2>5, <2>6, <2>8, <3>2
    <3> QED BY <2>5, <3>1, <3>2
  <2>9. Active(jobs') = Active(jobs)
    OBVIOUS
  <2> QED BY <2>7, <2>8, <2>9 DEF OwnedBy
<1> QED BY <1>1, <1>2

LEMMA PendingStep ==
  ASSUME PendingInv, [Next]_vars, faults' = 0
  PROVE  StoredAsIs' /\ OwnedBy(jobs', missed')
<1>1. faults \in Nat /\ TypeOK
  BY DEF PendingInv, MarksInv, TypeOK, HistoryTypeOK
<1>2. faults = 0
  BY <1>1, NoFaultsBefore
<1>3. StoredAsIs /\ OwnedBy(jobs, missed)
  BY <1>2 DEF PendingInv, PendingOwned
<1>4. ASSUME UNCHANGED <<jobs, nextId, missed, nextSeq, fJobs, fMissed>>
      PROVE  StoredAsIs' /\ OwnedBy(jobs', missed')
  BY <1>2, <1>3, <1>4 DEF StoredAsIs, JobsBlob, MissedBlob
<1>5. ASSUME NEW w \in Written, NEW due, NEW r, NEW t, Add(due, r, t, w)
      PROVE  StoredAsIs' /\ OwnedBy(jobs', missed')
  <2> DEFINE slot == Least(Slots \ Active(jobs))
  <2>1. slot \in Slots /\ slot \notin Active(jobs)
    BY <1>5, LeastSlot DEF Add, Active
  <2>2. \A k \in Slots : k # slot => jobs'[k] = jobs[k]
    BY <1>1, <1>5 DEF Add, TypeOK, RamTypeOK
  <2>3. missed' = missed /\ SaveTouched(FALSE, w) /\ nextSeq' = nextSeq
    BY <1>5 DEF Add
  <2> HIDE DEF slot
  <2>4. \A k \in Active(jobs) : jobs'[k] = jobs[k] /\ k \in Active(jobs')
    BY <2>1, <2>2 DEF Active
  <2>5. OwnedBy(jobs', missed')
    BY <1>3, <2>3, <2>4 DEF OwnedBy
  <2> QED BY <1>1, <1>2, <1>3, <2>3, <2>5, SavedAsIs
<1>6. ASSUME NEW w \in Written, NEW i \in Slots, NEW job, job.id = jobs[i].id,
             Reschedule(i, job, w)
      PROVE  StoredAsIs' /\ OwnedBy(jobs', missed')
  <2>1. \A k \in Slots : k # i => jobs'[k] = jobs[k]
    BY <1>1, <1>6 DEF Reschedule, TypeOK, RamTypeOK
  <2>2. /\ CancelPending(jobs[i].id) /\ nextSeq' = nextSeq
        /\ SaveTouched(PendingOf(jobs[i].id) # {}, w)
    BY <1>6 DEF Reschedule
  <2>3. OwnedBy(jobs', missed')
    BY <1>1, <1>3, <2>1, <2>2, CancelOwned, OwnershipKept
  <2> QED BY <1>1, <1>2, <1>3, <2>2, <2>3, CancelOwned, SavedAsIs
<1>7. ASSUME NEW w \in Written, NEW i \in Slots, Delete(i, w)
      PROVE  StoredAsIs' /\ OwnedBy(jobs', missed')
  <2>1. \A k \in Slots : k # i => jobs'[k] = jobs[k]
    BY <1>1, <1>7 DEF Delete, TypeOK, RamTypeOK
  <2>2. /\ CancelPending(jobs[i].id) /\ nextSeq' = nextSeq
        /\ SaveTouched(PendingOf(jobs[i].id) # {}, w)
    BY <1>7 DEF Delete
  <2>3. OwnedBy(jobs', missed')
    BY <1>1, <1>3, <2>1, <2>2, CancelOwned, OwnershipKept
  <2> QED BY <1>1, <1>2, <1>3, <2>2, <2>3, CancelOwned, SavedAsIs
<1>8. ASSUME NEW w \in Written, NEW i \in Slots, CompleteDone(i, w)
      PROVE  StoredAsIs' /\ OwnedBy(jobs', missed')
  <2>1. \A k \in Slots : k # i => jobs'[k] = jobs[k]
    BY <1>1, <1>8 DEF CompleteDone, TypeOK, RamTypeOK
  <2>2. /\ MarkDelivered(jobs[i]) /\ nextSeq' = nextSeq /\ jobs[i] \in Job
        /\ SaveTouched(PendingOf(jobs[i].id) # {}, w)
    BY <1>1, <1>8 DEF CompleteDone, TypeOK, RamTypeOK
  <2>3. OwnedBy(jobs', missed')
    BY <1>1, <1>3, <2>1, <2>2, DeliveredOwned, OwnershipKept
  <2> QED BY <1>1, <1>2, <1>3, <2>2, <2>3, DeliveredOwned, SavedAsIs
<1>9. ASSUME NEW w \in Written, Reset(w)
      PROVE  StoredAsIs' /\ OwnedBy(jobs', missed')
  <2>1. Pending(missed') = {}
    BY <1>9 DEF Reset, Pending, EmptyMissed, NoMissed
  <2> QED BY <1>1, <1>2, <1>3, <1>9, <2>1, SavedAsIs DEF Reset, OwnedBy
<1>10. ASSUME NEW w \in Written, ClearMissed(w)
       PROVE  StoredAsIs' /\ OwnedBy(jobs', missed')
  <2>1. /\ \A s \in Slots : missed'[s] = IF missed[s].delivered THEN NoMissed
                                                                ELSE missed[s]
        /\ UNCHANGED <<jobs, nextId>> /\ SaveMissed(Saved(w))
    BY <1>10 DEF ClearMissed
  <2>2. /\ Pending(missed') \in SUBSET Pending(missed)
        /\ \A s \in Pending(missed') : missed'[s] = missed[s]
    BY <2>1 DEF Pending, NoMissed
  <2>3. OwnedBy(jobs', missed')
    BY <1>3, <2>1, <2>2 DEF OwnedBy
  <2>4. Saved(w) \in BOOLEAN
    BY DEF Saved
  <2> QED BY <1>1, <1>2, <1>3, <2>1, <2>3, <2>4, SavedAsIs
<1>11. ASSUME NEW i \in Active(jobs), NEW done \in BOOLEAN, MarkMissed(i, done),
              UNCHANGED <<jobs, nextId>>
       PROVE  StoredAsIs' /\ OwnedBy(jobs', missed')
  <2>1. OwnedBy(jobs', missed')
    BY <1>1, <1>3, <1>11, RecordOwned DEF MarkMissed
  <2>2. CASE SaveMissed(done)
    <3>1. "none" \in Written
      BY DEF Written
    <3> QED BY <1>1, <1>2, <1>3, <1>11, <2>1, <2>2, <3>1, SavedAsIs
  <2>3. CASE missed' = missed /\ UNCHANGED flash
    <3>1. nextSeq' = nextSeq
      <4>1. CASE PendingOf(jobs[i].id) # {}
        BY <1>11, <4>1, Zenon DEF MarkMissed, RecordMissed
      <4>2. CASE PendingOf(jobs[i].id) = {}
        <5>1. /\ MissedSlot \in Slots
              /\ missed'[MissedSlot].job = jobs[i].id
              /\ missed'[MissedSlot].delivered = FALSE
          BY <1>1, <1>11, <4>2, MissedSlotInSlots
             DEF MarkMissed, RecordMissed, TypeOK, RamTypeOK
        <5>2. jobs[i].id # 0
          BY DEF Active
        <5> QED BY <2>3, <4>2, <5>1, <5>2 DEF PendingOf, Pending
      <4> QED BY <4>1, <4>2
    <3> QED BY <1>2, <1>3, <1>11, <2>1, <2>3, <3>1
               DEF StoredAsIs, JobsBlob, MissedBlob, flash
  <2> QED BY <1>11, <2>2, <2>3 DEF MarkMissed
<1>12. CASE Pass
  <2>1. CASE PassStart \/ PassLock
    BY <1>4, <2>1 DEF PassStart, PassLock, ram, flash
  <2>2. cursor # 0 => cursor \in Active(jobs)
    BY DEF PendingInv, MarksInv, CursorDue, Due
  <2>3. CASE PassUnmarked
    <3>1. CASE MarkMissed(cursor, FALSE)
      BY <1>11, <2>2, <2>3, <3>1 DEF PassUnmarked
    <3>2. CASE UNCHANGED <<missed, nextSeq, flash, faults>>
      BY <1>4, <2>3, <3>2 DEF PassUnmarked, flash
    <3> QED BY <2>3, <3>1, <3>2 DEF PassUnmarked
  <2>4. ASSUME NEW taken \in BOOLEAN, PassEmit(taken)
        PROVE  StoredAsIs' /\ OwnedBy(jobs', missed')
    <3>1. CASE MarkMissed(cursor, TRUE)
      BY <1>11, <2>2, <2>4, <3>1 DEF PassEmit
    <3>2. CASE UNCHANGED <<missed, nextSeq, flash, faults>>
      BY <1>4, <2>4, <3>2 DEF PassEmit, flash
    <3> QED BY <2>4, <3>1, <3>2 DEF PassEmit
  <2> QED BY <1>12, <2>1, <2>3, <2>4 DEF Pass
<1>13. CASE Reboot
  <2>1. /\ fJobs = JobsBlob /\ fMissed = MissedBlob
    BY <1>2, <1>3 DEF StoredAsIs
  <2>2. UNCHANGED <<jobs, nextId, missed, nextSeq, fJobs, fMissed>>
    BY <1>13, <2>1 DEF Reboot, flash, JobsBlob, MissedBlob
  <2> QED BY <1>4, <2>2
<1>14. CASE Tick \/ SyncClock \/ UNCHANGED vars
  BY <1>4, <1>14 DEF Tick, SyncClock, vars, ram, flash
<1>15. ASSUME NEW i \in Slots, CompleteFailed(i)
       PROVE  StoredAsIs' /\ OwnedBy(jobs', missed')
  BY <1>4, <1>15 DEF CompleteFailed, flash
<1>16. ASSUME NEW i \in Slots, NEW due
       PROVE  [jobs[i] EXCEPT !.due = due].id = jobs[i].id
  BY <1>1 DEF TypeOK, RamTypeOK, Job
<1>17. ASSUME NEW w \in Written, JobRequest(w)
       PROVE  StoredAsIs' /\ OwnedBy(jobs', missed')
  <2>1. ASSUME NEW i \in Slots, NEW due, NEW r, NEW t, Update(i, due, r, t, w)
        PROVE  StoredAsIs' /\ OwnedBy(jobs', missed')
    BY <1>6, <2>1 DEF Update
  <2>2. ASSUME NEW i \in Slots, NEW due, Snooze(i, due, w)
        PROVE  StoredAsIs' /\ OwnedBy(jobs', missed')
    BY <1>6, <1>16, <2>2 DEF Snooze
  <2> QED BY <1>5, <1>7, <1>10, <1>17, <2>1, <2>2 DEF JobRequest
<1>18. CASE \E w \in Written : JobRequest(w) \/ Reset(w) \/ Outcome(w)
  BY <1>8, <1>9, <1>15, <1>17, <1>18 DEF Outcome
<1> QED BY <1>12, <1>13, <1>14, <1>18 DEF Next, Environment

LEMMA PendingInit == Init => PendingInv
<1> SUFFICES ASSUME Init
             PROVE  PendingInv
  OBVIOUS
<1>1. MarksInv
  BY InitTyped DEF MarksInv, Init, IdleSlotsClean, CursorDue
<1>2. Pending(missed) = {}
  BY DEF Init, Pending, EmptyMissed, NoMissed
<1>3. StoredAsIs
  BY DEF Init, StoredAsIs
<1> QED BY <1>1, <1>2, <1>3 DEF PendingInv, PendingOwned, OwnedBy

LEMMA PendingInvStep == PendingInv /\ [Next]_vars => PendingInv'
<1> SUFFICES ASSUME PendingInv, [Next]_vars
             PROVE  PendingInv'
  OBVIOUS
<1>1. MarksInv'
  BY StepTyped, MarksStep DEF PendingInv, MarksInv
<1>2. faults' = 0 => StoredAsIs' /\ PendingOwned'
  BY PendingStep DEF PendingOwned
<1>3. faults' # 0 => StoredAsIs' /\ PendingOwned'
  BY DEF StoredAsIs, PendingOwned
<1> QED BY <1>1, <1>2, <1>3 DEF PendingInv

THEOREM PendingInvariant == Spec => []PendingInv
BY PendingInit, PendingInvStep, PTL DEF Spec

(* While saves succeed, every pending missed reminder is the one pending   *)
(* record of an active job, with the text and due time it will run with.   *)
THEOREM PendingStaysOwned == Spec => []PendingOwned
<1>1. PendingInv => PendingOwned
  BY DEF PendingInv
<1> QED BY <1>1, PendingInvariant, PTL

(***************************************************************************)
(* Room for missed reminders.  Were there none, every slot of the history  *)
(* would hold a pending record, each of another active job, and none of    *)
(* the late job itself: N records of N - 1 jobs.                           *)
(***************************************************************************)

LEMMA MissedRoomLeft ==
  ASSUME OwnedBy(jobs, missed), NEW i \in Active(jobs),
         PendingOf(jobs[i].id) = {}
  PROVE  MissedRoom
<1> SUFFICES ASSUME ~MissedRoom
             PROVE  FALSE
  OBVIOUS
<1>1. \A s \in Slots : s \in Pending(missed)
  BY DEF MissedRoom, FreeMissed, DeliveredOnes, Pending
<1> DEFINE Owner(s) == CHOOSE k \in Active(jobs) : jobs[k].id = missed[s].job
           f == [s \in Slots |-> Owner(s)]
<1>2. ASSUME NEW s \in Slots
      PROVE  /\ Owner(s) \in Active(jobs)
             /\ jobs[Owner(s)].id = missed[s].job
             /\ Owner(s) # i
  <2>1. \E k \in Active(jobs) : jobs[k].id = missed[s].job
    BY <1>1 DEF OwnedBy
  <2>2. Owner(s) \in Active(jobs) /\ jobs[Owner(s)].id = missed[s].job
    BY <2>1
  <2>3. missed[s].job # jobs[i].id
    BY <1>1 DEF PendingOf
  <2> QED BY <2>2, <2>3
<1>3. f \in [Slots -> Slots \ {i}]
  BY <1>2 DEF Active
<1>4. /\ IsFiniteSet(Slots) /\ Cardinality(Slots) = N
      /\ i \in Slots
  BY FS_Interval, NIsNat DEF Slots, Active
<1>5. IsFiniteSet(Slots \ {i}) /\ Cardinality(Slots \ {i}) < Cardinality(Slots)
  <2>1. IsFiniteSet(Slots \ {i}) /\ Cardinality(Slots \ {i}) = Cardinality(Slots) - 1
    BY <1>4, FS_RemoveElement
  <2> QED BY <1>4, <2>1, NIsNat
<1>6. PICK s, t \in Slots : s # t /\ f[s] = f[t]
  <2> HIDE DEF f
  <2> QED BY <1>3, <1>4, <1>5, FS_PigeonHole
<1>7. missed[s].job = missed[t].job
  BY <1>2, <1>6
<1> QED BY <1>1, <1>6, <1>7 DEF OwnedBy

(* A late job finds room for its missed record, for any number of slots.   *)
THEOREM MissedRecordsFit == Spec => []MissedRecordFits
<1>1. PendingInv => MissedRecordFits
  BY MissedRoomLeft DEF PendingInv, PendingOwned, MissedRecordFits
<1> QED BY <1>1, PendingInvariant, PTL

(* The store stays sound: its types, its idle slots, and its pending missed*)
(* reminders with the jobs they belong to.                                 *)
THEOREM StoreStaysSound == Spec => []StoreSound
<1>1. TypeOK /\ IdleSlotsClean /\ PendingOwned /\ MissedRecordFits => StoreSound
  BY DEF StoreSound
<1> QED BY <1>1, TypeCorrect, IdleSlotsStayClean, PendingStaysOwned, MissedRecordsFit, PTL

(***************************************************************************)
(* Missed counts.  A pending record never counts more occurrences of its   *)
(* job than have passed, because the pass works with an earlier reading of *)
(* the clock; the count settled at the end of the run is therefore the one *)
(* the new due time skips.                                                 *)
(***************************************************************************)

CountsBehind ==
  \A i \in Active(jobs) : \A s \in PendingOf(jobs[i].id) :
    missed[s].count <= Occurrences(jobs[i], now)

CountsInv ==
  /\ StoreInv /\ PendingInv
  /\ passNow <= now
  /\ faults = 0 => CountsBehind

LEMMA QuotientMonotonic ==
  ASSUME NEW a \in Nat, NEW b \in Nat, NEW r \in Nat, r > 0, a <= b
  PROVE  a \div r <= b \div r
OBVIOUS

LEMMA OccurrencesMonotonic ==
  ASSUME NEW job \in Job, NEW t \in Nat, NEW u \in Nat, t <= u
  PROVE  Occurrences(job, t) <= Occurrences(job, u)
<1>1. Occurrences(job, u) \in Nat \ {0}
  BY OccurrencesPositive
<1>2. CASE job.repeat > 0 /\ job.due <= t
  <2>1. /\ t - job.due \in Nat /\ u - job.due \in Nat
        /\ t - job.due <= u - job.due
        /\ job.due <= u
    BY <1>2, JobFields
  <2>2. /\ (t - job.due) \div job.repeat <= (u - job.due) \div job.repeat
        /\ (t - job.due) \div job.repeat \in Nat
        /\ (u - job.due) \div job.repeat \in Nat
    BY <1>2, <2>1, JobFields, QuotientMonotonic, QuotientIsNat
  <2> QED BY <1>2, <2>1, <2>2 DEF Occurrences
<1>3. CASE ~(job.repeat > 0 /\ job.due <= t)
  <2>1. Occurrences(job, t) = 1
    BY <1>3 DEF Occurrences
  <2> QED BY <1>1, <2>1
<1> QED BY <1>2, <1>3

LEMMA CountsKept ==
  ASSUME CountsBehind, NEW i \in Slots,
         \A k \in Slots : k # i => jobs'[k] = jobs[k],
         \A s \in Pending(missed') : /\ s \in Pending(missed)
                                     /\ missed'[s] = missed[s]
                                     /\ missed'[s].job # jobs'[i].id,
         now' = now
  PROVE  CountsBehind'
<1>1. ASSUME NEW k \in Active(jobs'), NEW s \in Pending(missed'),
             missed'[s].job = jobs'[k].id
      PROVE  missed'[s].count <= Occurrences(jobs'[k], now')
  <2>1. k # i /\ k \in Slots /\ jobs'[k] = jobs[k]
    BY <1>1 DEF Active
  <2>2. k \in Active(jobs) /\ s \in PendingOf(jobs[k].id) /\ missed'[s] = missed[s]
    BY <1>1, <2>1 DEF Active, PendingOf
  <2>3. missed[s].count <= Occurrences(jobs[k], now)
    BY <2>2 DEF CountsBehind
  <2>4. Occurrences(jobs'[k], now') = Occurrences(jobs[k], now)
    BY <2>1 DEF Occurrences
  <2> QED BY <2>2, <2>3, <2>4
<1> QED BY <1>1 DEF CountsBehind, PendingOf

LEMMA RecordCounts ==
  ASSUME TypeOK, CountsBehind, passNow <= now, NEW i \in Active(jobs),
         DistinctIds(jobs, nextId),
         PendingOf(jobs[i].id) # {} \/ MissedRoom, RecordMissed(i),
         UNCHANGED <<jobs, now>>
  PROVE  CountsBehind'
<1> DEFINE job == jobs[i]
           n   == Occurrences(job, passNow)
           m   == Occurrences(job, now)
<1>0. /\ i \in Slots /\ job \in Job /\ job.id # 0
      /\ missed \in [Slots -> Missed] /\ passNow \in Nat /\ now \in Nat
  BY DEF Active, TypeOK, RamTypeOK, PassTypeOK
<1>1. n \in Nat /\ m \in Nat /\ n <= m
  BY <1>0, OccurrencesPositive, OccurrencesMonotonic
<1>2. \A k \in Active(jobs) : jobs[k].id = job.id => k = i
  BY DEF DistinctIds
<1>3. ASSUME \A s \in Pending(missed') :
                \/ missed'[s].job = job.id /\ missed'[s].count <= m
                \/ s \in Pending(missed) /\ missed'[s] = missed[s]
      PROVE  CountsBehind'
  <2>1. ASSUME NEW k \in Active(jobs), NEW s \in Pending(missed'),
               missed'[s].job = jobs[k].id
        PROVE  missed'[s].count <= Occurrences(jobs[k], now)
    <3>1. CASE missed'[s].job = job.id /\ missed'[s].count <= m
      BY <1>2, <2>1, <3>1
    <3>2. CASE s \in Pending(missed) /\ missed'[s] = missed[s]
      BY <2>1, <3>2 DEF CountsBehind, PendingOf
    <3> QED BY <1>3, <3>1, <3>2
  <2>2. Active(jobs') = Active(jobs)
    OBVIOUS
  <2>3. \A k \in Active(jobs) : Occurrences(jobs'[k], now') = Occurrences(jobs[k], now)
    BY DEF Occurrences
  <2> QED BY <2>1, <2>2, <2>3 DEF CountsBehind, PendingOf
<1>4. CASE PendingOf(job.id) # {}
  <2>1. missed' = [s \in Slots |->
                     IF s \in PendingOf(job.id) /\ n > missed[s].count
                     THEN [missed[s] EXCEPT !.count = n] ELSE missed[s]]
    BY <1>4, Zenon DEF RecordMissed
  <2> HIDE DEF n, m
  <2>2. ASSUME NEW s \in Pending(missed')
        PROVE  \/ missed'[s].job = job.id /\ missed'[s].count <= m
               \/ s \in Pending(missed) /\ missed'[s] = missed[s]
    <3>1. s \in Slots
      BY <2>2 DEF Pending
    <3>2. CASE s \in PendingOf(job.id) /\ n > missed[s].count
      BY <1>0, <1>1, <2>1, <3>1, <3>2 DEF PendingOf, Missed
    <3>3. CASE ~(s \in PendingOf(job.id) /\ n > missed[s].count)
      BY <2>1, <2>2, <3>1, <3>3 DEF Pending
    <3> QED BY <3>2, <3>3
  <2> QED BY <1>3, <2>2
<1>5. CASE PendingOf(job.id) = {}
  <2> DEFINE rec == [job |-> job.id, seq |-> nextSeq, count |-> n,
                     due |-> job.due, text |-> job.text, delivered |-> FALSE]
  <2>1. missed' = [missed EXCEPT ![MissedSlot] = rec]
    BY <1>5, Zenon DEF RecordMissed
  <2>2. rec.job = job.id /\ rec.count = n
    OBVIOUS
  <2> HIDE DEF rec, n, m
  <2>3. \A s \in Slots : missed'[s] = rec \/ missed'[s] = missed[s]
    BY <1>0, <2>1
  <2> QED BY <1>1, <1>3, <2>2, <2>3 DEF Pending
<1> QED BY <1>4, <1>5

LEMMA CountsUnchanged ==
  ASSUME CountsBehind, UNCHANGED <<jobs, missed, now>>
  PROVE  CountsBehind'
BY DEF CountsBehind, PendingOf, Pending, Active, Occurrences

LEMMA PassTimeStep ==
  ASSUME TypeOK, passNow <= now, [Next]_vars
  PROVE  passNow' <= now'
<1>1. now \in Nat /\ passNow \in Nat
  BY DEF TypeOK, PassTypeOK
<1>2. ASSUME NEW w, JobRequest(w) \/ Reset(w) \/ Outcome(w)
      PROVE  UNCHANGED <<now, passNow>>
  <2>1. ASSUME NEW i, NEW job, Reschedule(i, job, w)
        PROVE  UNCHANGED <<now, passNow>>
    BY <2>1 DEF Reschedule, clock, pass
  <2>2. ASSUME NEW i, Delete(i, w) \/ CompleteFailed(i) \/ CompleteDone(i, w)
        PROVE  UNCHANGED <<now, passNow>>
    BY <2>2 DEF Delete, CompleteFailed, CompleteDone, clock, pass
  <2>3. ASSUME NEW due, NEW r, NEW t, Add(due, r, t, w)
        PROVE  UNCHANGED <<now, passNow>>
    BY <2>3 DEF Add, clock, pass
  <2>4. CASE ClearMissed(w) \/ Reset(w)
    BY <2>4 DEF ClearMissed, Reset, clock, pass
  <2> QED BY <1>2, <2>1, <2>2, <2>3, <2>4 DEF JobRequest, Update, Snooze, Outcome
<1>3. CASE Pass
  <2>1. MoveOn => now' = now /\ (passNow' = 0 \/ passNow' = passNow)
    BY DEF MoveOn, clock
  <2>2. PassStart \/ MoveOn
    BY <1>3 DEF Pass, PassLock, PassUnmarked, PassEmit
  <2> QED BY <1>1, <2>1, <2>2 DEF PassStart, clock
<1>4. CASE Environment \/ UNCHANGED vars
  BY <1>1, <1>4 DEF Environment, Tick, SyncClock, Reboot, vars, clock, pass
<1> QED BY <1>1, <1>2, <1>3, <1>4 DEF Next

LEMMA CountsStep ==
  ASSUME CountsInv, [Next]_vars, faults' = 0
  PROVE  CountsBehind'
<1>1. /\ TypeOK /\ StoreInv /\ now \in Nat /\ passNow <= now
      /\ DistinctIds(jobs, nextId)
  BY StoreFacts DEF CountsInv, StoreInv, TypeOK, PassTypeOK
<1>2. faults = 0
  BY <1>1, NoFaultsBefore DEF TypeOK, HistoryTypeOK
<1>3. CountsBehind /\ StoredAsIs /\ OwnedBy(jobs, missed)
  BY <1>2 DEF CountsInv, PendingInv, PendingOwned
<1>4. ASSUME NEW w \in Written, NEW due, NEW r, NEW t, Add(due, r, t, w)
      PROVE  CountsBehind'
  <2> DEFINE slot == Least(Slots \ Active(jobs))
  <2>1. slot \in Slots
    BY <1>4, LeastSlot DEF Add, Active
  <2>2. /\ \A k \in Slots : k # slot => jobs'[k] = jobs[k]
        /\ jobs'[slot].id = nextId
    BY <1>1, <1>4, <2>1 DEF Add, TypeOK, RamTypeOK
  <2>3. missed' = missed /\ now' = now
    BY <1>4 DEF Add, clock
  <2>4. ASSUME NEW s \in Pending(missed)
        PROVE  missed[s].job # nextId
    <3>1. PICK k \in Active(jobs) : jobs[k].id = missed[s].job
      BY <1>3 DEF OwnedBy
    <3>2. jobs[k].id < nextId /\ jobs[k].id \in Nat /\ nextId \in Nat
      BY <1>1, StoreFacts DEF DistinctIds, Active
    <3> QED BY <3>1, <3>2
  <2> HIDE DEF slot
  <2> QED BY <1>3, <2>1, <2>2, <2>3, <2>4, CountsKept
<1>5. ASSUME NEW w \in Written, NEW i \in Slots, NEW job, job.id = jobs[i].id,
             Reschedule(i, job, w)
      PROVE  CountsBehind'
  <2>1. /\ \A k \in Slots : k # i => jobs'[k] = jobs[k]
        /\ jobs'[i].id = jobs[i].id
        /\ CancelPending(jobs[i].id) /\ now' = now
    BY <1>1, <1>5 DEF Reschedule, TypeOK, RamTypeOK, clock
  <2> QED BY <1>1, <1>3, <2>1, CancelOwned, CountsKept
<1>6. ASSUME NEW w \in Written, NEW i \in Slots, Delete(i, w)
      PROVE  CountsBehind'
  <2>1. /\ \A k \in Slots : k # i => jobs'[k] = jobs[k]
        /\ jobs'[i].id = 0
        /\ CancelPending(jobs[i].id) /\ now' = now
    BY <1>1, <1>6 DEF Delete, TypeOK, RamTypeOK, clock, NoJob
  <2>2. \A s \in Pending(missed') : /\ s \in Pending(missed)
                                    /\ missed'[s] = missed[s]
                                    /\ missed'[s].job # jobs'[i].id
    BY <1>1, <2>1, CancelOwned DEF Pending
  <2> QED BY <1>3, <2>1, <2>2, CountsKept
<1>7. ASSUME NEW w \in Written, NEW i \in Slots, CompleteDone(i, w)
      PROVE  CountsBehind'
  <2>1. /\ \A k \in Slots : k # i => jobs'[k] = jobs[k]
        /\ MarkDelivered(jobs[i]) /\ now' = now /\ jobs[i] \in Job
    BY <1>1, <1>7 DEF CompleteDone, TypeOK, RamTypeOK, clock
  <2>2. jobs'[i].id = 0 \/ jobs'[i].id = jobs[i].id
    BY <1>1, <1>7 DEF CompleteDone, TypeOK, RamTypeOK, Job, NoJob
  <2>3. \A s \in Pending(missed') : /\ s \in Pending(missed)
                                    /\ missed'[s] = missed[s]
                                    /\ missed'[s].job # jobs'[i].id
    BY <1>1, <2>1, <2>2, DeliveredOwned DEF Pending
  <2> QED BY <1>3, <2>1, <2>3, CountsKept
<1>8. ASSUME NEW w \in Written, Reset(w) \/ ClearMissed(w)
      PROVE  CountsBehind'
  <2>1. CASE Reset(w)
    BY <2>1 DEF Reset, CountsBehind, Active, EmptyJobs, NoJob
  <2>2. CASE ClearMissed(w)
    <3>1. UNCHANGED <<jobs, now>>
      BY <2>2 DEF ClearMissed, clock
    <3>2. \A s \in Slots : missed'[s] = IF missed[s].delivered THEN NoMissed
                                                               ELSE missed[s]
      BY <2>2 DEF ClearMissed
    <3>3. \A s \in Pending(missed') : s \in Pending(missed)
                                      /\ missed'[s] = missed[s]
      BY <3>2 DEF Pending, NoMissed
    <3> QED BY <1>3, <3>1, <3>3
            DEF CountsBehind, PendingOf, Active, Occurrences
  <2> QED BY <1>8, <2>1, <2>2
<1>9. CASE Pass
  <2>1. CASE PassStart \/ PassLock
    BY <1>3, <2>1, CountsUnchanged DEF PassStart, PassLock, MoveOn, ram, clock
  <2>2. cursor # 0 => cursor \in Active(jobs)
    BY DEF CountsInv, PendingInv, MarksInv, CursorDue, Due
  <2>3. ASSUME cursor # 0, NEW done, MarkMissed(cursor, done),
               UNCHANGED <<jobs, now>>
        PROVE  CountsBehind'
    BY <1>1, <1>3, <2>2, <2>3, RecordCounts DEF MarkMissed
  <2>4. CASE PassUnmarked
    BY <1>3, <2>3, <2>4, CountsUnchanged DEF PassUnmarked, MoveOn, clock
  <2>5. ASSUME NEW taken \in BOOLEAN, PassEmit(taken)
        PROVE  CountsBehind'
    BY <1>3, <2>3, <2>5, CountsUnchanged DEF PassEmit, MoveOn, clock
  <2> QED BY <1>9, <2>1, <2>4, <2>5 DEF Pass
<1>10. CASE Tick
  <2>1. now' = now + 1 /\ UNCHANGED <<jobs, missed>>
    BY <1>10 DEF Tick, ram
  <2>2. ASSUME NEW k \in Active(jobs), NEW s \in PendingOf(jobs[k].id)
        PROVE  missed[s].count <= Occurrences(jobs[k], now + 1)
    <3>1. /\ k \in Slots /\ jobs[k] \in Job
          /\ s \in Slots /\ missed[s].count \in Nat
      BY <1>1 DEF Active, PendingOf, Pending, TypeOK, RamTypeOK, Missed
    <3>2. missed[s].count <= Occurrences(jobs[k], now)
      BY <1>3 DEF CountsBehind
    <3>3. /\ Occurrences(jobs[k], now) <= Occurrences(jobs[k], now + 1)
          /\ Occurrences(jobs[k], now) \in Nat
          /\ Occurrences(jobs[k], now + 1) \in Nat
      BY <1>1, <3>1, OccurrencesPositive, OccurrencesMonotonic
    <3> QED BY <3>1, <3>2, <3>3
  <2>3. \A k \in Slots : Occurrences(jobs'[k], now') = Occurrences(jobs[k], now + 1)
    BY <2>1 DEF Occurrences
  <2> QED BY <2>1, <2>2, <2>3 DEF CountsBehind, PendingOf, Pending, Active
<1>11. CASE SyncClock \/ UNCHANGED vars
  BY <1>3, <1>11, CountsUnchanged DEF SyncClock, vars, ram, clock
<1>12. CASE Reboot
  BY <1>2, <1>3, <1>12, CountsUnchanged
     DEF Reboot, StoredAsIs, JobsBlob, MissedBlob
<1>13. ASSUME NEW i \in Slots, CompleteFailed(i)
       PROVE  CountsBehind'
  BY <1>3, <1>13, CountsUnchanged DEF CompleteFailed, clock
<1>14. ASSUME NEW w \in Written, JobRequest(w)
       PROVE  CountsBehind'
  <2>1. ASSUME NEW i \in Slots, NEW due, NEW r, NEW t, Update(i, due, r, t, w)
        PROVE  CountsBehind'
    BY <1>5, <2>1 DEF Update
  <2>2. ASSUME NEW i \in Slots, NEW due, Snooze(i, due, w)
        PROVE  CountsBehind'
    <3>1. [jobs[i] EXCEPT !.due = due].id = jobs[i].id
      BY <1>1, StoreFacts DEF Job
    <3> QED BY <1>5, <2>2, <3>1 DEF Snooze
  <2> QED BY <1>4, <1>6, <1>8, <1>14, <2>1, <2>2 DEF JobRequest
<1> QED BY <1>7, <1>8, <1>9, <1>10, <1>11, <1>12, <1>13, <1>14
           DEF Next, Environment, Outcome

LEMMA CountsInit == Init => CountsInv
<1> SUFFICES ASSUME Init
             PROVE  CountsInv
  OBVIOUS
<1>1. passNow <= now
  BY DEF Init
<1>2. CountsBehind
  BY DEF Init, CountsBehind, Active, EmptyJobs, NoJob
<1> QED BY <1>1, <1>2, StoreInit, PendingInit DEF CountsInv

LEMMA CountsInvStep == CountsInv /\ [Next]_vars => CountsInv'
BY PassTimeStep, CountsStep, StoreStep, PendingInvStep
   DEF CountsInv, StoreInv

THEOREM CountsInvariant == Spec => []CountsInv
BY CountsInit, CountsInvStep, PTL DEF Spec

(***************************************************************************)
(* What may happen to a pending record in one step.                        *)
(***************************************************************************)

LEMMA PendingRecord ==
  ASSUME CountsInv, faults = 0
  PROVE  /\ TypeOK /\ CountsBehind
         /\ fJobs = JobsBlob /\ fMissed = MissedBlob
         /\ DistinctIds(jobs, nextId) /\ OwnedBy(jobs, missed)
BY StoreFacts DEF CountsInv, StoreInv, PendingInv, PendingOwned, StoredAsIs

(* RecordMissed touches no other pending record and delivers none.         *)
LEMMA RecordKeeps ==
  ASSUME TypeOK, NEW i \in Slots, NEW s \in Pending(missed),
         PendingOf(jobs[i].id) # {} \/ MissedRoom, RecordMissed(i)
  PROVE  missed'[s].job = missed[s].job /\ ~missed'[s].delivered
<1> DEFINE n == Occurrences(jobs[i], passNow)
<1>0. /\ s \in Slots /\ missed \in [Slots -> Missed] /\ missed[s] \in Missed
      /\ missed[s].delivered = FALSE
  BY DEF Pending, TypeOK, RamTypeOK, Missed
<1>1. CASE PendingOf(jobs[i].id) # {}
  <2>1. missed' = [r \in Slots |->
                     IF r \in PendingOf(jobs[i].id) /\ n > missed[r].count
                     THEN [missed[r] EXCEPT !.count = n] ELSE missed[r]]
    BY <1>1, Zenon DEF RecordMissed
  <2> HIDE DEF n
  <2>2. missed'[s] = [missed[s] EXCEPT !.count = n] \/ missed'[s] = missed[s]
    BY <1>0, <2>1
  <2> QED BY <1>0, <2>2 DEF Missed
<1>2. CASE PendingOf(jobs[i].id) = {}
  <2>1. MissedSlot \in Slots /\ MissedSlot # s
    BY <1>0, <1>2, MissedSlotRoom DEF FreeMissed, DeliveredOnes, Pending
  <2>2. PICK rec : missed' = [missed EXCEPT ![MissedSlot] = rec]
    BY <1>2, Zenon DEF RecordMissed
  <2>3. missed'[s] = missed[s]
    BY <1>0, <2>1, <2>2
  <2> QED BY <1>0, <2>3
<1> QED BY <1>1, <1>2

LEMMA PassKeeps ==
  ASSUME CountsInv, faults = 0, NEW s \in Pending(missed), Pass
  PROVE  missed'[s].job = missed[s].job /\ ~missed'[s].delivered
<1>1. TypeOK /\ ~missed[s].delivered
  BY PendingRecord DEF Pending
<1>2. CASE missed' = missed
  BY <1>1, <1>2
<1>3. ASSUME NEW done, cursor # 0, MarkMissed(cursor, done)
      PROVE  missed'[s].job = missed[s].job /\ ~missed'[s].delivered
  <2>1. cursor \in Slots
    BY <1>1, <1>3, NIsNat DEF TypeOK, PassTypeOK, Slots
  <2> QED BY <1>1, <1>3, <2>1, RecordKeeps DEF MarkMissed
<1>4. missed' = missed \/ \E done : cursor # 0 /\ MarkMissed(cursor, done)
  BY DEF Pass, PassStart, PassLock, PassUnmarked, PassEmit, ram
<1> QED BY <1>2, <1>3, <1>4

LEMMA ReportStep ==
  ASSUME CountsInv, [Next]_vars, faults = 0,
         NEW i \in Active(jobs), NEW s \in Pending(missed),
         missed[s].job = jobs[i].id, missed'[s].delivered,
         jobs[i].repeat > 0, jobs'[i].id = jobs[i].id
  PROVE  Adds(jobs[i], jobs'[i].due, missed'[s].count)
<1> USE PendingRecord
<1>0. /\ i \in Slots /\ jobs[i] \in Job /\ jobs[i].id # 0
      /\ s \in Slots /\ missed[s] \in Missed /\ missed[s].delivered = FALSE
      /\ now \in Nat
  BY DEF Active, Pending, TypeOK, RamTypeOK, PassTypeOK, Missed
<1>1. ASSUME NEW w \in Written, NEW k \in Slots, CompleteDone(k, w)
      PROVE  Adds(jobs[i], jobs'[i].due, missed'[s].count)
  <2>1. \A r \in Slots : r \notin PendingOf(jobs[k].id) => missed'[r] = missed[r]
    BY <1>1 DEF CompleteDone, MarkDelivered
  <2>2. s \in PendingOf(jobs[k].id)
    BY <1>0, <2>1
  <2>3. k = i
    BY <1>0, <1>1, <2>2 DEF PendingOf, DistinctIds, CompleteDone, Active
  <2>4. missed[s].count <= Occurrences(jobs[i], now)
    BY <2>2, <2>3 DEF CountsBehind
  <2>5. Occurrences(jobs[i], now) \in Nat /\ missed[s].count \in Nat
    BY <1>0, OccurrencesPositive DEF Missed
  <2>6. missed'[s].count = IF Occurrences(jobs[i], now) > missed[s].count
                           THEN Occurrences(jobs[i], now) ELSE missed[s].count
    BY <1>0, <1>1, <2>2, <2>3 DEF CompleteDone, MarkDelivered, Missed
  <2>7. missed'[s].count = Occurrences(jobs[i], now)
    BY <2>4, <2>5, <2>6
  <2>8. jobs'[i] = [jobs[i] EXCEPT !.due = AdvancedDue(jobs[i], now)]
    BY <1>0, <1>1, <2>3, JobFields DEF CompleteDone, TypeOK, RamTypeOK
  <2>9. jobs'[i].due = AdvancedDue(jobs[i], now)
    BY <1>0, <2>8 DEF Job
  <2>10. \E n \in 1..(Occurrences(jobs[i], now) + 1) :
            /\ AdvancedDue(jobs[i], now) = Repeated(jobs[i].due, jobs[i].repeat, n)
            /\ \/ n = Occurrences(jobs[i], now)
               \/ OneOff(jobs[i], AdvancedDue(jobs[i], now), Occurrences(jobs[i], now), n)
    BY <1>0, AdvancedStep
  <2> QED BY <2>7, <2>9, <2>10 DEF Adds
<1>2. ASSUME missed'[s] = missed[s] \/ missed'[s] = NoMissed
      PROVE  FALSE
  BY <1>0, <1>2 DEF NoMissed
<1>3. ASSUME NEW id, CancelPending(id)
      PROVE  FALSE
  BY <1>0, <1>2, <1>3 DEF CancelPending
<1>4. ASSUME NEW w \in Written, JobRequest(w) \/ Reset(w)
      PROVE  FALSE
  <2>1. ASSUME NEW due, NEW r, NEW t, Add(due, r, t, w)
        PROVE  FALSE
    BY <1>2, <2>1 DEF Add
  <2>2. ASSUME NEW k, NEW job, Reschedule(k, job, w)
        PROVE  FALSE
    BY <1>3, <2>2 DEF Reschedule
  <2>3. ASSUME NEW k, Delete(k, w)
        PROVE  FALSE
    BY <1>3, <2>3 DEF Delete
  <2>4. ASSUME ClearMissed(w)
        PROVE  FALSE
    BY <1>0, <1>2, <2>4 DEF ClearMissed
  <2>5. ASSUME Reset(w)
        PROVE  FALSE
    BY <1>0, <1>2, <2>5 DEF Reset, EmptyMissed
  <2> QED BY <1>4, <2>1, <2>2, <2>3, <2>4, <2>5 DEF JobRequest, Update, Snooze
<1>5. CASE Pass
  BY <1>5, PassKeeps
<1>6. CASE Environment \/ UNCHANGED vars
  BY <1>2, <1>6 DEF Environment, Tick, SyncClock, Reboot, MissedBlob, vars, ram
<1>7. ASSUME NEW k \in Slots, CompleteFailed(k)
      PROVE  FALSE
  BY <1>2, <1>7 DEF CompleteFailed
<1> QED BY <1>1, <1>4, <1>5, <1>6, <1>7 DEF Next, Outcome

(* A repeating job that ran late reports the occurrences that its next due *)
(* time skips: exactly, or one off if it is a job of whole days that the   *)
(* change of the local clock came between (mp_scheduler_complete,          *)
(* mp_time_repeat_next).                                                   *)
THEOREM ReportsAddUp == Spec => ReportCountsSkipped
<1>1. CountsInv /\ [Next]_vars =>
        [\A i \in Active(jobs), s \in Pending(missed) :
           (/\ faults = 0
            /\ missed[s].job = jobs[i].id /\ missed'[s].delivered
            /\ jobs[i].repeat > 0 /\ jobs'[i].id = jobs[i].id)
           => Adds(jobs[i], jobs'[i].due, missed'[s].count)]_vars
  BY ReportStep
<1> QED BY <1>1, CountsInvariant, PTL DEF Spec, ReportCountsSkipped

(***************************************************************************)
(* The job of a pending record is due: a change of the job moves it into   *)
(* the future, so it never is the change to what the job was.              *)
(***************************************************************************)

PendingPast == \A s \in Pending(missed) : missed[s].due <= now

PastInv == CountsInv /\ (faults = 0 => PendingPast)

LEMMA PastKept ==
  ASSUME TypeOK, TypeOK', PendingPast, now <= now',
         \A s \in Pending(missed') : \/ /\ s \in Pending(missed)
                                        /\ missed'[s].due = missed[s].due
                                     \/ missed'[s].due <= now
  PROVE  PendingPast'
<1>1. /\ now \in Nat /\ now' \in Nat
      /\ \A s \in Slots : missed[s].due \in Nat /\ missed'[s].due \in Nat
  BY DEF TypeOK, PassTypeOK, RamTypeOK, Missed
<1>2. ASSUME NEW s \in Pending(missed')
      PROVE  missed'[s].due <= now'
  <2>1. CASE s \in Pending(missed) /\ missed'[s].due = missed[s].due
    <3>1. missed[s].due <= now /\ missed[s].due \in Nat
      BY <1>1, <2>1 DEF PendingPast, Pending
    <3> QED BY <1>1, <2>1, <3>1
  <2>2. CASE missed'[s].due <= now
    <3>1. s \in Slots
      BY <1>2 DEF Pending
    <3> QED BY <1>1, <2>2, <3>1
  <2> QED BY <1>2, <2>1, <2>2
<1> QED BY <1>2 DEF PendingPast

LEMMA RecordPast ==
  ASSUME TypeOK, passNow <= now, NEW i \in Slots, jobs[i].due <= passNow,
         PendingOf(jobs[i].id) # {} \/ MissedRoom, RecordMissed(i)
  PROVE  \A s \in Pending(missed') : \/ /\ s \in Pending(missed)
                                        /\ missed'[s].due = missed[s].due
                                     \/ missed'[s].due <= now
<1> DEFINE n == Occurrences(jobs[i], passNow)
<1>0. /\ missed \in [Slots -> Missed] /\ jobs[i].due \in Nat
      /\ passNow \in Nat /\ now \in Nat
  BY DEF TypeOK, RamTypeOK, PassTypeOK, Job
<1>1. CASE PendingOf(jobs[i].id) # {}
  <2>1. missed' = [r \in Slots |->
                     IF r \in PendingOf(jobs[i].id) /\ n > missed[r].count
                     THEN [missed[r] EXCEPT !.count = n] ELSE missed[r]]
    BY <1>1, Zenon DEF RecordMissed
  <2> HIDE DEF n
  <2>2. \A s \in Slots : /\ missed'[s].job = missed[s].job
                         /\ missed'[s].due = missed[s].due
                         /\ missed'[s].delivered = missed[s].delivered
    BY <1>0, <2>1 DEF Missed
  <2> QED BY <2>2 DEF Pending
<1>2. CASE PendingOf(jobs[i].id) = {}
  <2>1. PICK rec : rec.due = jobs[i].due
                   /\ missed' = [missed EXCEPT ![MissedSlot] = rec]
    BY <1>2 DEF RecordMissed
  <2>2. \A s \in Slots : missed'[s] = rec \/ missed'[s] = missed[s]
    BY <1>0, <2>1
  <2> QED BY <1>0, <2>1, <2>2 DEF Pending
<1> QED BY <1>1, <1>2

LEMMA PastStep ==
  ASSUME PastInv, [Next]_vars, faults' = 0
  PROVE  PendingPast'
<1>1. /\ TypeOK /\ TypeOK' /\ faults = 0 /\ passNow <= now
      /\ fMissed = MissedBlob
  BY StepTyped, NoFaultsBefore, PendingRecord
     DEF PastInv, CountsInv, StoreInv, TypeOK, HistoryTypeOK
<1>2. PendingPast /\ now \in Nat
  BY <1>1 DEF PastInv, TypeOK, PassTypeOK
<1>3. ASSUME now <= now', missed' = missed
      PROVE  PendingPast'
  BY <1>1, <1>2, <1>3, PastKept
<1>4. ASSUME NEW id, CancelPending(id), now' = now
      PROVE  PendingPast'
  BY <1>1, <1>2, <1>4, CancelOwned, PastKept DEF Pending
<1>5. ASSUME NEW w \in Written, JobRequest(w)
      PROVE  PendingPast'
  <2>1. ASSUME NEW due, NEW r, NEW t, Add(due, r, t, w)
        PROVE  PendingPast'
    BY <1>2, <1>3, <2>1 DEF Add, clock
  <2>2. ASSUME NEW k, NEW job, Reschedule(k, job, w)
        PROVE  PendingPast'
    BY <1>4, <2>2 DEF Reschedule, clock
  <2>3. ASSUME NEW k, Delete(k, w)
        PROVE  PendingPast'
    BY <1>4, <2>3 DEF Delete, clock
  <2>4. ASSUME ClearMissed(w)
        PROVE  PendingPast'
    <3>1. \A s \in Slots : missed'[s] = IF missed[s].delivered THEN NoMissed
                                                               ELSE missed[s]
      BY <2>4 DEF ClearMissed
    <3>2. \A s \in Pending(missed') : s \in Pending(missed)
                                      /\ missed'[s] = missed[s]
      BY <3>1 DEF Pending, NoMissed
    <3>3. now' = now
      BY <2>4 DEF ClearMissed, clock
    <3> QED BY <1>1, <1>2, <3>2, <3>3, PastKept
  <2> QED BY <1>5, <2>1, <2>2, <2>3, <2>4 DEF JobRequest, Update, Snooze
<1>6. ASSUME NEW w \in Written, Reset(w)
      PROVE  PendingPast'
  BY <1>6 DEF Reset, PendingPast, Pending, EmptyMissed, NoMissed
<1>7. ASSUME NEW w \in Written, Outcome(w)
      PROVE  PendingPast'
  <2>1. ASSUME NEW k \in Slots, CompleteFailed(k)
        PROVE  PendingPast'
    BY <1>2, <1>3, <2>1 DEF CompleteFailed, clock
  <2>2. ASSUME NEW k \in Slots, CompleteDone(k, w)
        PROVE  PendingPast'
    <3>1. MarkDelivered(jobs[k]) /\ jobs[k] \in Job /\ now' = now
      BY <1>1, <2>2 DEF CompleteDone, TypeOK, RamTypeOK, clock
    <3> QED BY <1>1, <1>2, <3>1, DeliveredOwned, PastKept DEF Pending
  <2> QED BY <1>7, <2>1, <2>2 DEF Outcome
<1>8. CASE Pass
  <2>1. now' = now
    BY <1>8 DEF Pass, PassStart, PassLock, PassUnmarked, PassEmit, MoveOn, clock
  <2>2. ASSUME NEW done, cursor # 0, MarkMissed(cursor, done)
        PROVE  PendingPast'
    <3>1. cursor \in Slots
      BY <1>1, <2>2, NIsNat DEF TypeOK, PassTypeOK, Slots
    <3>2. jobs[cursor].due <= passNow
      BY <2>2 DEF PastInv, CountsInv, PendingInv, MarksInv, CursorDue, Due
    <3>3. \A s \in Pending(missed') : \/ /\ s \in Pending(missed)
                                         /\ missed'[s].due = missed[s].due
                                      \/ missed'[s].due <= now
      BY <1>1, <2>2, <3>1, <3>2, RecordPast DEF MarkMissed
    <3> QED BY <1>1, <1>2, <2>1, <3>3, PastKept
  <2>3. missed' = missed \/ \E done : cursor # 0 /\ MarkMissed(cursor, done)
    BY <1>8 DEF Pass, PassStart, PassLock, PassUnmarked, PassEmit, ram
  <2> QED BY <1>2, <1>3, <2>1, <2>2, <2>3
<1>9. CASE Environment \/ UNCHANGED vars
  <2>1. missed' = missed /\ now <= now'
    BY <1>1, <1>2, <1>9
       DEF Environment, Tick, SyncClock, Reboot, MissedBlob, vars, ram, clock
  <2> QED BY <1>3, <2>1
<1> QED BY <1>5, <1>6, <1>7, <1>8, <1>9 DEF Next

LEMMA KeptStep ==
  ASSUME PastInv, [Next]_vars, NEW s \in Pending(missed), faults = 0,
         missed'[s].job # missed[s].job, missed[s].job \in Ids(jobs')
  PROVE  \E i \in Active(jobs) : jobs[i].id = missed[s].job /\ jobs'[i] # jobs[i]
<1>0. /\ CountsInv /\ TypeOK /\ DistinctIds(jobs, nextId)
      /\ OwnedBy(jobs, missed) /\ fMissed = MissedBlob
      /\ s \in Slots /\ missed[s].delivered = FALSE /\ missed[s].job # 0
  BY PendingRecord DEF PastInv, Pending, TypeOK, RamTypeOK, Missed
<1>1. PICK i \in Active(jobs) : /\ jobs[i].id = missed[s].job
                                /\ jobs[i].due = missed[s].due
  BY <1>0 DEF OwnedBy
<1>2. /\ jobs[i].due <= now /\ i \in Slots /\ now \in Nat /\ jobs[i].due \in Nat
      /\ jobs[i] \in Job
  BY <1>0, <1>1 DEF PastInv, PendingPast, TypeOK, PassTypeOK, RamTypeOK, Active,
                    Job
<1>3. SUFFICES jobs'[i] # jobs[i]
  BY <1>1
<1>4. ASSUME NEW id, CancelPending(id)
      PROVE  id = jobs[i].id
  BY <1>0, <1>1, <1>4 DEF CancelPending, PendingOf
<1>5. ASSUME NEW w \in Written, JobRequest(w)
      PROVE  jobs'[i] # jobs[i]
  <2>1. ASSUME NEW k \in Slots, NEW job, NEW due \in SoonerThan(MaxDelay),
               job.due = due, job.id = jobs[k].id, Reschedule(k, job, w)
        PROVE  jobs'[i] # jobs[i]
    <3>1. CancelPending(job.id) /\ k \in Active(jobs)
      BY <2>1 DEF Reschedule
    <3>2. k = i
      BY <1>0, <1>4, <2>1, <3>1 DEF DistinctIds
    <3>3. jobs'[i].due = due /\ due > now
      BY <1>0, <2>1, <3>2 DEF Reschedule, TypeOK, RamTypeOK
    <3> QED BY <1>2, <3>3
  <2>2. ASSUME NEW k \in Slots, Delete(k, w)
        PROVE  jobs'[i] # jobs[i]
    <3>1. CancelPending(jobs[k].id) /\ k \in Active(jobs)
      BY <2>2 DEF Delete
    <3>2. k = i
      BY <1>0, <1>4, <3>1 DEF DistinctIds
    <3>3. jobs'[i].id = 0
      BY <1>0, <2>2, <3>2 DEF Delete, TypeOK, RamTypeOK, NoJob
    <3> QED BY <1>0, <1>1, <3>3
  <2>3. ASSUME ClearMissed(w)
        PROVE  FALSE
    BY <1>0, <2>3 DEF ClearMissed
  <2>4. ASSUME NEW due, NEW r, NEW t, Add(due, r, t, w)
        PROVE  FALSE
    BY <2>4 DEF Add
  <2>5. ASSUME NEW k \in Slots, NEW due
        PROVE  /\ [jobs[k] EXCEPT !.due = due].id = jobs[k].id
               /\ [jobs[k] EXCEPT !.due = due].due = due
    BY <1>0 DEF TypeOK, RamTypeOK, Job
  <2> QED BY <1>5, <2>1, <2>2, <2>3, <2>4, <2>5 DEF JobRequest, Update, Snooze
<1>6. ASSUME NEW w \in Written, Reset(w)
      PROVE  FALSE
  BY <1>6 DEF Reset, EmptyJobs, NoJob, Ids, Active
<1>7. ASSUME NEW k \in Slots, NEW w \in Written,
             CompleteFailed(k) \/ CompleteDone(k, w)
      PROVE  FALSE
  <2>1. missed[s] \in Missed
    BY <1>0 DEF TypeOK, RamTypeOK
  <2>2. ASSUME NEW job, MarkDelivered(job)
        PROVE  FALSE
    <3>1. \/ missed'[s] = missed[s]
          \/ \E n : missed'[s] = [missed[s] EXCEPT !.delivered = TRUE, !.count = n]
      BY <1>0, <2>2, Zenon DEF MarkDelivered
    <3> QED BY <2>1, <3>1 DEF Missed
  <2> QED BY <1>7, <2>2 DEF CompleteFailed, CompleteDone
<1>8. CASE Pass
  BY <1>0, <1>8, PassKeeps
<1>9. CASE Environment \/ UNCHANGED vars
  BY <1>0, <1>9 DEF Environment, Tick, SyncClock, Reboot, MissedBlob, vars, ram
<1> QED BY <1>5, <1>6, <1>7, <1>8, <1>9 DEF Next, Outcome

(* A pending reminder leaves the history only with its job, or when the    *)
(* job is changed: neither /missed clear nor the reuse of slots nor a      *)
(* reboot loses it.                                                        *)
THEOREM PendingRemindersKept == Spec => PendingKept
<1>1. Init => PastInv
  BY CountsInit, PendingInit
     DEF PastInv, PendingPast, Init, Pending, EmptyMissed, NoMissed
<1>2. PastInv /\ [Next]_vars => PastInv'
  BY PastStep, CountsInvStep DEF PastInv
<1>3. PastInv /\ [Next]_vars =>
        [\A s \in Pending(missed) :
           \/ faults # 0
           \/ missed'[s].job = missed[s].job
           \/ missed[s].job \notin Ids(jobs')
           \/ \E i \in Active(jobs) : jobs[i].id = missed[s].job /\ jobs'[i] # jobs[i]]_vars
  BY KeptStep
<1> QED BY <1>1, <1>2, <1>3, PTL DEF Spec, PendingKept
(***************************************************************************)
(* The job store together with the agent that runs the jobs                *)
(***************************************************************************)
LEMMA TurnsStepIsStoreStep == [TurnsNext]_allVars => [Next]_vars
<1> SUFFICES ASSUME [TurnsNext]_allVars
             PROVE  [Next]_vars
  OBVIOUS
<1>1. CASE TurnsTick \/ TurnsReboot
  BY <1>1 DEF TurnsTick, TurnsReboot, Next, Environment
<1>2. CASE TurnsPass
  BY <1>2 DEF TurnsPass, TurnsPassEmit, TurnsPassOther, Next, Pass
<1>3. CASE WifiDown \/ WifiUp \/ Chat \/ Receive \/ AskShouldRun
           \/ \E i \in Slots : ToolRunNow(i)
  BY <1>3 DEF WifiDown, WifiUp, Chat, Receive, AskShouldRun, ToolRunNow
<1>4. CASE FailTurn
  BY <1>4 DEF FailTurn, SlotsOf, Active, Next, Outcome, Written
<1>5. ASSUME NEW w \in Written, ConsoleReset(w) \/ ToolCall(w)
      PROVE  [Next]_vars
  BY <1>5 DEF ConsoleReset, ToolCall, Next
<1>6. ASSUME NEW w \in Written, FinishTurn(w)
      PROVE  [Next]_vars
  BY <1>6 DEF FinishTurn, SlotsOf, Active, Next, Outcome
<1>7. CASE UNCHANGED allVars
  BY <1>7 DEF allVars
<1> QED BY <1>1, <1>2, <1>3, <1>4, <1>5, <1>6, <1>7 DEF TurnsNext

(* The agent, its queue and the console use the store only through its     *)
(* operations: the composition implements the store.                       *)
THEOREM TurnsImplementStore == TurnsSpec => Spec
<1>1. TurnsInit => Init
  BY DEF TurnsInit
<1> QED BY <1>1, TurnsStepIsStoreStep, PTL DEF TurnsSpec, Spec

(***************************************************************************)
(* Types.                                                                  *)
(***************************************************************************)

TurnsInv0 == TypeOK /\ TurnsTypeOK /\ (stage = "idle" => turn = NoTurn)

LEMMA NoTurnTyped == NoTurn \in Message
BY DEF NoTurn, Message

LEMMA EnqueueTyped ==
  ASSUME TurnsTypeOK, NEW id \in Nat, NEW text \in Texts \cup {NoText},
         Enqueue(id, text)
  PROVE  queue' \in Seq(Message) /\ Len(queue') <= QueueLength
<1>1. [id |-> id, text |-> text, era |-> resets] \in Message
  BY DEF TurnsTypeOK, Message
<1>2. Len(queue') = Len(queue) + 1 /\ Len(queue) \in Nat /\ QueueLength \in Nat
  BY <1>1, TurnsAssumption DEF Enqueue, TurnsTypeOK
<1> QED BY <1>1, <1>2 DEF Enqueue, TurnsTypeOK

LEMMA TurnsTypedStep ==
  ASSUME TurnsInv0, [TurnsNext]_allVars
  PROVE  TurnsTypeOK' /\ (stage = "idle" => turn = NoTurn)'
<1> DEFINE Agent == TurnsTypeOK' /\ (stage' = "idle" => turn' = NoTurn)
<1> USE DEF TurnsInv0
<1>1. CASE TurnsTick \/ TurnsPassOther \/ WifiUp \/ UNCHANGED allVars
  BY <1>1 DEF TurnsTick, TurnsPassOther, WifiUp, allVars, agent, counts,
              TurnsTypeOK
<1>2. CASE TurnsReboot
  BY <1>2, NoTurnTyped, TurnsAssumption DEF TurnsReboot, counts, TurnsTypeOK
<1>3. CASE WifiDown
  <2>1. wifi' \in BOOLEAN
    BY <1>3 DEF WifiDown
  <2>2. drops' \in Nat /\ UNCHANGED <<agent, chats, failures, resets>>
    BY <1>3 DEF WifiDown, TurnsTypeOK
  <2> QED BY <2>1, <2>2 DEF agent, TurnsTypeOK
<1>4. ASSUME NEW id \in Nat, NEW text \in Texts \cup {NoText},
             Enqueue(id, text), chats' \in Nat,
             UNCHANGED <<wifi, stage, turn, drops, failures, resets>>
      PROVE  Agent
  BY <1>4, EnqueueTyped DEF TurnsTypeOK
<1>5. CASE Chat
  BY <1>4, <1>5 DEF Chat, TurnsTypeOK
<1>6. ASSUME NEW i \in Slots, ToolRunNow(i)
      PROVE  Agent
  <2>1. jobs[i].text \in Texts \cup {NoText}
    BY DEF TypeOK, RamTypeOK, Job
  <2> QED BY <1>4, <1>6, <2>1 DEF ToolRunNow, TurnsTypeOK
<1>7. CASE TurnsPassEmit
  <2>1. CASE PassEmit(FALSE) /\ UNCHANGED <<wifi, agent, counts>>
    BY <2>1 DEF agent, counts, TurnsTypeOK
  <2>2. CASE /\ PassEmit(TRUE) /\ Enqueue(jobs[cursor].id, jobs[cursor].text)
             /\ UNCHANGED <<wifi, stage, turn, counts>>
    <3>1. cursor \in Slots
      BY <2>2, NIsNat DEF PassEmit, TypeOK, PassTypeOK, Slots
    <3>2. jobs[cursor].id \in Nat /\ jobs[cursor].text \in Texts \cup {NoText}
      BY <3>1 DEF TypeOK, RamTypeOK, Job
    <3> QED BY <1>4, <2>2, <3>2 DEF counts, TurnsTypeOK
  <2> QED BY <1>7, <2>1, <2>2 DEF TurnsPassEmit
<1>8. CASE Receive
  <2>1. /\ queue # <<>> /\ turn' = Head(queue) /\ queue' = Tail(queue)
        /\ stage' = "ask" /\ UNCHANGED <<wifi, counts>>
    BY <1>8 DEF Receive
  <2>2. turn' \in Message
    BY <2>1 DEF TurnsTypeOK
  <2>3. queue' \in Seq(Message) /\ Len(queue') = Len(queue) - 1
    BY <2>1 DEF TurnsTypeOK
  <2>4. Len(queue') <= QueueLength
    BY <2>3, TurnsAssumption DEF TurnsTypeOK
  <2> QED BY <2>1, <2>2, <2>3, <2>4 DEF TurnsTypeOK, counts
<1>9. CASE AskShouldRun
  <2>1. /\ \/ stage' = "run" /\ turn' = turn
           \/ stage' = "idle" /\ turn' = NoTurn
        /\ UNCHANGED <<wifi, queue, counts>>
    BY <1>9 DEF AskShouldRun
  <2> QED BY <2>1, NoTurnTyped DEF TurnsTypeOK, counts
<1>10. ASSUME NEW w \in Written, ConsoleReset(w) \/ ToolCall(w)
       PROVE  Agent
  <2>1. UNCHANGED <<wifi, agent, chats, drops, failures>> /\ resets' \in Nat
    BY <1>10 DEF ConsoleReset, ToolCall, TurnsTypeOK
  <2> QED BY <2>1 DEF agent, TurnsTypeOK
<1>11. CASE FailTurn \/ \E w \in Written : FinishTurn(w)
  <2>1. /\ stage' = "idle" /\ turn' = NoTurn /\ failures' \in Nat
        /\ UNCHANGED <<wifi, queue, chats, drops, resets>>
    BY <1>11 DEF FailTurn, FinishTurn, TurnEnds, counts, TurnsTypeOK
  <2> QED BY <2>1, NoTurnTyped DEF TurnsTypeOK
<1> QED BY <1>1, <1>2, <1>3, <1>5, <1>6, <1>7, <1>8, <1>9, <1>10, <1>11
           DEF TurnsNext, TurnsPass

LEMMA TurnsInitTyped == TurnsInit => TurnsInv0
<1> SUFFICES ASSUME TurnsInit
             PROVE  TurnsInv0
  OBVIOUS
<1>1. TypeOK
  BY InitTyped DEF TurnsInit
<1>2. TurnsTypeOK
  BY NoTurnTyped, TurnsAssumption DEF TurnsInit, TurnsTypeOK
<1> QED BY <1>1, <1>2 DEF TurnsInv0, TurnsInit

LEMMA TurnsInv0Step == TurnsInv0 /\ [TurnsNext]_allVars => TurnsInv0'
BY TurnsTypedStep, TurnsStepIsStoreStep, StepTyped DEF TurnsInv0

(* The agent's variables keep their types, and its queue its bound.        *)
THEOREM TurnsTypeCorrect == TurnsSpec => []TurnsTypeOK
<1>1. TurnsInv0 => TurnsTypeOK
  BY DEF TurnsInv0
<1> QED BY <1>1, TurnsInitTyped, TurnsInv0Step, PTL DEF TurnsSpec

(***************************************************************************)
(* A job in flight is carried by a message.                                *)
(***************************************************************************)

Carried(q, t, id) == t.id = id \/ \E m \in DOMAIN q : q[m].id = id

CarriedInv == /\ StoreInv /\ MarksInv /\ TurnsInv0
              /\ \A i \in inflight : Carried(queue, turn, jobs[i].id)

LEMMA CarriedFacts ==
  ASSUME CarriedInv
  PROVE  /\ \A i \in inflight : i \in Active(jobs) /\ jobs[i].id # 0
         /\ \A i, j \in Active(jobs) : jobs[i].id = jobs[j].id => i = j
         /\ queue \in Seq(Message)
         /\ TypeOK
         /\ NoTurn.id = 0
<1>1. \A i \in inflight : i \in Active(jobs) /\ jobs[i].id # 0
  BY DEF CarriedInv, MarksInv, IdleSlotsClean, TypeOK, RamTypeOK, Active
<1>2. \A i, j \in Active(jobs) : jobs[i].id = jobs[j].id => i = j
  BY StoreFacts DEF CarriedInv, DistinctIds
<1>3. queue \in Seq(Message) /\ TypeOK
  BY DEF CarriedInv, TurnsInv0, TurnsTypeOK
<1> QED BY <1>1, <1>2, <1>3 DEF NoTurn

(* What is carried stays carried when the queue only grows.                *)
LEMMA EnqueueCarries ==
  ASSUME queue \in Seq(Message), NEW id, NEW text, Enqueue(id, text),
         turn' = turn
  PROVE  /\ Carried(queue', turn', id)
         /\ \A j : Carried(queue, turn, j) => Carried(queue', turn', j)
<1> DEFINE message == [id |-> id, text |-> text, era |-> resets]
<1>1. queue' = Append(queue, message)
  BY DEF Enqueue
<1>2. /\ Len(queue') = Len(queue) + 1 /\ Len(queue) \in Nat
      /\ DOMAIN queue' = 1..(Len(queue) + 1) /\ DOMAIN queue = 1..Len(queue)
      /\ queue'[Len(queue) + 1] = message
      /\ \A m \in 1..Len(queue) : queue'[m] = queue[m]
  BY <1>1
<1>3. \A m \in DOMAIN queue : m \in DOMAIN queue' /\ queue'[m] = queue[m]
  BY <1>2
<1>4. Len(queue) + 1 \in DOMAIN queue' /\ message.id = id
  BY <1>2
<1> QED BY <1>2, <1>3, <1>4 DEF Carried

LEMMA CarriedStep ==
  ASSUME CarriedInv, [TurnsNext]_allVars, NEW i \in inflight'
  PROVE  Carried(queue', turn', jobs'[i].id)
<1> DEFINE Kept == i \in inflight /\ jobs'[i].id = jobs[i].id
<1> USE CarriedFacts
<1>1. ASSUME Kept, UNCHANGED <<queue, turn>>
      PROVE  Carried(queue', turn', jobs'[i].id)
  BY <1>1 DEF CarriedInv, Carried
<1>2. ASSUME NEW id, NEW text, Kept, Enqueue(id, text), turn' = turn
      PROVE  Carried(queue', turn', jobs'[i].id)
  BY <1>2, EnqueueCarries DEF CarriedInv
<1>3. ASSUME NEW w, JobRequest(w)
      PROVE  Kept
  <2>1. ASSUME NEW due, NEW r, NEW t, Add(due, r, t, w)
        PROVE  Kept
    <3>1. Least(Slots \ Active(jobs)) \notin Active(jobs) /\ i \in inflight
      BY <2>1, LeastSlot DEF Add, Active
    <3> QED BY <2>1, <3>1 DEF Add, TypeOK, RamTypeOK
  <2>2. ASSUME NEW k \in Slots, NEW job, job.id = jobs[k].id,
               Reschedule(k, job, w)
        PROVE  Kept
    BY <2>2 DEF Reschedule, TypeOK, RamTypeOK
  <2>3. ASSUME NEW k \in Slots, Delete(k, w)
        PROVE  Kept
    BY <2>3 DEF Delete, TypeOK, RamTypeOK
  <2>4. ASSUME ClearMissed(w)
        PROVE  Kept
    BY <2>4 DEF ClearMissed
  <2>5. ASSUME NEW k \in Slots, NEW due
        PROVE  [jobs[k] EXCEPT !.due = due].id = jobs[k].id
    BY DEF TypeOK, RamTypeOK, Job
  <2> QED BY <1>3, <2>1, <2>2, <2>3, <2>4, <2>5 DEF JobRequest, Update, Snooze
<1>4. ASSUME NEW w, Reset(w)
      PROVE  FALSE
  BY <1>4 DEF Reset
<1>5. ASSUME NEW w \in Written, ConsoleReset(w) \/ ToolCall(w)
      PROVE  Carried(queue', turn', jobs'[i].id)
  BY <1>1, <1>3, <1>4, <1>5 DEF ConsoleReset, ToolCall, agent
<1>6. CASE TurnsPassEmit
  <2>1. CASE PassEmit(FALSE) /\ UNCHANGED agent
    BY <1>1, <2>1 DEF PassEmit, agent
  <2>2. CASE /\ PassEmit(TRUE) /\ Enqueue(jobs[cursor].id, jobs[cursor].text)
             /\ turn' = turn
    <3>1. jobs' = jobs /\ (i \in inflight \/ i = cursor)
      BY <2>2 DEF PassEmit
    <3>2. CASE i = cursor
      BY <2>2, <3>1, <3>2, EnqueueCarries
    <3>3. CASE i \in inflight
      BY <1>2, <2>2, <3>1, <3>3
    <3> QED BY <3>1, <3>2, <3>3
  <2> QED BY <1>6, <2>1, <2>2 DEF TurnsPassEmit
<1>7. CASE TurnsPassOther
  BY <1>1, <1>7 DEF TurnsPassOther, PassStart, PassLock, PassUnmarked, ram, agent
<1>8. CASE TurnsReboot
  BY <1>8 DEF TurnsReboot, Reboot
<1>9. CASE Chat \/ \E k \in Slots : ToolRunNow(k)
  BY <1>2, <1>9 DEF Chat, ToolRunNow, vars, ram
<1>10. CASE Receive
  <2>1. /\ queue # <<>> /\ turn' = Head(queue) /\ queue' = Tail(queue)
        /\ turn.id = 0 /\ Kept
    BY <1>10 DEF Receive, CarriedInv, TurnsInv0, vars, ram
  <2>2. PICK m \in DOMAIN queue : queue[m].id = jobs[i].id
    BY <2>1 DEF CarriedInv, Carried
  <2>3. /\ m \in 1..Len(queue) /\ Len(queue) \in Nat
        /\ turn' = queue[1] /\ DOMAIN queue' = 1..(Len(queue) - 1)
        /\ \A k \in 1..(Len(queue) - 1) : queue'[k] = queue[k + 1]
    BY <2>1, <2>2
  <2>4. CASE m = 1
    BY <2>1, <2>2, <2>3, <2>4 DEF Carried
  <2>5. CASE m # 1
    <3>1. m - 1 \in DOMAIN queue' /\ queue'[m - 1] = queue[m]
      BY <2>3, <2>5
    <3> QED BY <2>1, <2>2, <3>1 DEF Carried
  <2> QED BY <2>4, <2>5
<1>11. CASE AskShouldRun
  <2>1. Kept /\ queue' = queue
    BY <1>11 DEF AskShouldRun, vars, ram
  <2>2. turn' = turn \/ jobs[i].id # turn.id
    BY <1>11, <2>1 DEF AskShouldRun
  <2> QED BY <2>1, <2>2 DEF CarriedInv, Carried
<1>12. ASSUME NEW k \in SlotsOf(turn.id), NEW w,
              CompleteDone(k, w) \/ CompleteFailed(k), queue' = queue
       PROVE  Carried(queue', turn', jobs'[i].id)
  <2>1. k \in Active(jobs) /\ jobs[k].id = turn.id /\ k \in Slots
    BY DEF SlotsOf, Active
  <2>2. i \in inflight /\ i # k
    BY <1>12 DEF CompleteDone, CompleteFailed
  <2>3. jobs'[i] = jobs[i]
    BY <1>12, <2>1, <2>2 DEF CompleteDone, CompleteFailed, TypeOK, RamTypeOK
  <2>4. jobs[i].id # turn.id
    BY <2>1, <2>2
  <2> QED BY <1>12, <2>2, <2>3, <2>4 DEF CarriedInv, Carried
<1>13. ASSUME UNCHANGED <<vars, queue>>, turn.id = 0 \/ SlotsOf(turn.id) = {}
       PROVE  Carried(queue', turn', jobs'[i].id)
  <2>1. Kept
    BY <1>13 DEF vars, ram
  <2>2. jobs[i].id # turn.id
    BY <1>13, <2>1 DEF SlotsOf
  <2> QED BY <1>13, <2>1, <2>2 DEF CarriedInv, Carried
<1>14. CASE FailTurn \/ \E w \in Written : FinishTurn(w)
  BY <1>12, <1>13, <1>14 DEF FailTurn, FinishTurn
<1>15. CASE TurnsTick \/ WifiDown \/ WifiUp \/ UNCHANGED allVars
  BY <1>1, <1>15 DEF TurnsTick, Tick, SyncClock, WifiDown, WifiUp, allVars,
                     vars, ram, agent
<1> QED BY <1>5, <1>6, <1>7, <1>8, <1>9, <1>10, <1>11, <1>14, <1>15
           DEF TurnsNext, TurnsPass

LEMMA CarriedInvStep == CarriedInv /\ [TurnsNext]_allVars => CarriedInv'
BY CarriedStep, TurnsStepIsStoreStep, StoreStep, StepTyped, MarksStep,
   TurnsInv0Step DEF CarriedInv, MarksInv

LEMMA CarriedInit == TurnsInit => CarriedInv
<1> SUFFICES ASSUME TurnsInit
             PROVE  CarriedInv
  OBVIOUS
<1>1. Init /\ inflight = {} /\ cursor = 0
  BY DEF TurnsInit, Init
<1>2. MarksInv
  BY <1>1, InitTyped DEF MarksInv, Init, IdleSlotsClean, CursorDue
<1> QED BY <1>1, <1>2, StoreInit, TurnsInitTyped DEF CarriedInv

(* A job in flight always has its message in the queue or at the agent,    *)
(* across resets, deletions, failed runs and reboots.                      *)
THEOREM InflightJobsCarried == TurnsSpec => []InflightCarried
<1>1. CarriedInv => InflightCarried
  BY DEF CarriedInv, Carried, InflightCarried
<1> QED BY <1>1, CarriedInit, CarriedInvStep, PTL DEF TurnsSpec

(* The types of queue and turn, and a message for each job in flight.      *)
THEOREM TurnsStaySound == TurnsSpec => []TurnsSound
<1>1. TurnsTypeOK /\ InflightCarried => TurnsSound
  BY DEF TurnsSound
<1> QED BY <1>1, TurnsTypeCorrect, InflightJobsCarried, PTL

(***************************************************************************)
(* Without a reset no id is used twice, so a message speaks of one job     *)
(* only: that job is in flight, has the text the message carries, and is   *)
(* the subject of no other message.                                        *)
(***************************************************************************)

Speaks(m) ==
  m.id # 0 => /\ m.id < nextId
              /\ \A i \in SlotsOf(m.id) : i \in inflight /\ jobs[i].text = m.text

Unshared(q, t) ==
  /\ \A m \in DOMAIN q : q[m].id # 0 => q[m].id # t.id
  /\ \A m, n \in DOMAIN q : q[m].id # 0 /\ q[m].id = q[n].id => m = n

SpeakInv ==
  /\ CarriedInv
  /\ resets = 0 => /\ \A m \in DOMAIN queue : Speaks(queue[m])
                   /\ Speaks(turn)
                   /\ Unshared(queue, turn)

LEMMA SpeakFacts ==
  ASSUME SpeakInv
  PROVE  /\ TypeOK /\ CarriedInv /\ queue \in Seq(Message) /\ turn \in Message
         /\ nextId \in Nat /\ resets \in Nat
         /\ \A i \in Active(jobs) : jobs[i].id < nextId /\ jobs[i].id \in Nat
         /\ \A i, j \in Active(jobs) : jobs[i].id = jobs[j].id => i = j
         /\ cursor # 0 => cursor \in Active(jobs) /\ cursor \notin inflight
<1>1. /\ TypeOK /\ CarriedInv /\ queue \in Seq(Message) /\ turn \in Message
      /\ nextId \in Nat /\ resets \in Nat
  BY DEF SpeakInv, CarriedInv, TurnsInv0, TurnsTypeOK, TypeOK, RamTypeOK
<1>2. /\ \A i \in Active(jobs) : jobs[i].id < nextId /\ jobs[i].id \in Nat
      /\ \A i, j \in Active(jobs) : jobs[i].id = jobs[j].id => i = j
  BY StoreFacts DEF SpeakInv, CarriedInv, DistinctIds, Active
<1>3. cursor # 0 => cursor \in Active(jobs) /\ cursor \notin inflight
  BY DEF SpeakInv, CarriedInv, MarksInv, CursorDue, Due
<1> QED BY <1>1, <1>2, <1>3

(* Requests leave the jobs of messages alone, for those are in flight.     *)
LEMMA RequestSpeaks ==
  ASSUME SpeakInv, NEW w, JobRequest(w), NEW m \in Message, Speaks(m)
  PROVE  Speaks(m)'
<1> USE SpeakFacts
<1> SUFFICES ASSUME m.id # 0
             PROVE  /\ m.id < nextId'
                    /\ \A i \in Slots : jobs'[i].id = m.id =>
                         i \in inflight' /\ jobs'[i].text = m.text
  BY DEF Speaks, SlotsOf, Active
<1>1. /\ m.id \in Nat /\ m.id < nextId
      /\ \A i \in Slots : jobs[i].id = m.id =>
           i \in inflight /\ jobs[i].text = m.text
  BY DEF Speaks, SlotsOf, Active, Message
<1>2. ASSUME NEW due, NEW r, NEW t, Add(due, r, t, w)
      PROVE  /\ m.id < nextId'
             /\ \A i \in Slots : jobs'[i].id = m.id =>
                  i \in inflight' /\ jobs'[i].text = m.text
  <2> DEFINE slot == Least(Slots \ Active(jobs))
  <2>1. slot \in Slots
    BY <1>2, LeastSlot DEF Add, Active
  <2>2. /\ \A k \in Slots : k # slot => jobs'[k] = jobs[k]
        /\ jobs'[slot].id = nextId
        /\ nextId' = nextId + 1 /\ inflight' = inflight
    BY <1>2, <2>1 DEF Add, TypeOK, RamTypeOK
  <2> HIDE DEF slot
  <2> QED BY <1>1, <2>1, <2>2
<1>3. ASSUME NEW k \in Slots, NEW job, job.id = jobs[k].id, Reschedule(k, job, w)
      PROVE  /\ m.id < nextId'
             /\ \A i \in Slots : jobs'[i].id = m.id =>
                  i \in inflight' /\ jobs'[i].text = m.text
  <2>1. /\ \A i \in Slots : i # k => jobs'[i] = jobs[i]
        /\ jobs'[k].id = jobs[k].id
        /\ nextId' = nextId /\ inflight' = inflight
        /\ k \notin inflight
    BY <1>3 DEF Reschedule, TypeOK, RamTypeOK
  <2> QED BY <1>1, <2>1
<1>4. ASSUME NEW k \in Slots, Delete(k, w)
      PROVE  /\ m.id < nextId'
             /\ \A i \in Slots : jobs'[i].id = m.id =>
                  i \in inflight' /\ jobs'[i].text = m.text
  <2>1. /\ \A i \in Slots : i # k => jobs'[i] = jobs[i]
        /\ jobs'[k].id = 0
        /\ nextId' = nextId /\ inflight' = inflight \ {k}
    BY <1>4 DEF Delete, TypeOK, RamTypeOK, NoJob
  <2> QED BY <1>1, <2>1
<1>5. ASSUME ClearMissed(w)
      PROVE  /\ m.id < nextId'
             /\ \A i \in Slots : jobs'[i].id = m.id =>
                  i \in inflight' /\ jobs'[i].text = m.text
  BY <1>1, <1>5 DEF ClearMissed
<1>6. ASSUME NEW k \in Slots, NEW due
      PROVE  [jobs[k] EXCEPT !.due = due].id = jobs[k].id
  BY DEF TypeOK, RamTypeOK, Job
<1> QED BY <1>2, <1>3, <1>4, <1>5, <1>6 DEF JobRequest, Update, Snooze

(* The end of a turn leaves the jobs of the queued messages alone.         *)
LEMMA OutcomeSpeaks ==
  ASSUME SpeakInv, NEW w, NEW k \in SlotsOf(turn.id),
         CompleteDone(k, w) \/ CompleteFailed(k),
         NEW m \in Message, m.id # turn.id, Speaks(m)
  PROVE  Speaks(m)'
<1> USE SpeakFacts
<1>1. k \in Slots /\ jobs[k].id = turn.id
  BY DEF SlotsOf, Active
<1>2. /\ \A i \in Slots : i # k => jobs'[i] = jobs[i]
      /\ jobs'[k].id = jobs[k].id \/ jobs'[k].id = 0
      /\ nextId' = nextId /\ inflight' = inflight \ {k}
  BY <1>1 DEF CompleteDone, CompleteFailed, TypeOK, RamTypeOK, Job, NoJob
<1> QED BY <1>1, <1>2 DEF Speaks, SlotsOf, Active

QueueSpeaks == /\ \A m \in DOMAIN queue : Speaks(queue[m])
               /\ Speaks(turn)
               /\ Unshared(queue, turn)

LEMMA QuietStep ==
  ASSUME SpeakInv, QueueSpeaks, queue' = queue, turn' = turn \/ turn' = NoTurn,
         \A x \in Message : /\ x.id = turn.id => turn' = turn
                            /\ Speaks(x)
                            => Speaks(x)'
  PROVE  QueueSpeaks'
<1> USE SpeakFacts
<1>1. \A m \in DOMAIN queue : queue[m] \in Message
  OBVIOUS
<1>2. Speaks(turn)'
  <2>1. CASE turn' = turn
    BY <2>1 DEF QueueSpeaks, Speaks
  <2>2. CASE turn' = NoTurn
    BY <2>2 DEF Speaks, NoTurn
  <2> QED BY <2>1, <2>2
<1>3. Unshared(queue', turn')
  BY DEF QueueSpeaks, Unshared, NoTurn
<1>4. ASSUME NEW m \in DOMAIN queue
      PROVE  Speaks(queue[m])'
  <2>1. CASE queue[m].id = turn.id /\ turn' # turn
    <3>1. queue'[m].id = 0
      BY <2>1 DEF QueueSpeaks, Unshared
    <3> QED BY <3>1 DEF Speaks
  <2>2. CASE ~(queue[m].id = turn.id /\ turn' # turn)
    <3>1. Speaks(queue[m])
      BY DEF QueueSpeaks
    <3> QED BY <1>1, <2>2, <3>1 DEF Speaks
  <2> QED BY <2>1, <2>2
<1> QED BY <1>2, <1>3, <1>4 DEF QueueSpeaks

LEMMA EnqueueSpeaks ==
  ASSUME SpeakInv, QueueSpeaks, NEW id \in Nat, NEW text, Enqueue(id, text),
         turn' = turn, UNCHANGED <<jobs, nextId>>,
         inflight \in SUBSET inflight',
         id # 0 => /\ id < nextId
                   /\ \A i \in SlotsOf(id) : i \in inflight' /\ jobs[i].text = text
                   /\ \A m \in DOMAIN queue : queue[m].id # id
                   /\ turn.id # id
  PROVE  QueueSpeaks'
<1> USE SpeakFacts
<1> DEFINE message == [id |-> id, text |-> text, era |-> resets]
<1>1. queue' = Append(queue, message)
  BY DEF Enqueue
<1>2. /\ Len(queue) \in Nat /\ DOMAIN queue = 1..Len(queue)
      /\ DOMAIN queue' = 1..(Len(queue) + 1)
      /\ queue'[Len(queue) + 1] = message
      /\ \A m \in 1..Len(queue) : queue'[m] = queue[m]
  BY <1>1
<1>3. message.id = id /\ message.text = text
  OBVIOUS
<1> HIDE DEF message
<1>4. \A m \in DOMAIN queue' : \/ m \in DOMAIN queue /\ queue'[m] = queue[m]
                               \/ m = Len(queue) + 1 /\ queue'[m] = message
  BY <1>2
<1>5. ASSUME NEW m \in DOMAIN queue'
      PROVE  Speaks(queue[m])'
  <2>1. CASE m \in DOMAIN queue /\ queue'[m] = queue[m]
    BY <2>1 DEF QueueSpeaks, Speaks, SlotsOf, Active
  <2>2. CASE queue'[m] = message
    BY <1>3, <2>2 DEF Speaks, SlotsOf, Active
  <2> QED BY <1>4, <2>1, <2>2
<1>6. Speaks(turn)'
  BY DEF QueueSpeaks, Speaks, SlotsOf, Active
<1>7. Unshared(queue', turn')
  BY <1>2, <1>3, <1>4 DEF QueueSpeaks, Unshared
<1> QED BY <1>5, <1>6, <1>7 DEF QueueSpeaks

LEMMA ReceiveSpeaks ==
  ASSUME SpeakInv, QueueSpeaks, Receive
  PROVE  QueueSpeaks'
<1> USE SpeakFacts
<1>1. /\ queue # <<>> /\ turn' = Head(queue) /\ queue' = Tail(queue)
      /\ UNCHANGED <<jobs, nextId, inflight>>
  BY DEF Receive, vars, ram
<1>2. /\ Len(queue) \in Nat \ {0} /\ DOMAIN queue = 1..Len(queue)
      /\ turn' = queue[1] /\ DOMAIN queue' = 1..(Len(queue) - 1)
      /\ \A k \in 1..(Len(queue) - 1) : queue'[k] = queue[k + 1]
  BY <1>1
<1>3. \A k \in DOMAIN queue' : /\ queue'[k] = queue[k + 1] /\ k + 1 \in DOMAIN queue
                               /\ k \in Int /\ k + 1 # 1
  BY <1>2
<1>4. 1 \in DOMAIN queue
  BY <1>2
<1>5. ASSUME NEW m \in DOMAIN queue'
      PROVE  Speaks(queue[m])'
  BY <1>1, <1>3 DEF QueueSpeaks, Speaks, SlotsOf, Active
<1>6. Speaks(turn)'
  BY <1>1, <1>2, <1>4 DEF QueueSpeaks, Speaks, SlotsOf, Active
<1>7. Unshared(queue', turn')
  <2>1. ASSUME NEW m \in DOMAIN queue', queue'[m].id # 0
        PROVE  queue'[m].id # turn'.id
    BY <1>2, <1>3, <1>4, <2>1 DEF QueueSpeaks, Unshared
  <2>2. ASSUME NEW m \in DOMAIN queue', NEW n \in DOMAIN queue',
               queue'[m].id # 0, queue'[m].id = queue'[n].id
        PROVE  m = n
    <3>1. m + 1 = n + 1
      BY <1>3, <2>2 DEF QueueSpeaks, Unshared
    <3> QED BY <1>3, <3>1
  <2> QED BY <2>1, <2>2 DEF Unshared
<1> QED BY <1>5, <1>6, <1>7 DEF QueueSpeaks

LEMMA ResetsGrow ==
  ASSUME [TurnsNext]_allVars
  PROVE  resets' = resets \/ resets' = resets + 1
<1>1. CASE TurnsTick \/ TurnsReboot \/ WifiDown \/ WifiUp \/ Chat
  BY <1>1 DEF TurnsTick, TurnsReboot, WifiDown, WifiUp, Chat, counts
<1>2. CASE TurnsPass \/ Receive \/ AskShouldRun \/ FailTurn
  BY <1>2 DEF TurnsPass, TurnsPassEmit, TurnsPassOther, Receive, AskShouldRun,
              FailTurn, counts
<1>3. CASE \E w \in Written : ConsoleReset(w) \/ ToolCall(w) \/ FinishTurn(w)
  BY <1>3 DEF ConsoleReset, ToolCall, FinishTurn, counts
<1>4. CASE \E i \in Slots : ToolRunNow(i)
  BY <1>4 DEF ToolRunNow
<1>5. CASE UNCHANGED allVars
  BY <1>5 DEF allVars, counts
<1> QED BY <1>1, <1>2, <1>3, <1>4, <1>5 DEF TurnsNext

LEMMA SpeakStep ==
  ASSUME SpeakInv, [TurnsNext]_allVars, resets' = 0
  PROVE  QueueSpeaks'
<1> USE SpeakFacts
<1>1. ASSUME UNCHANGED <<jobs, nextId, inflight>>
      PROVE  \A x \in Message : Speaks(x) => Speaks(x)'
  BY <1>1 DEF Speaks, SlotsOf, Active
<1>2. resets = 0
  BY ResetsGrow
<1>3. QueueSpeaks
  BY <1>2 DEF SpeakInv, QueueSpeaks
<1>4. CASE TurnsTick \/ TurnsPassOther \/ WifiUp \/ WifiDown \/ AskShouldRun
           \/ UNCHANGED allVars
  <2>1. UNCHANGED <<jobs, nextId, inflight>>
    BY <1>4 DEF TurnsTick, Tick, SyncClock, TurnsPassOther, PassStart, PassLock,
       PassUnmarked, WifiUp, WifiDown, AskShouldRun, allVars, vars, ram
  <2>2. queue' = queue /\ (turn' = turn \/ turn' = NoTurn)
    BY <1>4 DEF TurnsTick, TurnsPassOther, WifiUp, WifiDown, AskShouldRun,
       allVars, agent
  <2> QED BY <1>1, <1>3, <2>1, <2>2, QuietStep
<1>5. CASE TurnsReboot
  BY <1>5 DEF TurnsReboot, QueueSpeaks, Speaks, Unshared, NoTurn
<1>6. CASE Receive
  BY <1>3, <1>6, ReceiveSpeaks
<1>7. CASE TurnsPassEmit
  <2>1. CASE PassEmit(FALSE) /\ UNCHANGED agent
    <3>1. UNCHANGED <<jobs, nextId, inflight, queue, turn>>
      BY <2>1 DEF PassEmit, agent
    <3> QED BY <1>1, <1>3, <3>1, QuietStep
  <2>2. CASE /\ PassEmit(TRUE) /\ Enqueue(jobs[cursor].id, jobs[cursor].text)
             /\ turn' = turn
    <3> DEFINE id == jobs[cursor].id
    <3>1. /\ cursor \in Active(jobs) /\ cursor \notin inflight
          /\ id \in Nat /\ id # 0 /\ id < nextId
          /\ UNCHANGED <<jobs, nextId>> /\ inflight' = inflight \cup {cursor}
      BY <2>2 DEF PassEmit, Active
    <3>2. SlotsOf(id) = {cursor}
      BY <3>1 DEF SlotsOf
    <3>3. ASSUME NEW x \in Message, Speaks(x)
          PROVE  x.id # id
      BY <3>1, <3>2, <3>3 DEF Speaks
    <3>4. \A m \in DOMAIN queue : queue[m].id # id
      BY <1>3, <3>3 DEF QueueSpeaks
    <3>5. turn.id # id
      BY <1>3, <3>3 DEF QueueSpeaks
    <3>6. \A i \in SlotsOf(id) : i \in inflight' /\ jobs[i].text = jobs[cursor].text
      BY <3>1, <3>2
    <3>7. inflight \in SUBSET inflight'
      BY <3>1
    <3> QED BY <1>3, <2>2, <3>1, <3>4, <3>5, <3>6, <3>7, EnqueueSpeaks
  <2> QED BY <1>7, <2>1, <2>2 DEF TurnsPassEmit
<1>8. CASE Chat \/ \E k \in Slots : ToolRunNow(k)
  <2>1. /\ \E text : Enqueue(0, text)
        /\ turn' = turn /\ UNCHANGED <<jobs, nextId, inflight>>
    BY <1>8 DEF Chat, ToolRunNow, vars, ram
  <2> QED BY <1>3, <2>1, EnqueueSpeaks
<1>9. ASSUME NEW w \in Written, ConsoleReset(w)
      PROVE  FALSE
  BY <1>2, <1>9 DEF ConsoleReset
<1>10. ASSUME NEW w \in Written, ToolCall(w)
       PROVE  QueueSpeaks'
  <2>1. JobRequest(w) /\ UNCHANGED agent
    BY <1>2, <1>10 DEF ToolCall
  <2>2. \A x \in Message : Speaks(x) => Speaks(x)'
    BY <2>1, RequestSpeaks
  <2> QED BY <1>3, <2>1, <2>2, QuietStep DEF agent
<1>11. CASE FailTurn \/ \E w \in Written : FinishTurn(w)
  <2>1. queue' = queue /\ turn' = NoTurn
    BY <1>11 DEF FailTurn, FinishTurn, TurnEnds
  <2>2. CASE UNCHANGED vars
    <3>1. UNCHANGED <<jobs, nextId, inflight>>
      BY <2>2 DEF vars, ram
    <3> QED BY <1>1, <1>3, <2>1, <3>1, QuietStep
  <2>3. CASE /\ turn.id # 0
             /\ \E k \in SlotsOf(turn.id), w \in Written :
                  CompleteDone(k, w) \/ CompleteFailed(k)
    <3>1. turn' # turn
      BY <2>1, <2>3 DEF NoTurn
    <3>2. \A x \in Message : x.id # turn.id /\ Speaks(x) => Speaks(x)'
      BY <2>3, OutcomeSpeaks
    <3> QED BY <1>3, <2>1, <3>1, <3>2, QuietStep
  <2>4. "none" \in Written
    BY DEF Written
  <2> QED BY <1>11, <2>2, <2>3, <2>4 DEF FailTurn, FinishTurn
<1> QED BY <1>4, <1>5, <1>6, <1>7, <1>8, <1>9, <1>10, <1>11
           DEF TurnsNext, TurnsPass

THEOREM SpeakInvariant == TurnsSpec => []SpeakInv
<1>1. TurnsInit => SpeakInv
  BY CarriedInit
     DEF SpeakInv, TurnsInit, Speaks, Unshared, NoTurn
<1>2. SpeakInv /\ [TurnsNext]_allVars => SpeakInv'
  BY SpeakStep, CarriedInvStep DEF SpeakInv, QueueSpeaks
<1> QED BY <1>1, <1>2, PTL DEF TurnsSpec

(* Without a reset a turn runs with the text its job has now.              *)
THEOREM CurrentPromptRuns == TurnsSpec => []RunsCurrentPrompt
<1>1. SpeakInv => RunsCurrentPrompt
  BY DEF SpeakInv, RunsCurrentPrompt, Speaks
<1> QED BY <1>1, SpeakInvariant, PTL

(* Without a reset a job in flight has exactly one message.                *)
THEOREM OneMessageEach == TurnsSpec => []OneMessagePerJob
<1>1. SpeakInv => OneMessagePerJob
  <2> SUFFICES ASSUME SpeakInv, resets = 0, NEW i \in inflight
               PROVE  Cardinality({m \in DOMAIN queue : queue[m].id = jobs[i].id})
                        + (IF turn.id = jobs[i].id THEN 1 ELSE 0) = 1
    BY DEF OneMessagePerJob
  <2> DEFINE Its == {m \in DOMAIN queue : queue[m].id = jobs[i].id}
  <2>0. CarriedInv /\ Unshared(queue, turn)
    BY DEF SpeakInv
  <2>1. /\ jobs[i].id # 0 /\ Unshared(queue, turn)
        /\ Carried(queue, turn, jobs[i].id)
    <3>1. jobs[i].id # 0
      BY <2>0, CarriedFacts
    <3>2. Carried(queue, turn, jobs[i].id)
      BY <2>0 DEF CarriedInv
    <3> QED BY <2>0, <3>1, <3>2
  <2>2. CASE turn.id = jobs[i].id
    <3>1. Its = {}
      BY <2>1, <2>2 DEF Unshared
    <3>2. Cardinality(Its) = 0
      BY <3>1, FS_EmptySet
    <3> QED BY <2>2, <3>2
  <2>3. CASE turn.id # jobs[i].id
    <3>1. PICK m \in Its : TRUE
      BY <2>1, <2>3 DEF Carried
    <3>2. Its = {m}
      BY <2>1, <3>1 DEF Unshared
    <3>3. Cardinality(Its) = 1
      BY <3>2, FS_Singleton
    <3> QED BY <2>3, <3>3
  <2> QED BY <2>2, <2>3
<1> QED BY <1>1, SpeakInvariant, PTL
=============================================================================
