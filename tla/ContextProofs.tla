---------------------------- MODULE ContextProofs ----------------------------
(***************************************************************************)
(* Theorems about the conversation store, for any triggers, sizes and      *)
(* bounds: what RAM describes is what a start would find, its byte count   *)
(* is exact, compactions keep up, and the store implements the log of      *)
(* ConversationLog over failed writes, torn ones and reboots.              *)
(***************************************************************************)
EXTENDS ContextStore, TLAPS, WellFoundedInduction, SequenceTheorems

Cells == [Keys -> [turn : Nat, size : Nat]]
Sums  == [Banks -> Seq(Nat)]

(***************************************************************************)
(* Bytes.                                                                  *)
(***************************************************************************)

(* A set of naturals has a least member.                                   *)
LEMMA LeastNumber ==
  ASSUME NEW T \in SUBSET Nat, T # {}
  PROVE  \E x \in T : \A y \in T : x <= y
<1> DEFINE R == {p \in Nat \X Nat : p[1] < p[2]}
<1>1. IsWellFoundedOn(R, Nat)
  BY NatLessThanWellFounded DEF OpToRel
<1> HIDE DEF R
<1>2. PICK x \in T : \A y \in T : ~(<<y, x>> \in R)
  BY <1>1, WFMin
<1>3. ASSUME NEW y \in T
      PROVE  x <= y
  <2>1. x \in Nat /\ y \in Nat
    OBVIOUS
  <2>2. ~(<<y, x>> \in R)
    BY <1>2
  <2> QED BY <2>1, <2>2 DEF R
<1> QED BY <1>3

LEMMA MaxTurnsNat == MaxTurns \in Nat
BY ContextAssumption

(* The sum has a value for every number of blobs.                          *)
SumsTo(t, n, g) ==
  g = [k \in 0..n |-> IF k = 0 THEN 0 ELSE g[k - 1] + t[k].size]

LEMMA SumExists ==
  ASSUME NEW t \in Cells, NEW n \in 0..MaxTurns
  PROVE  \E g : SumsTo(t, n, g)
<1> DEFINE T == {m \in 0..MaxTurns : ~\E g : SumsTo(t, m, g)}
<1>0. MaxTurns \in Nat
  BY MaxTurnsNat
<1>1. SUFFICES ASSUME T # {}
               PROVE  FALSE
  OBVIOUS
<1>2. PICK m \in T : \A y \in T : m <= y
  <2>1. T \in SUBSET Nat
    BY <1>0
  <2> HIDE DEF T
  <2> QED BY <1>1, <2>1, LeastNumber
<1>3. m # 0
  <2>1. SumsTo(t, 0, [k \in 0..0 |-> 0])
    BY DEF SumsTo
  <2> QED BY <2>1
<1>4. m \in 1..MaxTurns /\ m - 1 \in 0..MaxTurns /\ m - 1 \notin T
  BY <1>0, <1>2, <1>3
<1>5. PICK g : SumsTo(t, m - 1, g)
  BY <1>4
<1> DEFINE h == [k \in 0..m |-> IF k = m THEN g[m - 1] + t[m].size ELSE g[k]]
<1>6. \A k \in 0..(m - 1) : g[k] = IF k = 0 THEN 0 ELSE g[k - 1] + t[k].size
  BY <1>5 DEF SumsTo
<1>7. \A k \in 0..m : h[k] = IF k = 0 THEN 0 ELSE h[k - 1] + t[k].size
  <2>1. ASSUME NEW k \in 0..m, k = m
        PROVE  h[k] = IF k = 0 THEN 0 ELSE h[k - 1] + t[k].size
    BY <1>0, <1>4, <2>1
  <2>2. ASSUME NEW k \in 0..m, k # m
        PROVE  h[k] = IF k = 0 THEN 0 ELSE h[k - 1] + t[k].size
    BY <1>0, <1>4, <1>6, <2>2
  <2> QED BY <2>1, <2>2
<1>8. h = [k \in 0..m |-> IF k = 0 THEN 0 ELSE h[k - 1] + t[k].size]
  <2>1. h = [k \in 0..m |-> h[k]]
    OBVIOUS
  <2> HIDE DEF h
  <2> QED BY <1>7, <2>1
<1> HIDE DEF h
<1>9. SumsTo(t, m, h)
  BY <1>8 DEF SumsTo
<1> QED BY <1>2, <1>9

LEMMA SizeToSum ==
  ASSUME NEW t \in Cells
  PROVE  /\ SizeTo(t, 0) = 0
         /\ \A n \in Keys : SizeTo(t, n) = SizeTo(t, n - 1) + t[n].size
<1> DEFINE s == CHOOSE g : g = [k \in 0..MaxTurns |-> IF k = 0 THEN 0 ELSE g[k - 1] + t[k].size]
<1>0. MaxTurns \in Nat
  BY MaxTurnsNat
<1>1. s = [k \in 0..MaxTurns |-> IF k = 0 THEN 0 ELSE s[k - 1] + t[k].size]
  <2>1. \E g : g = [k \in 0..MaxTurns |-> IF k = 0 THEN 0 ELSE g[k - 1] + t[k].size]
    BY <1>0, SumExists DEF SumsTo
  <2> QED BY <2>1
<1>2. \A n : SizeTo(t, n) = s[n]
  BY DEF SizeTo
<1> HIDE DEF s
<1>3. s[0] = 0
  BY <1>0, <1>1
<1>4. \A n \in 1..MaxTurns : s[n] = s[n - 1] + t[n].size
  BY <1>0, <1>1
<1> QED BY <1>2, <1>3, <1>4 DEF Keys

(* Over the blobs a+1..b: a sum of naturals, and the same for any blobs of *)
(* the same sizes there.                                                   *)
LEMMA SizeBetween ==
  ASSUME NEW t \in Cells, NEW u \in Cells, NEW a \in 0..MaxTurns, NEW b \in 0..MaxTurns, a <= b,
         \A k \in (a + 1)..b : t[k].size = u[k].size
  PROVE  /\ SizeTo(t, a) \in Nat /\ SizeTo(t, b) \in Nat /\ SizeTo(t, a) <= SizeTo(t, b)
         /\ SizeTo(t, b) - SizeTo(t, a) = SizeTo(u, b) - SizeTo(u, a)
<1>0. MaxTurns \in Nat /\ Keys = 1..MaxTurns
  BY MaxTurnsNat DEF Keys
<1>1. ASSUME NEW v \in Cells, NEW n \in 0..MaxTurns
      PROVE  SizeTo(v, n) \in Nat
  <2> DEFINE T == {m \in 0..MaxTurns : SizeTo(v, m) \notin Nat}
  <2>1. SUFFICES ASSUME T # {}
                 PROVE  FALSE
    OBVIOUS
  <2>2. PICK m \in T : \A y \in T : m <= y
    <3>1. T \in SUBSET Nat
      BY <1>0
    <3> HIDE DEF T
    <3> QED BY <2>1, <3>1, LeastNumber
  <2>3. m # 0
    BY SizeToSum
  <2>4. m \in Keys /\ m - 1 \in 0..MaxTurns /\ m - 1 \notin T
    BY <1>0, <2>2, <2>3
  <2>5. SizeTo(v, m) = SizeTo(v, m - 1) + v[m].size /\ v[m].size \in Nat
    BY <2>4, SizeToSum DEF Cells
  <2> QED BY <2>2, <2>4, <2>5
<1> DEFINE Good(n) == /\ SizeTo(t, a) <= SizeTo(t, n)
                      /\ SizeTo(t, n) - SizeTo(t, a) = SizeTo(u, n) - SizeTo(u, a)
           T == {n \in a..b : ~Good(n)}
<1>2. SUFFICES ASSUME T # {}
               PROVE  FALSE
  <2>1. b \in a..b
    BY <1>0
  <2> QED BY <1>1, <2>1
<1>3. PICK m \in T : \A y \in T : m <= y
  <2>1. T \in SUBSET Nat
    BY <1>0
  <2> HIDE DEF T
  <2> QED BY <1>2, <2>1, LeastNumber
<1>4. m # a
  BY <1>1
<1>5. m \in Keys /\ m \in (a + 1)..b /\ m - 1 \in a..b /\ m - 1 \in 0..MaxTurns /\ Good(m - 1)
  BY <1>0, <1>3, <1>4
<1>6. /\ SizeTo(t, m) = SizeTo(t, m - 1) + t[m].size /\ t[m].size \in Nat
      /\ SizeTo(u, m) = SizeTo(u, m - 1) + u[m].size /\ u[m].size = t[m].size
  BY <1>5, SizeToSum DEF Cells
<1>7. SizeTo(t, m - 1) \in Nat /\ SizeTo(u, m - 1) \in Nat /\ SizeTo(t, a) \in Nat /\ SizeTo(u, a) \in Nat
  BY <1>1, <1>5
<1>8. Good(m)
  BY <1>5, <1>6, <1>7
<1> QED BY <1>3, <1>8

(***************************************************************************)
(* What the model is told.                                                 *)
(***************************************************************************)
Base(m, s)        == IF m.summary THEN s[m.bank] ELSE <<>>
Recent(m, n, t)   == [k \in 1..n |-> t[m.first + k - 1].turn]
Tells(m, n, t, s) == Base(m, s) \o Recent(m, n, t)

(* m describes n turns that fit.                                           *)
Fits(m, n) == m \in Meta /\ n \in Nat /\ 1 <= m.first /\ m.first + n <= MaxTurns + 1

LEMMA FitKeys ==
  ASSUME NEW m, NEW n, Fits(m, n)
  PROVE  /\ \A k \in 1..n : m.first + k - 1 \in Keys
         /\ m.first..(m.first + n - 1) \subseteq Keys
<1>1. MaxTurns \in Nat /\ m.first \in Nat
  BY MaxTurnsNat DEF Fits, Meta
<1> QED BY <1>1 DEF Fits, Keys

Telling(m, n, t, s) ==
  /\ Base(m, s) \in Seq(Nat) /\ Len(Base(m, s)) \in Nat
  /\ Tells(m, n, t, s) \in Seq(Nat)
  /\ Len(Tells(m, n, t, s)) = Len(Base(m, s)) + n
  /\ DOMAIN Tells(m, n, t, s) = 1..(Len(Base(m, s)) + n)
  /\ \A i \in 1..Len(Base(m, s)) : Tells(m, n, t, s)[i] = Base(m, s)[i]
  /\ \A k \in 1..n : Tells(m, n, t, s)[Len(Base(m, s)) + k] = t[m.first + k - 1].turn

LEMMA TellsTyped ==
  ASSUME NEW m, NEW n, Fits(m, n), NEW t \in Cells, NEW s \in Sums
  PROVE  Telling(m, n, t, s)
<1>1. Base(m, s) \in Seq(Nat)
  <2>1. s[m.bank] \in Seq(Nat)
    BY DEF Fits, Meta, Sums
  <2> QED BY <2>1 DEF Base
<1>2. Recent(m, n, t) \in Seq(Nat) /\ Len(Recent(m, n, t)) = n /\ n \in Nat
  <2>1. n \in Nat /\ \A k \in 1..n : t[m.first + k - 1].turn \in Nat
    BY FitKeys DEF Fits, Cells
  <2>2. Recent(m, n, t) \in [1..n -> Nat]
    BY <2>1 DEF Recent
  <2> QED BY <2>1, <2>2
<1>3. Len(Base(m, s)) \in Nat
  BY <1>1, LenProperties
<1>4. /\ Tells(m, n, t, s) \in Seq(Nat)
      /\ Len(Tells(m, n, t, s)) = Len(Base(m, s)) + n
      /\ \A i \in 1..(Len(Base(m, s)) + n) : Tells(m, n, t, s)[i] =
           IF i <= Len(Base(m, s)) THEN Base(m, s)[i] ELSE Recent(m, n, t)[i - Len(Base(m, s))]
  BY <1>1, <1>2, ConcatProperties DEF Tells
<1>5. DOMAIN Tells(m, n, t, s) = 1..(Len(Base(m, s)) + n)
  BY <1>4, LenProperties
<1>6. \A i \in 1..Len(Base(m, s)) : Tells(m, n, t, s)[i] = Base(m, s)[i]
  BY <1>2, <1>3, <1>4
<1>7. ASSUME NEW k \in 1..n
      PROVE  Tells(m, n, t, s)[Len(Base(m, s)) + k] = t[m.first + k - 1].turn
  <2>1. Recent(m, n, t)[k] = t[m.first + k - 1].turn
    BY DEF Recent
  <2>2. /\ Len(Base(m, s)) + k \in 1..(Len(Base(m, s)) + n)
        /\ ~(Len(Base(m, s)) + k <= Len(Base(m, s)))
        /\ (Len(Base(m, s)) + k) - Len(Base(m, s)) = k
    BY <1>2, <1>3
  <2> QED BY <1>4, <2>1, <2>2
<1> QED BY <1>1, <1>3, <1>4, <1>5, <1>6, <1>7 DEF Telling

(* Neither other turns nor the other summary matter.                       *)
LEMMA TellsSame ==
  ASSUME NEW m, NEW n, Fits(m, n), NEW t \in Cells, NEW u \in Cells, NEW s \in Sums, NEW r \in Sums,
         \A k \in m.first..(m.first + n - 1) : t[k] = u[k],
         m.summary => s[m.bank] = r[m.bank]
  PROVE  Tells(m, n, t, s) = Tells(m, n, u, r)
<1>1. Base(m, s) = Base(m, r)
  BY DEF Base
<1>2. \A k \in 1..n : t[m.first + k - 1].turn = u[m.first + k - 1].turn
  <2>1. m.first \in Nat /\ n \in Nat
    BY DEF Fits, Meta
  <2> QED BY <2>1
<1>3. Recent(m, n, t) = Recent(m, n, u)
  BY <1>2 DEF Recent
<1> QED BY <1>1, <1>3 DEF Tells

(* One turn more is told last.                                             *)
LEMMA TellsMore ==
  ASSUME NEW m, NEW p, NEW n, Fits(m, n), Fits(p, n + 1), NEW t \in Cells, NEW s \in Sums,
         p.first = m.first, p.summary = m.summary, p.bank = m.bank
  PROVE  Tells(p, n + 1, t, s) = Append(Tells(m, n, t, s), t[m.first + n].turn)
<1> DEFINE b == Base(m, s)
           x == t[m.first + n].turn
           L == Tells(p, n + 1, t, s)
           R == Append(Tells(m, n, t, s), x)
<1>1. b \in Seq(Nat) /\ Len(b) \in Nat /\ n \in Nat /\ m.first \in Nat /\ Base(p, s) = b
  <2>1. Telling(m, n, t, s)
    BY TellsTyped
  <2> QED BY <2>1 DEF Telling, Fits, Meta, Base
<1>2. x \in Nat
  <2>1. p.first + (n + 1) - 1 \in Keys
    BY <1>1, FitKeys
  <2> QED BY <1>1, <2>1 DEF Cells
<1>3. /\ L \in Seq(Nat) /\ Len(L) = Len(b) + n + 1
      /\ \A i \in 1..Len(b) : L[i] = b[i]
      /\ \A k \in 1..(n + 1) : L[Len(b) + k] = t[m.first + k - 1].turn
  <2>1. Telling(p, n + 1, t, s)
    BY TellsTyped
  <2>2. /\ L \in Seq(Nat) /\ Len(L) = Len(b) + (n + 1)
        /\ \A i \in 1..Len(b) : L[i] = b[i]
        /\ \A k \in 1..(n + 1) : L[Len(b) + k] = t[m.first + k - 1].turn
    BY <1>1, <2>1, Zenon DEF Telling
  <2> HIDE DEF L, b
  <2> QED BY <1>1, <2>2
<1>4. /\ Tells(m, n, t, s) \in Seq(Nat) /\ Len(Tells(m, n, t, s)) = Len(b) + n
      /\ \A i \in 1..Len(b) : Tells(m, n, t, s)[i] = b[i]
      /\ \A k \in 1..n : Tells(m, n, t, s)[Len(b) + k] = t[m.first + k - 1].turn
  BY TellsTyped DEF Telling
<1>5. /\ R \in Seq(Nat) /\ Len(R) = Len(b) + n + 1
      /\ \A i \in 1..(Len(b) + n) : R[i] = Tells(m, n, t, s)[i]
      /\ R[Len(b) + n + 1] = x
  BY <1>1, <1>2, <1>4
<1> HIDE DEF L, R, b, x
<1>6. ASSUME NEW i \in 1..(Len(b) + n + 1)
      PROVE  L[i] = R[i]
  <2>1. CASE i <= Len(b)
    BY <1>1, <1>3, <1>4, <1>5, <2>1
  <2>2. CASE i > Len(b) /\ i <= Len(b) + n
    <3>1. PICK k \in 1..n : i = Len(b) + k
      <4>1. i - Len(b) \in 1..n /\ i = Len(b) + (i - Len(b))
        BY <1>1, <2>2
      <4> QED BY <4>1
    <3>2. k \in 1..(n + 1) /\ i \in 1..(Len(b) + n)
      BY <1>1, <2>2
    <3> QED BY <1>3, <1>4, <1>5, <3>1, <3>2
  <2>3. CASE i = Len(b) + n + 1
    <3>1. n + 1 \in 1..(n + 1) /\ i = Len(b) + (n + 1) /\ m.first + (n + 1) - 1 = m.first + n
      BY <1>1, <2>3
    <3>2. L[i] = t[m.first + n].turn
      BY <1>3, <3>1
    <3> QED BY <1>5, <2>3, <3>2 DEF x
  <2> QED BY <1>1, <2>1, <2>2, <2>3
<1>7. L = R
  BY <1>1, <1>3, <1>5, <1>6, SeqEqual
<1> QED BY <1>7 DEF L, R, x

(* A summary of the first n turns, then the others: the same turns.        *)
LEMMA TellsFolded ==
  ASSUME NEW m, NEW p, NEW n, NEW l, Fits(m, l), Fits(p, l - n), n \in 0..l,
         NEW t \in Cells, NEW s \in Sums, NEW r \in Sums,
         p.first = m.first + n, p.summary, r[p.bank] = Tells(m, n, t, s)
  PROVE  Tells(p, l - n, t, r) = Tells(m, l, t, s)
<1> DEFINE b == Base(m, s)
           L == Tells(p, l - n, t, r)
           R == Tells(m, l, t, s)
<1>1. l \in Nat /\ n \in Nat /\ m.first \in Nat /\ Fits(m, n)
  <2>1. l \in Nat /\ n \in Nat /\ n <= l /\ m.first \in Nat /\ MaxTurns \in Nat
    BY MaxTurnsNat DEF Fits, Meta
  <2> QED BY <2>1 DEF Fits
<1>2. /\ Base(p, r) = Tells(m, n, t, s) /\ Len(b) \in Nat
      /\ Len(Base(p, r)) = Len(b) + n
      /\ \A i \in 1..Len(b) : Base(p, r)[i] = b[i]
      /\ \A k \in 1..n : Base(p, r)[Len(b) + k] = t[m.first + k - 1].turn
  <2>1. Base(p, r) = Tells(m, n, t, s)
    BY DEF Base
  <2>2. Telling(m, n, t, s)
    BY <1>1, TellsTyped
  <2> HIDE DEF b
  <2> QED BY <2>1, <2>2 DEF Telling, b
<1>3. /\ L \in Seq(Nat) /\ Len(L) = Len(b) + n + (l - n)
      /\ \A i \in 1..(Len(b) + n) : L[i] = Base(p, r)[i]
      /\ \A k \in 1..(l - n) : L[Len(b) + n + k] = t[m.first + n + k - 1].turn
  <2>1. /\ L \in Seq(Nat) /\ Len(L) = Len(Base(p, r)) + (l - n)
        /\ \A i \in 1..Len(Base(p, r)) : L[i] = Base(p, r)[i]
        /\ \A k \in 1..(l - n) : L[Len(Base(p, r)) + k] = t[p.first + k - 1].turn
    BY TellsTyped DEF Telling
  <2> HIDE DEF L, b
  <2> QED BY <1>2, <2>1
<1>4. /\ R \in Seq(Nat) /\ Len(R) = Len(b) + l
      /\ \A i \in 1..Len(b) : R[i] = b[i]
      /\ \A k \in 1..l : R[Len(b) + k] = t[m.first + k - 1].turn
  BY TellsTyped DEF Telling
<1> HIDE DEF L, R, b
<1>5. Len(L) = Len(b) + l
  BY <1>1, <1>2, <1>3
<1>6. ASSUME NEW i \in 1..(Len(b) + l)
      PROVE  L[i] = R[i]
  <2>1. CASE i <= Len(b)
    <3>1. i \in 1..Len(b) /\ i \in 1..(Len(b) + n)
      BY <1>1, <1>2, <2>1
    <3> QED BY <1>2, <1>3, <1>4, <3>1
  <2>2. CASE i > Len(b) /\ i <= Len(b) + n
    <3>1. PICK k \in 1..n : i = Len(b) + k
      <4>1. i - Len(b) \in 1..n /\ i = Len(b) + (i - Len(b))
        BY <1>1, <1>2, <2>2
      <4> QED BY <4>1
    <3>2. k \in 1..l /\ i \in 1..(Len(b) + n)
      BY <1>1, <1>2, <2>2
    <3> QED BY <1>2, <1>3, <1>4, <3>1, <3>2
  <2>3. CASE i > Len(b) + n
    <3>1. PICK k \in 1..(l - n) : i = Len(b) + n + k
      <4>1. i - (Len(b) + n) \in 1..(l - n) /\ i = Len(b) + n + (i - (Len(b) + n))
        BY <1>1, <1>2, <2>3
      <4> QED BY <4>1
    <3>2. L[i] = t[m.first + n + k - 1].turn
      BY <1>3, <3>1
    <3>3. n + k \in 1..l /\ i = Len(b) + (n + k) /\ m.first + (n + k) - 1 = m.first + n + k - 1
      BY <1>1, <1>2, <3>1
    <3>4. R[i] = t[m.first + (n + k) - 1].turn
      BY <1>4, <3>3
    <3> QED BY <3>2, <3>3, <3>4
  <2> QED BY <1>1, <1>2, <2>1, <2>2, <2>3
<1>7. L = R
  <2>1. L \in Seq(Nat) /\ R \in Seq(Nat) /\ Len(L) = Len(R) /\ \A i \in 1..Len(L) : L[i] = R[i]
    BY <1>3, <1>4, <1>5, <1>6
  <2> QED BY <2>1, SeqEqual, Zenon
<1> QED BY <1>7 DEF L, R

(***************************************************************************)
(* Descriptions.                                                           *)
(***************************************************************************)

(* One the store wrote, of turns up to the a-th.                           *)
Written(m, a) == m \in Meta /\ 1 <= m.first /\ m.first <= m.next /\ m.next <= a + 1

(* What it describes is there, and its bytes are those of its turns.       *)
Whole(m, t, s) ==
  /\ \A k \in m.first..(m.next - 1) : t[k] # NoTurn
  /\ m.summary => s[m.bank] # <<>>
  /\ m.bytes = SizeTo(t, m.next - 1) - SizeTo(t, m.first - 1)

(* What it tells was said.                                                 *)
Spoken(m, t, s, h) ==
  \A i \in DOMAIN Tells(m, Stored(m), t, s) : Tells(m, Stored(m), t, s)[i] <= h

(* A start finds m: nothing else in flash is as new.                       *)
Current(m, ms) ==
  \/ m = Fresh /\ ms[0] = Absent /\ ms[1] = Absent
  \/ /\ ms[NextBank(m.gen)] = m
     /\ \/ ms[1 - NextBank(m.gen)] = Absent
        \/ ms[1 - NextBank(m.gen)].gen < m.gen

NewestOf(ms) ==
  IF ms[0] = Absent /\ ms[1] = Absent THEN Fresh
  ELSE IF ms[1] = Absent \/ (ms[0] # Absent /\ ms[0].gen >= ms[1].gen)
       THEN ms[0] ELSE ms[1]

LEMMA BankOf ==
  ASSUME NEW g \in Nat
  PROVE  /\ NextBank(g) \in Banks /\ NextBank(g + 1) = 1 - NextBank(g)
         /\ NextBank(g) = 1 - NextBank(g + 1) /\ NextBank(0) = 0
BY DEF NextBank, Banks

LEMMA FreshWritten ==
  /\ Fresh \in Meta /\ Absent \in Meta /\ Fresh # Absent
  /\ Fresh.gen = 0 /\ Fresh.first = 1 /\ Fresh.next = 1 /\ Fresh.bytes = 0 /\ Fresh.summary = FALSE
  /\ Absent.first = 0
<1>1. Fresh \in Meta
  BY DEF Fresh, Meta, Banks
<1>2. Absent \in Meta /\ Absent.first = 0
  BY <1>1 DEF Absent, Meta
<1> QED BY <1>1, <1>2 DEF Fresh, Meta, Banks

(* mp_context_init finds the current description.                          *)
LEMMA CurrentFound ==
  ASSUME NEW ms \in [Banks -> Meta], NEW m, NEW a, Written(m, a), Current(m, ms)
  PROVE  NewestOf(ms) = m
<1>1. m \in Meta /\ m.gen \in Nat /\ m # Absent
  BY FreshWritten DEF Written, Meta
<1>2. CASE m = Fresh /\ ms[0] = Absent /\ ms[1] = Absent
  BY <1>2 DEF NewestOf
<1>3. CASE /\ ms[NextBank(m.gen)] = m
           /\ ms[1 - NextBank(m.gen)] = Absent \/ ms[1 - NextBank(m.gen)].gen < m.gen
  <2>1. ms[0].gen \in Nat /\ ms[1].gen \in Nat
    BY DEF Banks, Meta
  <2>2. CASE NextBank(m.gen) = 0
    <3>1. ms[0] = m /\ (ms[1] = Absent \/ ms[1].gen < m.gen)
      BY <1>3, <2>2
    <3> QED BY <1>1, <2>1, <3>1 DEF NewestOf
  <2>3. CASE NextBank(m.gen) = 1
    <3>1. ms[1] = m /\ (ms[0] = Absent \/ ms[0].gen < m.gen)
      BY <1>3, <2>3
    <3> QED BY <1>1, <2>1, <3>1 DEF NewestOf
  <2> QED BY <1>1, <2>2, <2>3, BankOf DEF Banks
<1> QED BY <1>2, <1>3 DEF Current

(* Writing the next generation over the bank that is not current.          *)
LEMMA NextCurrent ==
  ASSUME NEW ms \in [Banks -> Meta], NEW m \in Meta, Current(m, ms),
         NEW p \in Meta, p.gen = m.gen + 1
  PROVE  Current(p, [ms EXCEPT ![NextBank(p.gen)] = p])
<1>1. m.gen \in Nat /\ p.gen \in Nat
  BY DEF Meta
<1>2. NextBank(p.gen) \in Banks /\ NextBank(p.gen) = 1 - NextBank(m.gen) /\ NextBank(m.gen) \in Banks
      /\ 1 - NextBank(p.gen) = NextBank(m.gen) /\ NextBank(m.gen) # NextBank(p.gen)
  BY <1>1, BankOf DEF Banks
<1>3. [ms EXCEPT ![NextBank(p.gen)] = p][NextBank(p.gen)] = p
  BY <1>2
<1>4. [ms EXCEPT ![NextBank(p.gen)] = p][1 - NextBank(p.gen)] = ms[NextBank(m.gen)]
  BY <1>2
<1>5. ms[NextBank(m.gen)] = Absent \/ ms[NextBank(m.gen)] = m
  BY <1>2 DEF Current, Banks
<1> QED BY <1>1, <1>3, <1>4, <1>5 DEF Current

(* What a power loss leaves of the other bank does not matter.             *)
LEMMA TornCurrent ==
  ASSUME NEW ms \in [Banks -> Meta], NEW m \in Meta, Current(m, ms), NEW lost,
         \/ lost = {} \/ lost = {NextBank(m.gen + 1)}
         \/ ms[0] = Absent /\ ms[1] = Absent
  PROVE  Current(m, [b \in Banks |-> IF b \in lost THEN Absent ELSE ms[b]])
<1>1. m.gen \in Nat
  BY DEF Meta
<1>2. /\ NextBank(m.gen) \in Banks /\ NextBank(m.gen + 1) = 1 - NextBank(m.gen)
      /\ 1 - NextBank(m.gen) \in Banks /\ NextBank(m.gen) # 1 - NextBank(m.gen)
  BY <1>1, BankOf DEF Banks
<1> DEFINE left == [b \in Banks |-> IF b \in lost THEN Absent ELSE ms[b]]
<1>3. CASE ms[0] = Absent /\ ms[1] = Absent
  <2>1. \A b \in Banks : ms[b] = Absent
    BY <1>3 DEF Banks
  <2>2. left = ms
    BY <2>1
  <2> QED BY <2>2
<1>4. CASE m = Fresh /\ ms[0] = Absent /\ ms[1] = Absent
  BY <1>3, <1>4
<1>5. CASE /\ ms[NextBank(m.gen)] = m
           /\ ms[1 - NextBank(m.gen)] = Absent \/ ms[1 - NextBank(m.gen)].gen < m.gen
           /\ lost = {} \/ lost = {NextBank(m.gen + 1)}
  <2>1. left[NextBank(m.gen)] = m
    BY <1>2, <1>5
  <2>2. left[1 - NextBank(m.gen)] \in {Absent, ms[1 - NextBank(m.gen)]}
    BY <1>2
  <2> QED BY <1>5, <2>1, <2>2 DEF Current
<1> QED BY <1>3, <1>4, <1>5 DEF Current

(***************************************************************************)
(* Plans.                                                                  *)
(***************************************************************************)

(* The bytes of what a description holds and of a part of it.              *)
LEMMA PartBytes ==
  ASSUME Written(ram, attempts), attempts \in 0..MaxTurns, turns \in Cells, Whole(ram, turns, summaries)
  PROVE  /\ Stored(ram) \in Nat /\ ram.bytes \in Nat
         /\ \A n \in 0..Stored(ram) : Bytes(ram, n) \in Nat /\ ram.bytes - Bytes(ram, n) \in Nat
         /\ Bytes(ram, Stored(ram)) = ram.bytes
<1>1. /\ ram.first \in Nat /\ ram.next \in Nat /\ MaxTurns \in Nat /\ ram.bytes \in Int
      /\ 1 <= ram.first /\ ram.first <= ram.next /\ ram.next <= MaxTurns + 1
  BY MaxTurnsNat DEF Written, Meta
<1>2. ASSUME NEW a \in 0..MaxTurns, NEW b \in 0..MaxTurns, a <= b
      PROVE  SizeTo(turns, a) \in Nat /\ SizeTo(turns, b) \in Nat /\ SizeTo(turns, a) <= SizeTo(turns, b)
  BY <1>2, SizeBetween
<1>3. ASSUME NEW n \in 0..Stored(ram)
      PROVE  Bytes(ram, n) \in Nat /\ ram.bytes - Bytes(ram, n) \in Nat
  <2>1. /\ ram.first - 1 \in 0..MaxTurns /\ ram.first + n - 1 \in 0..MaxTurns /\ ram.next - 1 \in 0..MaxTurns
        /\ ram.first - 1 <= ram.first + n - 1 /\ ram.first + n - 1 <= ram.next - 1
    BY <1>1 DEF Stored
  <2>2. /\ SizeTo(turns, ram.first - 1) \in Nat /\ SizeTo(turns, ram.first + n - 1) \in Nat
        /\ SizeTo(turns, ram.first - 1) <= SizeTo(turns, ram.first + n - 1)
        /\ SizeTo(turns, ram.next - 1) \in Nat
        /\ SizeTo(turns, ram.first + n - 1) <= SizeTo(turns, ram.next - 1)
    BY <1>2, <2>1
  <2>3. ram.bytes = SizeTo(turns, ram.next - 1) - SizeTo(turns, ram.first - 1)
    BY DEF Whole
  <2> QED BY <2>2, <2>3 DEF Bytes
<1>4. Bytes(ram, Stored(ram)) = ram.bytes
  <2>1. ram.first + Stored(ram) - 1 = ram.next - 1
    BY <1>1 DEF Stored
  <2> QED BY <2>1 DEF Bytes, Whole
<1>5. Stored(ram) \in Nat /\ Stored(ram) \in 0..Stored(ram)
  BY <1>1 DEF Stored
<1>6. ram.bytes \in Nat
  BY <1>3, <1>4, <1>5
<1> QED BY <1>3, <1>4, <1>5, <1>6

(* Enough turns to go below the target, or down to two.                    *)
LEMMA OverBytesFound ==
  ASSUME Written(ram, attempts), attempts \in 0..MaxTurns, turns \in Cells, Whole(ram, turns, summaries)
  PROVE  /\ OverBytes \in 0..Stored(ram)
         /\ ram.bytes - Bytes(ram, OverBytes) < ByteTarget \/ Stored(ram) - OverBytes <= 2
<1> DEFINE Enough(n) == ram.bytes - Bytes(ram, n) < ByteTarget \/ Stored(ram) - n <= 2
           T == {n \in 0..Stored(ram) : Enough(n)}
<1>1. Stored(ram) \in Nat /\ ByteTarget \in Nat /\ \A n \in 0..Stored(ram) : ram.bytes - Bytes(ram, n) \in Nat
  BY PartBytes, ContextAssumption
<1>2. PICK n \in T : \A m \in T : n <= m
  <2>1. Stored(ram) \in T
    BY <1>1
  <2>2. T \in SUBSET Nat
    BY <1>1
  <2> HIDE DEF T
  <2> QED BY <2>1, <2>2, LeastNumber
<1>3. ASSUME NEW m \in 0..(n - 1)
      PROVE  ram.bytes - Bytes(ram, m) >= ByteTarget /\ Stored(ram) - m > 2
  <2>1. m \in 0..Stored(ram) /\ m \notin T
    BY <1>1, <1>2
  <2> QED BY <1>1, <2>1
<1>4. \E x \in 0..Stored(ram) :
        /\ ram.bytes - Bytes(ram, x) < ByteTarget \/ Stored(ram) - x <= 2
        /\ \A m \in 0..(x - 1) : /\ ram.bytes - Bytes(ram, m) >= ByteTarget
                                 /\ Stored(ram) - m > 2
  BY <1>2, <1>3
<1> QED BY <1>4 DEF OverBytes

(* A plan removes turns that are there, and leaves both triggers untouched *)
(* if the one on turns was just reached.                                   *)
LEMMA PlanDone ==
  ASSUME Written(ram, attempts), attempts \in 0..MaxTurns, turns \in Cells, Whole(ram, turns, summaries)
  PROVE  /\ Plan \in 0..Stored(ram)
         /\ Plan = 0 => KeepsUp(ram)
         /\ Stored(ram) <= TurnTrigger =>
              /\ Stored(ram) - Plan < TurnTrigger
              /\ ram.bytes - Bytes(ram, Plan) < ByteTrigger \/ Stored(ram) - Plan <= 2
<1>1. /\ Stored(ram) \in Nat /\ ram.bytes \in Nat
      /\ \A n \in 0..Stored(ram) : Bytes(ram, n) \in Nat /\ ram.bytes - Bytes(ram, n) \in Nat
  BY PartBytes
<1>2. /\ TurnTrigger \in Nat /\ RemoveTurns \in Nat \ {0} /\ ByteTrigger \in Nat /\ ByteTarget \in Nat
      /\ RemoveTurns < TurnTrigger /\ 2 < TurnTrigger /\ ByteTarget <= ByteTrigger
  BY ContextAssumption
<1>3. Bytes(ram, 0) = 0
  <2>1. ram.first - 1 \in 0..MaxTurns /\ ram.first + 0 - 1 = ram.first - 1
    BY MaxTurnsNat DEF Written, Meta
  <2>2. SizeTo(turns, ram.first - 1) \in Nat
    BY <2>1, SizeBetween
  <2> QED BY <2>1, <2>2 DEF Bytes
<1>4. CASE Plan = Stored(ram)
  <2>1. Stored(ram) - Plan = 0
    BY <1>1, <1>4
  <2> QED BY <1>1, <1>2, <1>4, <2>1 DEF KeepsUp
<1>5. CASE ram.bytes >= ByteTrigger /\ Plan = OverBytes
  <2>1. /\ Plan \in 0..Stored(ram)
        /\ ram.bytes - Bytes(ram, Plan) < ByteTarget \/ Stored(ram) - Plan <= 2
    BY <1>5, OverBytesFound
  <2>2. Plan = 0 => Stored(ram) <= 2
    BY <1>1, <1>2, <1>3, <1>5, <2>1
  <2>3. Stored(ram) - Plan < TurnTrigger \/ ~(Stored(ram) <= TurnTrigger)
    BY <1>1, <1>2, <2>1, <2>2
  <2>4. ram.bytes - Bytes(ram, Plan) < ByteTrigger \/ Stored(ram) - Plan <= 2
    BY <1>1, <1>2, <2>1
  <2>5. Plan = 0 => KeepsUp(ram)
    BY <1>1, <1>2, <2>2 DEF KeepsUp
  <2> QED BY <2>1, <2>3, <2>4, <2>5
<1>6. CASE ~(ram.bytes >= ByteTrigger) /\ Stored(ram) >= TurnTrigger /\ Plan = RemoveTurns
  <2>1. RemoveTurns \in 0..Stored(ram) /\ RemoveTurns # 0 /\ Stored(ram) - RemoveTurns < Stored(ram)
    BY <1>1, <1>2, <1>6
  <2>2. ram.bytes - Bytes(ram, RemoveTurns) < ByteTrigger
    BY <1>1, <1>2, <1>6, <2>1
  <2>3. Stored(ram) <= TurnTrigger => Stored(ram) - RemoveTurns < TurnTrigger
    BY <1>1, <1>2, <2>1
  <2> QED BY <1>6, <2>1, <2>2, <2>3
<1>7. CASE ~(ram.bytes >= ByteTrigger) /\ ~(Stored(ram) >= TurnTrigger) /\ Plan = 0
  BY <1>1, <1>2, <1>3, <1>7 DEF KeepsUp
<1> QED BY <1>4, <1>5, <1>6, <1>7 DEF Plan

(***************************************************************************)
(* The invariant.  Here is the description a start would find: what RAM    *)
(* holds, but for the time after a commit in which the agent still erases  *)
(* what the summary replaces.  It describes turns that are there, and the  *)
(* draft of a summary, once written, tells what it replaces.               *)
(***************************************************************************)
Committed == metas[NextBank(ram.gen + 1)]
Here      == IF stage = "erase" THEN Committed ELSE ram
Heard     == IF stage = "append" THEN attempts - 1 ELSE attempts

Described(m, t, s, a, h) == Written(m, a) /\ Whole(m, t, s) /\ Spoken(m, t, s, h)

Descriptions ==
  /\ \A b \in Banks : metas[b] = Absent \/ Written(metas[b], attempts)
  /\ Written(ram, attempts)
  /\ Current(Here, metas)
  /\ Described(Here, turns, summaries, attempts, Heard)

Drafts ==
  stage \in {"summarise", "blob", "meta"} =>
    /\ remove = Plan /\ remove \in 1..Stored(ram)
    /\ draft = Told(ram, remove)
    /\ stage = "meta" => summaries[1 - ram.bank] = draft

Appending ==
  stage = "append" =>
    ram.next <= attempts /\ turns[ram.next].turn = attempts /\ turns[ram.next].size \in Sizes

Erasing ==
  stage = "erase" =>
    /\ Committed.gen = ram.gen + 1 /\ Committed.bank = 1 - ram.bank
    /\ Committed.first = ram.first + remove

Places ==
  /\ attempts <= MaxTurns
  /\ stage # "erase" => erased = 0
  /\ stage = "fresh" => ram = Fresh /\ metas[0] = Absent /\ metas[1] = Absent
  /\ Appending /\ Erasing

ContextInv == TypeOK /\ Descriptions /\ Drafts /\ Places

\* A turn still to be acknowledged is later than all that were.
Acknowledged == acked <= Heard

(* What the model is told after the store's step: as before, with the turn *)
(* appended that is acknowledged, or nothing after a /forget.              *)
Telltale == Tells(Here, Stored(Here), turns, summaries)

Untold  == Telltale' = Telltale /\ UNCHANGED <<acked, forgets>>
SaidOne ==
  \E t \in Keys : acked < t /\ Telltale' = Append(Telltale, t) /\ acked' = t /\ UNCHANGED forgets
Forgotten == Telltale' = <<>> /\ forgets' = forgets + 1 /\ UNCHANGED acked

StepKept == ContextInv' /\ (Untold \/ SaidOne \/ Forgotten)

LEMMA Typed ==
  ASSUME ContextInv
  PROVE  /\ metas \in [Banks -> Meta] /\ ram \in Meta /\ turns \in Cells /\ summaries \in Sums
         /\ stage \in Stages /\ draft \in Seq(Nat) /\ remove \in Nat /\ erased \in 0..remove
         /\ attempts \in Nat /\ faults \in Nat /\ reboots \in Nat /\ forgets \in Nat /\ acked \in Nat
         /\ MaxTurns \in Nat /\ attempts \in 0..MaxTurns
BY MaxTurnsNat DEF ContextInv, TypeOK, Places, Cells, Sums

(* The operators of the store, in terms of the state they read.            *)
LEMMA ToldTells ==
  ASSUME NEW m, NEW n
  PROVE  Told(m, n) = Tells(m, n, turns, summaries)
BY DEF Told, Tells, Base, Recent

LEMMA DescribedFits ==
  ASSUME NEW m, NEW a \in 0..MaxTurns, Written(m, a)
  PROVE  /\ Stored(m) \in Nat /\ m.first \in Nat /\ m.next \in Nat
         /\ m.first + Stored(m) = m.next /\ m.next <= MaxTurns + 1
         /\ \A n \in 0..Stored(m) : Fits(m, n)
BY MaxTurnsNat DEF Written, Meta, Stored, Fits

(* A description stays good when neither its turns nor its summary change. *)
LEMMA StaysDescribed ==
  ASSUME NEW m, NEW t \in Cells, NEW u \in Cells, NEW s \in Sums, NEW r \in Sums,
         NEW a \in 0..MaxTurns, NEW b \in 0..MaxTurns, a <= b, NEW h \in Int, NEW g \in Int, h <= g,
         Described(m, t, s, a, h),
         \A k \in m.first..(m.next - 1) : t[k] = u[k],
         m.summary => s[m.bank] = r[m.bank]
  PROVE  /\ Described(m, u, r, b, g)
         /\ Tells(m, Stored(m), u, r) = Tells(m, Stored(m), t, s)
<1>1. /\ Written(m, a) /\ Fits(m, Stored(m)) /\ m.first \in Nat /\ m.next \in Nat /\ Stored(m) \in Nat
      /\ 1 <= m.first /\ m.first <= m.next /\ m.next <= MaxTurns + 1 /\ m.first + Stored(m) = m.next
      /\ MaxTurns \in Nat
  BY DescribedFits, MaxTurnsNat DEF Described, Written
<1>2. Written(m, b)
  BY <1>1 DEF Written
<1>3. Tells(m, Stored(m), u, r) = Tells(m, Stored(m), t, s)
  <2>1. \A k \in m.first..(m.first + Stored(m) - 1) : t[k] = u[k]
    BY <1>1
  <2> QED BY <1>1, <2>1, TellsSame
<1>4. Spoken(m, u, r, g)
  <2>1. Tells(m, Stored(m), t, s) \in Seq(Nat)
    BY <1>1, TellsTyped DEF Telling
  <2>2. \A i \in DOMAIN Tells(m, Stored(m), t, s) : Tells(m, Stored(m), t, s)[i] \in Nat
    BY <2>1
  <2> QED BY <1>3, <2>2 DEF Spoken, Described
<1>5. Whole(m, u, r)
  <2>1. m.first - 1 \in 0..MaxTurns /\ m.next - 1 \in 0..MaxTurns /\ m.first - 1 <= m.next - 1
    BY <1>1
  <2>2. \A k \in (m.first - 1 + 1)..(m.next - 1) : t[k].size = u[k].size
    BY <1>1
  <2>3. SizeTo(t, m.next - 1) - SizeTo(t, m.first - 1) = SizeTo(u, m.next - 1) - SizeTo(u, m.first - 1)
    BY <2>1, <2>2, SizeBetween
  <2>4. Whole(m, t, s)
    BY DEF Described
  <2> QED BY <2>3, <2>4 DEF Whole
<1> QED BY <1>2, <1>3, <1>4, <1>5 DEF Described

LEMMA StaysTold ==
  ASSUME NEW m, NEW t \in Cells, NEW s \in Sums, NEW r \in Sums, NEW a \in 0..MaxTurns,
         Described(m, t, s, a, a), s[m.bank] = r[m.bank]
  PROVE  Described(m, t, r, a, a) /\ Tells(m, Stored(m), t, r) = Tells(m, Stored(m), t, s)
<1>1. a \in Int /\ a <= a
  BY MaxTurnsNat
<1>2. PICK u \in Cells : u = t
  OBVIOUS
<1>3. \A k \in m.first..(m.next - 1) : t[k] = u[k]
  BY <1>2
<1>4. Described(m, u, r, a, a) /\ Tells(m, Stored(m), u, r) = Tells(m, Stored(m), t, s)
  BY <1>1, <1>3, StaysDescribed
<1> QED BY <1>2, <1>4

(* An empty store is described by the fresh description.                   *)
LEMMA FreshDescribed ==
  ASSUME NEW t \in Cells, NEW s \in Sums, NEW a \in Nat
  PROVE  Described(Fresh, t, s, a, a) /\ Tells(Fresh, Stored(Fresh), t, s) = <<>>
<1>1. Written(Fresh, a) /\ Stored(Fresh) = 0
  BY FreshWritten DEF Written, Stored
<1>2. Whole(Fresh, t, s)
  BY FreshWritten, SizeToSum DEF Whole
<1>3. Base(Fresh, s) = <<>> /\ Recent(Fresh, 0, t) = <<>>
  BY FreshWritten DEF Base, Recent
<1>4. Tells(Fresh, 0, t, s) = <<>>
  BY <1>3 DEF Tells
<1> QED BY <1>1, <1>2, <1>4 DEF Described, Spoken

----------------------------------------------------------------------------
LEMMA ContextInvInit == Init => ContextInv /\ Telltale = <<>>
<1> SUFFICES ASSUME Init
             PROVE  ContextInv /\ Telltale = <<>>
  OBVIOUS
<1>1. /\ metas = [b \in Banks |-> IF b = 0 THEN Fresh ELSE Absent]
      /\ turns = [k \in Keys |-> NoTurn] /\ summaries = [b \in Banks |-> <<>>]
      /\ ram = Fresh /\ stage = "idle" /\ draft = <<>> /\ remove = 0 /\ erased = 0
      /\ attempts = 0 /\ faults = 0 /\ reboots = 0 /\ forgets = 0 /\ acked = 0
  BY DEF Init
<1>2. turns \in Cells /\ summaries \in Sums /\ draft \in Seq(Nat)
  BY <1>1 DEF Cells, Sums, NoTurn
<1>3. metas \in [Banks -> Meta] /\ metas[0] = Fresh /\ metas[1] = Absent
  BY <1>1, FreshWritten DEF Banks
<1>4. TypeOK
  BY <1>1, <1>2, <1>3, FreshWritten DEF TypeOK, Cells, Sums, Stages
<1>5. Here = Fresh /\ Heard = 0
  BY <1>1 DEF Here, Heard
<1>6. Described(Fresh, turns, summaries, 0, 0) /\ Tells(Fresh, Stored(Fresh), turns, summaries) = <<>>
  BY <1>2, FreshDescribed
<1>7. Current(Fresh, metas)
  BY <1>3, FreshWritten, BankOf DEF Current
<1>8. Descriptions
  BY <1>1, <1>3, <1>5, <1>6, <1>7 DEF Descriptions, Described, Banks
<1>9. Places
  BY <1>1, MaxTurnsNat DEF Places, Appending, Erasing
<1> QED BY <1>1, <1>4, <1>5, <1>6, <1>8, <1>9 DEF ContextInv, Drafts, Telltale

----------------------------------------------------------------------------
(* mp_context_append.                                                      *)
LEMMA AppendBlobStep ==
  ASSUME ContextInv, NEW size \in Sizes, AppendBlob(size)
  PROVE  StepKept
<1>1. /\ stage = "idle" /\ attempts < MaxTurns /\ attempts' = attempts + 1 /\ stage' = "append"
      /\ turns' = [turns EXCEPT ![ram.next] = [turn |-> attempts + 1, size |-> size]]
      /\ UNCHANGED <<metas, summaries, ram, draft, remove, erased, faults, reboots, forgets, acked>>
  BY DEF AppendBlob, Go
<1>2. /\ Here = ram /\ Here' = ram /\ Heard = attempts /\ Heard' = attempts
      /\ attempts \in 0..MaxTurns /\ attempts + 1 \in 0..MaxTurns /\ MaxTurns \in Nat
  <2>1. attempts \in 0..MaxTurns /\ MaxTurns \in Nat
    BY Typed
  <2>2. Here = ram /\ Here' = ram /\ Heard = attempts
    BY <1>1 DEF Here, Heard
  <2>3. Heard' = (attempts + 1) - 1
    BY <1>1 DEF Heard
  <2> QED BY <1>1, <2>1, <2>2, <2>3
<1>3. Written(ram, attempts) /\ ram.next \in Keys /\ ram.next \in Nat /\ ram.first \in Nat
  BY <1>1, <1>2 DEF ContextInv, Descriptions, Written, Meta, Keys
<1>4. /\ turns' \in Cells /\ turns'[ram.next] = [turn |-> attempts + 1, size |-> size]
      /\ \A k \in ram.first..(ram.next - 1) : turns[k] = turns'[k]
  <2>1. turns \in Cells /\ size \in Nat /\ attempts \in Nat
    BY Typed, ContextAssumption
  <2> QED BY <1>1, <1>3, <2>1 DEF Cells
<1>5. /\ Described(ram, turns', summaries, attempts + 1, attempts)
      /\ Tells(ram, Stored(ram), turns', summaries) = Tells(ram, Stored(ram), turns, summaries)
  <2>1. Described(ram, turns, summaries, attempts, attempts)
    BY <1>2 DEF ContextInv, Descriptions
  <2>2. turns \in Cells /\ summaries \in Sums
    BY Typed
  <2> QED BY <1>2, <1>4, <2>1, <2>2, StaysDescribed
<1>6. Descriptions'
  <2>1. \A b \in Banks : metas[b] = Absent \/ Written(metas[b], attempts + 1)
    BY <1>2 DEF ContextInv, Descriptions, Written, Meta
  <2>2. Current(ram, metas)
    BY <1>2 DEF ContextInv, Descriptions
  <2> QED BY <1>1, <1>2, <1>5, <2>1, <2>2 DEF Descriptions, Described
<1>7. TypeOK'
  BY <1>1, <1>2, <1>4 DEF ContextInv, TypeOK, Cells, Stages
<1>8. Places'
  BY <1>1, <1>2, <1>3, <1>4 DEF ContextInv, Places, Appending, Erasing, Written
<1>9. Untold
  BY <1>1, <1>2, <1>5 DEF Untold, Telltale
<1> QED BY <1>1, <1>6, <1>7, <1>8, <1>9 DEF StepKept, ContextInv, Drafts

LEMMA MetaChanged ==
  ASSUME NEW r \in Meta, NEW z \in Int
  PROVE  LET q == [r EXCEPT !.gen = @ + 1, !.next = @ + 1, !.bytes = @ + z]
         IN  /\ q \in Meta /\ q.gen = r.gen + 1 /\ q.first = r.first /\ q.next = r.next + 1
             /\ q.bytes = r.bytes + z /\ q.summary = r.summary /\ q.bank = r.bank
<1>1. r.gen \in Nat /\ r.next \in Nat /\ r.bytes \in Int /\ r.first \in Nat /\ r.bank \in Banks
  BY DEF Meta
<1>2. r.gen + 1 \in Nat /\ r.next + 1 \in Nat /\ r.bytes + z \in Int
  BY <1>1
<1> DEFINE g == r.gen + 1
           n == r.next + 1
           b == r.bytes + z
<1>3. [r EXCEPT !.gen = @ + 1, !.next = @ + 1, !.bytes = @ + z] = [r EXCEPT !.gen = g, !.next = n, !.bytes = b]
  OBVIOUS
<1>4. g \in Nat /\ n \in Nat /\ b \in Int
  BY <1>2
<1> HIDE DEF g, n, b
<1>5. LET q == [r EXCEPT !.gen = g, !.next = n, !.bytes = b]
      IN  /\ q \in Meta /\ q.gen = g /\ q.first = r.first /\ q.next = n
          /\ q.bytes = b /\ q.summary = r.summary /\ q.bank = r.bank
  BY <1>4 DEF Meta
<1> QED BY <1>3, <1>5 DEF g, n, b

LEMMA AppendMetaStep ==
  ASSUME ContextInv, Acknowledged, AppendMeta
  PROVE  StepKept
<1>1. /\ stage = "append" /\ stage' = "plan" /\ ram' = Appended
      /\ metas' = [metas EXCEPT ![NextBank(Appended.gen)] = Appended]
      /\ acked' = attempts
      /\ UNCHANGED <<turns, summaries, draft, remove, erased, attempts, faults, reboots, forgets>>
  BY DEF AppendMeta, Go, WriteMeta
<1>2. /\ Here = ram /\ Here' = Appended /\ Heard = attempts - 1 /\ Heard' = attempts
      /\ attempts \in 0..MaxTurns /\ MaxTurns \in Nat
      /\ metas \in [Banks -> Meta] /\ ram \in Meta /\ turns \in Cells /\ summaries \in Sums
  BY <1>1, Typed DEF Here, Heard
<1>3. /\ Written(ram, attempts) /\ Current(ram, metas) /\ Whole(ram, turns, summaries)
      /\ Spoken(ram, turns, summaries, attempts - 1)
  BY <1>2 DEF ContextInv, Descriptions, Described
<1>4. /\ ram.next <= attempts /\ ram.next \in Nat /\ ram.first \in Nat /\ 1 <= ram.first /\ ram.first <= ram.next
      /\ ram.next \in Keys /\ attempts \in Keys
      /\ turns[ram.next].turn = attempts /\ turns[ram.next].size \in Nat \ {0}
  <2>1. /\ ram.next <= attempts /\ turns[ram.next].turn = attempts /\ turns[ram.next].size \in Sizes
    BY <1>1 DEF ContextInv, Places, Appending
  <2>2. ram.next \in Nat /\ ram.first \in Nat /\ 1 <= ram.first /\ ram.first <= ram.next
    BY <1>2, <1>3 DEF Written, Meta
  <2>3. turns[ram.next].size \in Nat \ {0}
    BY <2>1, ContextAssumption
  <2> QED BY <1>2, <2>1, <2>2, <2>3 DEF Keys
<1>5. /\ Appended \in Meta /\ Appended.gen = ram.gen + 1 /\ Appended.first = ram.first
      /\ Appended.next = ram.next + 1 /\ Appended.bytes = ram.bytes + turns[ram.next].size
      /\ Appended.summary = ram.summary /\ Appended.bank = ram.bank
  <2> DEFINE z == turns[ram.next].size
  <2>1. z \in Int /\ ram.bytes \in Int /\ ram.gen \in Nat /\ ram.next \in Nat
    BY <1>2, <1>4 DEF Meta
  <2>2. Appended = [ram EXCEPT !.gen = @ + 1, !.next = @ + 1, !.bytes = @ + z]
    BY DEF Appended
  <2> HIDE DEF z
  <2>3. /\ Appended \in Meta /\ Appended.gen = ram.gen + 1 /\ Appended.first = ram.first
        /\ Appended.next = ram.next + 1 /\ Appended.bytes = ram.bytes + z
        /\ Appended.summary = ram.summary /\ Appended.bank = ram.bank
    BY <1>2, <2>1, <2>2, MetaChanged
  <2> QED BY <2>3 DEF z
<1> DEFINE p == Appended
<1> HIDE DEF p
<1>6. Written(p, attempts) /\ Stored(p) = Stored(ram) + 1 /\ Stored(ram) \in Nat /\ ram.first + Stored(ram) = ram.next
  BY <1>2, <1>4, <1>5 DEF Written, Stored, p
<1>7. Whole(p, turns, summaries)
  <2>1. \A k \in p.first..(p.next - 1) : turns[k] # NoTurn
    <3>1. turns[ram.next] # NoTurn
      BY <1>4 DEF NoTurn
    <3>2. \A k \in ram.first..(ram.next - 1) : turns[k] # NoTurn
      BY <1>3 DEF Whole
    <3> QED BY <1>4, <1>5, <3>1, <3>2 DEF p
  <2>2. SizeTo(turns, ram.next) = SizeTo(turns, ram.next - 1) + turns[ram.next].size
    BY <1>2, <1>4, SizeToSum
  <2>3. SizeTo(turns, ram.next - 1) \in Nat /\ SizeTo(turns, ram.first - 1) \in Nat
    <3>1. ram.next - 1 \in 0..MaxTurns /\ ram.first - 1 \in 0..MaxTurns
      BY <1>2, <1>4
    <3> QED BY <1>2, <3>1, SizeBetween
  <2>4. ram.bytes = SizeTo(turns, ram.next - 1) - SizeTo(turns, ram.first - 1)
    BY <1>3 DEF Whole
  <2>5. p.next - 1 = ram.next /\ p.first = ram.first
    BY <1>4, <1>5 DEF p
  <2>6. p.bytes = SizeTo(turns, p.next - 1) - SizeTo(turns, p.first - 1)
    BY <1>4, <1>5, <2>2, <2>3, <2>4, <2>5 DEF p
  <2>7. p.summary => summaries[p.bank] # <<>>
    BY <1>3, <1>5 DEF Whole, p
  <2> QED BY <2>1, <2>6, <2>7 DEF Whole
<1>8. Tells(p, Stored(p), turns, summaries) = Append(Telltale, attempts)
  <2>1. Fits(ram, Stored(ram)) /\ Fits(p, Stored(ram) + 1)
    <3>1. Stored(p) \in 0..Stored(p)
      BY <1>6
    <3> QED BY <1>2, <1>3, <1>6, <3>1, DescribedFits
  <2>2. p.first = ram.first /\ p.summary = ram.summary /\ p.bank = ram.bank
    BY <1>5 DEF p
  <2> QED BY <1>2, <1>4, <1>6, <2>1, <2>2, TellsMore DEF Telltale
<1>9. Telltale \in Seq(Nat) /\ \A k \in DOMAIN Telltale : Telltale[k] \in Nat /\ Telltale[k] <= attempts - 1
  <2>1. Fits(ram, Stored(ram))
    BY <1>2, <1>3, DescribedFits
  <2>2. Telltale \in Seq(Nat)
    BY <1>2, <2>1, TellsTyped DEF Telling, Telltale
  <2> QED BY <1>2, <1>3, <2>2 DEF Spoken, Telltale
<1>10. Spoken(p, turns, summaries, attempts)
  <2>1. \A k \in DOMAIN Append(Telltale, attempts) : Append(Telltale, attempts)[k] <= attempts
    <3> HIDE DEF Telltale
    <3> QED BY <1>2, <1>9
  <2> QED BY <1>8, <2>1 DEF Spoken
<1>11. Descriptions'
  <2>1. metas' = [metas EXCEPT ![NextBank(p.gen)] = p] /\ ram' = p /\ Here' = p
    BY <1>1, <1>2 DEF p
  <2>2. Current(p, metas')
    BY <1>2, <1>3, <1>5, <2>1, NextCurrent DEF p
  <2>3. \A b \in Banks : metas'[b] = Absent \/ Written(metas'[b], attempts)
    BY <1>2, <1>6, <2>1 DEF ContextInv, Descriptions
  <2> QED BY <1>1, <1>2, <1>6, <1>7, <1>10, <2>1, <2>2, <2>3 DEF Descriptions, Described
<1>12. TypeOK'
  BY <1>1, <1>2, <1>5 DEF ContextInv, TypeOK, Stages
<1>13. Places'
  BY <1>1, <1>2 DEF ContextInv, Places, Appending, Erasing
<1>14. SaidOne
  <2>1. Telltale' = Append(Telltale, attempts)
    BY <1>1, <1>2, <1>8 DEF Telltale, p
  <2>2. acked < attempts
    BY <1>2, Typed DEF Acknowledged
  <2> QED BY <1>1, <1>4, <2>1, <2>2 DEF SaidOne
<1> QED BY <1>1, <1>11, <1>12, <1>13, <1>14 DEF StepKept, ContextInv, Drafts

(* Steps that leave flash and RAM alone.                                   *)
LEMMA QuietStep ==
  ASSUME ContextInv, UNCHANGED <<metas, turns, summaries, ram, attempts, forgets, acked>>,
         stage # "erase", stage' \notin {"erase", "append"}
  PROVE  Descriptions' /\ Untold
<1>1. /\ Here = ram /\ Here' = ram /\ Heard' = attempts /\ Heard \in {attempts, attempts - 1}
      /\ attempts \in 0..MaxTurns /\ MaxTurns \in Nat /\ turns \in Cells /\ summaries \in Sums
  BY Typed DEF Here, Heard
<1>2. Described(ram, turns, summaries, attempts, Heard)
  BY <1>1 DEF ContextInv, Descriptions
<1>3. Heard \in Int /\ Heard <= attempts
  BY <1>1
<1>4. Described(ram, turns, summaries, attempts, attempts)
  BY <1>1, <1>2, <1>3, StaysDescribed
<1>5. Descriptions'
  BY <1>1, <1>4 DEF ContextInv, Descriptions
<1> QED BY <1>1, <1>5 DEF Untold, Telltale

LEMMA PlanSame ==
  ASSUME UNCHANGED <<turns, ram>>
  PROVE  Plan' = Plan
BY DEF Plan, OverBytes, Bytes, Stored

LEMMA AppendFailsStep ==
  ASSUME ContextInv, AppendFails
  PROVE  StepKept
<1>1. /\ stage = "append" /\ stage' = "idle" /\ faults' = faults + 1
      /\ UNCHANGED <<metas, turns, summaries, ram, draft, remove, erased, attempts, reboots, forgets, acked>>
  BY DEF AppendFails, Go, Fault, flash
<1>2. Descriptions' /\ Untold
  BY <1>1, QuietStep
<1>3. TypeOK'
  BY <1>1 DEF ContextInv, TypeOK, Stages
<1> QED BY <1>1, <1>2, <1>3 DEF StepKept, ContextInv, Drafts, Places, Appending, Erasing

----------------------------------------------------------------------------
(* compact_context.                                                        *)
LEMMA PlanCompactionStep ==
  ASSUME ContextInv, PlanCompaction
  PROVE  StepKept
<1>1. /\ stage = "plan" /\ remove' = Plan /\ stage' \in {"idle", "summarise", "failed"}
      /\ draft' = IF Plan = 0 THEN <<>> ELSE Told(ram, Plan)
      /\ stage' = "summarise" => Plan # 0
      /\ UNCHANGED <<metas, turns, summaries, ram, erased, attempts, faults, reboots, forgets, acked>>
  BY DEF PlanCompaction, Go, flash, count
<1>2. /\ Here = ram /\ erased = 0 /\ attempts \in 0..MaxTurns /\ turns \in Cells /\ summaries \in Sums
  BY <1>1, Typed DEF Here, ContextInv, Places
<1>3. Written(ram, attempts) /\ Whole(ram, turns, summaries)
  BY <1>2 DEF ContextInv, Descriptions, Described
<1>4. Plan \in 0..Stored(ram) /\ Stored(ram) \in Nat
  BY <1>2, <1>3, PlanDone, DescribedFits
<1>5. Told(ram, Plan) \in Seq(Nat)
  <2>1. Fits(ram, Plan)
    BY <1>2, <1>3, <1>4, DescribedFits
  <2> QED BY <1>2, <2>1, TellsTyped, ToldTells DEF Telling
<1>6. Descriptions' /\ Untold
  BY <1>1, QuietStep
<1>7. TypeOK'
  <2>1. draft' \in Seq(Nat)
    BY <1>1, <1>5
  <2>2. remove' \in Nat /\ erased' \in 0..remove'
    BY <1>1, <1>2, <1>4
  <2> QED BY <1>1, <2>1, <2>2 DEF ContextInv, TypeOK, Stages
<1>8. Drafts'
  <2>1. Plan' = Plan /\ Stored(ram)' = Stored(ram)
    BY <1>1, PlanSame DEF Stored
  <2>2. Told(ram, remove)' = Told(ram, Plan)
    BY <1>1 DEF Told
  <2>3. ASSUME stage' = "summarise"
        PROVE  remove' \in 1..Stored(ram) /\ draft' = Told(ram, Plan)
    BY <1>1, <1>4, <2>3
  <2> QED BY <1>1, <2>1, <2>2, <2>3 DEF Drafts
<1>9. Places'
  BY <1>1 DEF ContextInv, Places, Appending, Erasing
<1> QED BY <1>6, <1>7, <1>8, <1>9 DEF StepKept, ContextInv

LEMMA DraftsSame ==
  ASSUME Drafts, UNCHANGED <<turns, summaries, ram, draft, remove>>,
         stage' \in {"summarise", "blob", "meta"} => stage \in {"summarise", "blob", "meta"},
         stage' = "meta" => stage = "meta"
  PROVE  Drafts'
<1>1. Plan' = Plan
  BY PlanSame
<1>2. Told(ram, remove)' = Told(ram, remove) /\ Stored(ram)' = Stored(ram)
  BY DEF Told, Stored
<1> QED BY <1>1, <1>2 DEF Drafts

LEMMA SummariseStep ==
  ASSUME ContextInv, Summarise
  PROVE  StepKept
<1>1. /\ stage = "summarise" /\ stage' \in {"blob", "failed"}
      /\ UNCHANGED <<metas, turns, summaries, ram, draft, remove, erased, attempts, faults, reboots, forgets, acked>>
  BY DEF Summarise, Go, flash, count
<1>2. Descriptions' /\ Untold
  BY <1>1, QuietStep
<1>3. TypeOK'
  BY <1>1 DEF ContextInv, TypeOK, Stages
<1>4. Drafts'
  BY <1>1, DraftsSame DEF ContextInv
<1> QED BY <1>1, <1>2, <1>3, <1>4 DEF StepKept, ContextInv, Places, Appending, Erasing

LEMMA CommitFailsStep ==
  ASSUME ContextInv, CommitFails
  PROVE  StepKept
<1>1. /\ stage \in {"blob", "meta"} /\ stage' = "failed" /\ faults' = faults + 1
      /\ UNCHANGED <<metas, turns, summaries, ram, draft, remove, erased, attempts, reboots, forgets, acked>>
  BY DEF CommitFails, Go, Fault, flash
<1>2. Descriptions' /\ Untold
  BY <1>1, QuietStep
<1>3. TypeOK'
  BY <1>1 DEF ContextInv, TypeOK, Stages
<1> QED BY <1>1, <1>2, <1>3 DEF StepKept, ContextInv, Drafts, Places, Appending, Erasing

(* The bank of the current summary is not the one that is written.         *)
LEMMA CommitBlobStep ==
  ASSUME ContextInv, CommitBlob
  PROVE  StepKept
<1>1. /\ stage = "blob" /\ stage' = "meta" /\ summaries' = [summaries EXCEPT ![1 - ram.bank] = draft]
      /\ UNCHANGED <<metas, turns, ram, draft, remove, erased, attempts, faults, reboots, forgets, acked>>
  BY DEF CommitBlob, Go, count
<1>2. /\ Here = ram /\ Here' = ram /\ Heard = attempts /\ Heard' = attempts
      /\ attempts \in 0..MaxTurns /\ MaxTurns \in Nat /\ turns \in Cells /\ summaries \in Sums
      /\ draft \in Seq(Nat) /\ ram.bank \in Banks
  BY <1>1, Typed DEF Here, Heard, Meta
<1>3. /\ summaries' \in Sums /\ summaries'[ram.bank] = summaries[ram.bank]
      /\ summaries'[1 - ram.bank] = draft
  BY <1>1, <1>2 DEF Sums, Banks
<1>4. Described(ram, turns, summaries, attempts, attempts)
  BY <1>2 DEF ContextInv, Descriptions
<1>5. /\ Described(ram, turns, summaries', attempts, attempts)
      /\ Tells(ram, Stored(ram), turns, summaries') = Tells(ram, Stored(ram), turns, summaries)
  BY <1>2, <1>3, <1>4, StaysTold
<1>6. Descriptions'
  BY <1>1, <1>2, <1>5 DEF ContextInv, Descriptions
<1>7. Untold
  BY <1>1, <1>2, <1>5 DEF Untold, Telltale
<1>8. TypeOK'
  BY <1>1, <1>3 DEF ContextInv, TypeOK, Stages, Sums
<1>9. Drafts'
  <2>1. Plan' = Plan /\ Stored(ram)' = Stored(ram)
    BY <1>1, PlanSame DEF Stored
  <2>2. Told(ram, remove)' = Told(ram, remove)
    BY <1>1, <1>3 DEF Told
  <2> QED BY <1>1, <1>3, <2>1, <2>2 DEF ContextInv, Drafts
<1> QED BY <1>1, <1>6, <1>7, <1>8, <1>9 DEF StepKept, ContextInv, Places, Appending, Erasing

LEMMA CompactedFields ==
  ASSUME ram \in Meta, remove \in Nat, Bytes(ram, remove) \in Int
  PROVE  /\ Compacted \in Meta /\ Compacted.gen = ram.gen + 1 /\ Compacted.first = ram.first + remove
         /\ Compacted.next = ram.next /\ Compacted.bytes = ram.bytes - Bytes(ram, remove)
         /\ Compacted.summary = TRUE /\ Compacted.bank = 1 - ram.bank
<1> DEFINE g == ram.gen + 1
           f == ram.first + remove
           y == Bytes(ram, remove)
           b == ram.bytes - y
           k == 1 - ram.bank
<1>1. g \in Nat /\ f \in Nat /\ b \in Int /\ k \in Banks
  BY DEF Meta, Banks
<1>2. Compacted = [ram EXCEPT !.gen = g, !.first = f, !.bytes = b, !.summary = TRUE, !.bank = k]
  BY DEF Compacted
<1> HIDE DEF g, f, b, k
<1>3. LET q == [ram EXCEPT !.gen = g, !.first = f, !.bytes = b, !.summary = TRUE, !.bank = k]
      IN  /\ q \in Meta /\ q.gen = g /\ q.first = f /\ q.next = ram.next
          /\ q.bytes = b /\ q.summary = TRUE /\ q.bank = k
  BY <1>1 DEF Meta
<1> QED BY <1>2, <1>3 DEF g, f, b, k

(* The summary tells what it replaces.                                     *)
LEMMA CommitMetaStep ==
  ASSUME ContextInv, CommitMeta
  PROVE  StepKept
<1>1. /\ stage = "meta" /\ stage' = "erase" /\ erased' = 0
      /\ metas' = [metas EXCEPT ![NextBank(Compacted.gen)] = Compacted]
      /\ UNCHANGED <<turns, summaries, ram, draft, remove, attempts, faults, reboots, forgets, acked>>
  BY DEF CommitMeta, Go, WriteMeta, count
<1>2. /\ Here = ram /\ Heard = attempts /\ Heard' = attempts
      /\ attempts \in 0..MaxTurns /\ MaxTurns \in Nat
      /\ metas \in [Banks -> Meta] /\ ram \in Meta /\ turns \in Cells /\ summaries \in Sums /\ remove \in Nat
  BY <1>1, Typed DEF Here, Heard
<1>3. /\ Written(ram, attempts) /\ Current(ram, metas) /\ Whole(ram, turns, summaries)
      /\ Spoken(ram, turns, summaries, attempts)
  BY <1>2 DEF ContextInv, Descriptions, Described
<1>4. /\ remove \in 1..Stored(ram) /\ summaries[1 - ram.bank] = Tells(ram, remove, turns, summaries)
  BY <1>1, ToldTells DEF ContextInv, Drafts
<1>5. /\ ram.first \in Nat /\ ram.next \in Nat /\ Stored(ram) \in Nat /\ 1 <= ram.first
      /\ ram.first + Stored(ram) = ram.next /\ ram.next <= MaxTurns + 1 /\ ram.next <= attempts + 1
      /\ Fits(ram, remove) /\ Fits(ram, Stored(ram))
  <2>1. remove \in 0..Stored(ram) /\ Stored(ram) \in 0..Stored(ram)
    BY <1>2, <1>3, <1>4, DescribedFits
  <2> QED BY <1>2, <1>3, <2>1, DescribedFits DEF Written
<1>6. Bytes(ram, remove) \in Int
  BY <1>2, <1>3, <1>4, PartBytes
<1> DEFINE p == Compacted
<1>7. /\ p \in Meta /\ p.gen = ram.gen + 1 /\ p.first = ram.first + remove
      /\ p.next = ram.next /\ p.bytes = ram.bytes - Bytes(ram, remove)
      /\ p.summary = TRUE /\ p.bank = 1 - ram.bank
  BY <1>2, <1>6, CompactedFields
<1>8. metas' = [metas EXCEPT ![NextBank(p.gen)] = p]
  BY <1>1
<1> HIDE DEF p
<1>9. /\ Written(p, attempts) /\ Stored(p) = Stored(ram) - remove /\ Fits(p, Stored(ram) - remove)
  <2>1. Written(p, attempts) /\ Stored(p) = Stored(ram) - remove
    BY <1>4, <1>5, <1>7 DEF Written, Stored
  <2>2. Stored(p) \in 0..Stored(p)
    BY <1>4, <1>5, <2>1
  <2> QED BY <1>2, <2>1, <2>2, DescribedFits
<1>10. Here' = p
  <2>1. NextBank(ram.gen + 1) \in Banks
    BY <1>2, BankOf DEF Meta
  <2>2. Here' = metas'[NextBank(ram.gen + 1)]
    BY <1>1 DEF Here, Committed
  <2> QED BY <1>2, <1>7, <1>8, <2>1, <2>2
<1>11. Whole(p, turns, summaries)
  <2>1. \A k \in p.first..(p.next - 1) : turns[k] # NoTurn
    BY <1>2, <1>3, <1>5, <1>7 DEF Whole
  <2>2. Telling(ram, remove, turns, summaries)
    BY <1>2, <1>5, TellsTyped
  <2>3. Len(summaries[p.bank]) # 0
    BY <1>4, <1>7, <2>2 DEF Telling
  <2>4. summaries[p.bank] # <<>>
    BY <2>3
  <2>5. /\ ram.bytes = SizeTo(turns, ram.next - 1) - SizeTo(turns, ram.first - 1)
        /\ Bytes(ram, remove) = SizeTo(turns, ram.first + remove - 1) - SizeTo(turns, ram.first - 1)
    BY <1>3 DEF Whole, Bytes
  <2>6. /\ SizeTo(turns, ram.next - 1) \in Nat /\ SizeTo(turns, ram.first - 1) \in Nat
        /\ SizeTo(turns, ram.first + remove - 1) \in Nat
    <3>1. ram.next - 1 \in 0..MaxTurns /\ ram.first - 1 \in 0..MaxTurns /\ ram.first + remove - 1 \in 0..MaxTurns
      BY <1>2, <1>4, <1>5
    <3> QED BY <1>2, <3>1, SizeBetween
  <2>7. p.bytes = SizeTo(turns, p.next - 1) - SizeTo(turns, p.first - 1)
    <3>1. p.next - 1 = ram.next - 1 /\ p.first - 1 = ram.first + remove - 1
      BY <1>2, <1>5, <1>7
    <3>2. p.bytes = SizeTo(turns, ram.next - 1) - SizeTo(turns, ram.first + remove - 1)
      BY <1>7, <2>5, <2>6
    <3> QED BY <3>1, <3>2
  <2> QED BY <2>1, <2>4, <2>7 DEF Whole
<1>12. Tells(p, Stored(p), turns, summaries) = Telltale
  <2>1. remove \in 0..Stored(ram)
    BY <1>4, <1>5
  <2>2. summaries[p.bank] = Tells(ram, remove, turns, summaries)
    BY <1>4, <1>7
  <2>3. Tells(p, Stored(ram) - remove, turns, summaries) = Tells(ram, Stored(ram), turns, summaries)
    <3>1. p.first = ram.first + remove /\ p.summary
      BY <1>7
    <3>2. turns \in Cells /\ summaries \in Sums /\ Fits(ram, Stored(ram)) /\ Fits(p, Stored(ram) - remove)
      BY <1>2, <1>5, <1>9
    <3> QED BY <2>1, <2>2, <3>1, <3>2, TellsFolded
  <2> QED BY <1>2, <1>9, <2>3 DEF Telltale
<1>13. Spoken(p, turns, summaries, attempts)
  BY <1>2, <1>3, <1>12 DEF Spoken, Telltale
<1>14. Descriptions'
  <2>1. Current(p, metas')
    BY <1>2, <1>3, <1>7, <1>8, NextCurrent
  <2>2. \A b \in Banks : metas'[b] = Absent \/ Written(metas'[b], attempts)
    BY <1>2, <1>8, <1>9 DEF ContextInv, Descriptions
  <2> QED BY <1>1, <1>2, <1>3, <1>9, <1>10, <1>11, <1>13, <2>1, <2>2 DEF Descriptions, Described
<1>15. TypeOK'
  <2>1. metas' \in [Banks -> Meta]
    BY <1>2, <1>7, <1>8
  <2> QED BY <1>1, <1>2, <2>1 DEF ContextInv, TypeOK, Stages
<1>16. Places'
  <2>1. Committed' = p
    BY <1>1, <1>10 DEF Here
  <2>2. Erasing'
    BY <1>1, <1>7, <2>1 DEF Erasing
  <2> QED BY <1>1, <2>2 DEF ContextInv, Places, Appending
<1>17. Untold
  BY <1>1, <1>10, <1>12 DEF Untold, Telltale
<1> QED BY <1>1, <1>14, <1>15, <1>16, <1>17 DEF StepKept, ContextInv, Drafts

(* What is erased is not described any more.                               *)
LEMMA EraseTurnStep ==
  ASSUME ContextInv, EraseTurn
  PROVE  StepKept
<1>1. /\ stage = "erase" /\ stage' = stage /\ erased < remove /\ erased' = erased + 1
      /\ turns' \in {turns, [turns EXCEPT ![ram.first + erased] = NoTurn]}
      /\ faults' \in {faults, faults + 1}
      /\ UNCHANGED <<metas, summaries, ram, draft, remove, attempts, reboots, forgets, acked>>
  BY DEF EraseTurn, Fault
<1>2. /\ Here' = Here /\ Here = Committed /\ Heard = attempts /\ Heard' = attempts
      /\ attempts \in 0..MaxTurns /\ MaxTurns \in Nat /\ ram \in Meta
      /\ turns \in Cells /\ summaries \in Sums /\ remove \in Nat /\ erased \in 0..remove /\ faults \in Nat
  BY <1>1, Typed DEF Here, Committed, Heard
<1>3. Described(Here, turns, summaries, attempts, attempts)
  BY <1>2 DEF ContextInv, Descriptions
<1>4. turns' \in Cells
  BY <1>1, <1>2 DEF Cells, NoTurn
<1>5. \A k \in Here.first..(Here.next - 1) : turns[k] = turns'[k]
  <2>1. Here.first = ram.first + remove /\ ram.first \in Nat /\ Here.next \in Nat
    BY <1>1, <1>2, <1>3 DEF ContextInv, Places, Erasing, Meta, Described, Written
  <2>2. \A k \in Here.first..(Here.next - 1) : k # ram.first + erased
    BY <1>1, <1>2, <2>1
  <2>3. Here.first..(Here.next - 1) \subseteq Keys
    <3>1. Written(Here, attempts)
      BY <1>3 DEF Described
    <3>2. 1 <= Here.first /\ Here.next <= MaxTurns + 1
      BY <1>2, <3>1, DescribedFits DEF Written
    <3> QED BY <1>2, <2>1, <3>2 DEF Keys
  <2> QED BY <1>1, <1>2, <2>2, <2>3 DEF Cells
<1>6. attempts \in Int /\ attempts <= attempts
  BY <1>2
<1>7. /\ Described(Here, turns', summaries, attempts, attempts)
      /\ Tells(Here, Stored(Here), turns', summaries) = Telltale
  BY <1>2, <1>3, <1>4, <1>5, <1>6, StaysDescribed DEF Telltale
<1>8. Descriptions'
  BY <1>1, <1>2, <1>7 DEF ContextInv, Descriptions
<1>9. TypeOK'
  <2>1. faults' \in Nat /\ erased' \in 0..remove
    BY <1>1, <1>2
  <2> QED BY <1>1, <1>4, <2>1 DEF ContextInv, TypeOK, Cells
<1>10. Untold
  BY <1>1, <1>2, <1>7 DEF Untold, Telltale
<1>11. Places'
  BY <1>1 DEF ContextInv, Places, Appending, Erasing, Committed
<1> QED BY <1>1, <1>8, <1>9, <1>10, <1>11 DEF StepKept, ContextInv, Drafts

LEMMA EraseSummaryStep ==
  ASSUME ContextInv, EraseSummary
  PROVE  StepKept
<1>1. /\ stage = "erase" /\ stage' = "idle" /\ ram' = Committed /\ draft' = <<>> /\ remove' = 0 /\ erased' = 0
      /\ summaries' \in {summaries, [summaries EXCEPT ![ram.bank] = <<>>]}
      /\ UNCHANGED <<metas, turns, attempts, faults, reboots, forgets, acked>>
  BY DEF EraseSummary, Go, Committed, count
<1>2. /\ Here' = Committed /\ Here = Committed /\ Heard = attempts /\ Heard' = attempts
      /\ attempts \in 0..MaxTurns /\ MaxTurns \in Nat /\ ram \in Meta
      /\ turns \in Cells /\ summaries \in Sums
  BY <1>1, Typed DEF Here, Heard
<1>3. Described(Committed, turns, summaries, attempts, attempts) /\ Current(Committed, metas)
  BY <1>2 DEF ContextInv, Descriptions
<1>4. summaries' \in Sums /\ summaries'[Committed.bank] = summaries[Committed.bank]
  <2>1. Committed.bank = 1 - ram.bank /\ ram.bank \in Banks
    BY <1>1, <1>2 DEF ContextInv, Places, Erasing, Meta
  <2>2. 1 - ram.bank \in Banks /\ 1 - ram.bank # ram.bank
    BY <2>1 DEF Banks
  <2>3. summaries' \in Sums /\ summaries'[1 - ram.bank] = summaries[1 - ram.bank]
    <3>1. <<>> \in Seq(Nat)
      OBVIOUS
    <3>2. /\ [summaries EXCEPT ![ram.bank] = <<>>] \in Sums
          /\ [summaries EXCEPT ![ram.bank] = <<>>][1 - ram.bank] = summaries[1 - ram.bank]
      BY <1>2, <2>1, <2>2, <3>1 DEF Sums
    <3> QED BY <1>1, <1>2, <3>2
  <2> QED BY <2>1, <2>3
<1>5. /\ Described(Committed, turns, summaries', attempts, attempts)
      /\ Tells(Committed, Stored(Committed), turns, summaries') = Telltale
  <2> DEFINE c == Committed
  <2>1. Described(c, turns, summaries, attempts, attempts) /\ summaries[c.bank] = summaries'[c.bank]
    BY <1>3, <1>4
  <2> HIDE DEF c
  <2>2. /\ Described(c, turns, summaries', attempts, attempts)
        /\ Tells(c, Stored(c), turns, summaries') = Tells(c, Stored(c), turns, summaries)
    BY <1>2, <1>4, <2>1, StaysTold
  <2> QED BY <1>2, <2>2 DEF c, Telltale
<1>6. Descriptions'
  BY <1>1, <1>2, <1>3, <1>5 DEF ContextInv, Descriptions, Described
<1>7. TypeOK'
  <2>1. ram' \in Meta
    BY <1>1, <1>3 DEF Described, Written
  <2>2. <<>> \in Seq(Nat)
    OBVIOUS
  <2> QED BY <1>1, <1>4, <2>1, <2>2 DEF ContextInv, TypeOK, Stages, Sums
<1>8. Untold
  BY <1>1, <1>2, <1>5 DEF Untold, Telltale
<1> QED BY <1>1, <1>6, <1>7, <1>8 DEF StepKept, ContextInv, Drafts, Places, Appending, Erasing

(* Another generation of the same.                                         *)
LEMMA CompactionFailedStep ==
  ASSUME ContextInv, CompactionFailed
  PROVE  StepKept
<1>1. /\ stage = "failed" /\ stage' = "idle" /\ draft' = <<>> /\ remove' = 0
      /\ UNCHANGED <<turns, summaries, erased, attempts, reboots, forgets, acked>>
      /\ \/ /\ ram' = [ram EXCEPT !.gen = @ + 1] /\ metas' = [metas EXCEPT ![NextBank(ram'.gen)] = ram']
            /\ faults' = faults
         \/ faults' = faults + 1 /\ UNCHANGED <<metas, ram>>
  BY DEF CompactionFailed, WriteMeta, Go, Fault
<1>2. /\ Here = ram /\ Here' = ram' /\ Heard = attempts /\ Heard' = attempts
      /\ attempts \in 0..MaxTurns /\ MaxTurns \in Nat /\ erased = 0
      /\ metas \in [Banks -> Meta] /\ ram \in Meta /\ turns \in Cells /\ summaries \in Sums
  BY <1>1, Typed DEF Here, Heard, ContextInv, Places
<1>3. /\ Written(ram, attempts) /\ Current(ram, metas) /\ Whole(ram, turns, summaries)
      /\ Spoken(ram, turns, summaries, attempts)
  BY <1>2 DEF ContextInv, Descriptions, Described
<1>4. draft' \in Seq(Nat) /\ remove' \in Nat /\ erased' \in 0..remove'
  BY <1>1, <1>2
<1>5. Places'
  BY <1>1 DEF ContextInv, Places, Appending, Erasing
<1>6. CASE UNCHANGED <<metas, ram>>
  <2>1. Descriptions' /\ Untold
    BY <1>1, <1>6, QuietStep
  <2>2. TypeOK'
    BY <1>1, <1>4, <1>6 DEF ContextInv, TypeOK, Stages
  <2> QED BY <1>1, <1>5, <2>1, <2>2 DEF StepKept, ContextInv, Drafts
<1>7. CASE ram' = [ram EXCEPT !.gen = @ + 1] /\ metas' = [metas EXCEPT ![NextBank(ram'.gen)] = ram'] /\ faults' = faults
  <2>1. PICK p : p = ram'
    OBVIOUS
  <2>2. /\ p \in Meta /\ p.gen = ram.gen + 1 /\ p.first = ram.first /\ p.next = ram.next
        /\ p.bytes = ram.bytes /\ p.summary = ram.summary /\ p.bank = ram.bank
    BY <1>2, <1>7, <2>1 DEF Meta
  <2>3. metas' = [metas EXCEPT ![NextBank(p.gen)] = p]
    BY <1>7, <2>1
  <2>4. Written(p, attempts) /\ Whole(p, turns, summaries) /\ Stored(p) = Stored(ram)
    BY <1>3, <2>2 DEF Written, Whole, Stored
  <2>5. Tells(p, Stored(p), turns, summaries) = Tells(ram, Stored(ram), turns, summaries)
    BY <2>2, <2>4 DEF Tells, Base, Recent
  <2>6. Spoken(p, turns, summaries, attempts)
    BY <1>3, <2>5 DEF Spoken
  <2>7. Current(p, metas')
    BY <1>2, <1>3, <2>2, <2>3, NextCurrent
  <2>8. \A b \in Banks : metas'[b] = Absent \/ Written(metas'[b], attempts)
    BY <1>2, <2>3, <2>4 DEF ContextInv, Descriptions
  <2>9. Descriptions'
    BY <1>1, <1>2, <2>1, <2>4, <2>6, <2>7, <2>8 DEF Descriptions, Described
  <2>10. TypeOK'
    <3>1. metas' \in [Banks -> Meta] /\ ram' \in Meta
      BY <1>2, <2>1, <2>2, <2>3
    <3> QED BY <1>1, <1>4, <1>7, <3>1 DEF ContextInv, TypeOK, Stages
  <2>11. Untold
    BY <1>1, <1>2, <2>1, <2>5 DEF Untold, Telltale
  <2> QED BY <1>1, <1>5, <2>9, <2>10, <2>11 DEF StepKept, ContextInv, Drafts
<1> QED BY <1>1, <1>6, <1>7

----------------------------------------------------------------------------
(* mp_context_forget.                                                      *)
LEMMA ForgetEraseStep ==
  ASSUME ContextInv, ForgetErase
  PROVE  StepKept
<1>1. /\ stage = "idle" /\ stage' = "fresh" /\ ram' = Fresh /\ forgets' = forgets + 1
      /\ metas' = [b \in Banks |-> Absent] /\ turns' = [k \in Keys |-> NoTurn]
      /\ summaries' = [b \in Banks |-> <<>>]
      /\ UNCHANGED <<draft, remove, erased, attempts, faults, reboots, acked>>
  BY DEF ForgetErase, Go
<1>2. /\ Here' = Fresh /\ Heard' = attempts /\ attempts \in Nat
      /\ turns' \in Cells /\ summaries' \in Sums
      /\ metas' \in [Banks -> Meta] /\ metas'[0] = Absent /\ metas'[1] = Absent
  <2>1. Here' = Fresh /\ Heard' = attempts /\ attempts \in Nat
    BY <1>1, Typed DEF Here, Heard
  <2>2. turns' \in Cells /\ summaries' \in Sums
    BY <1>1 DEF Cells, Sums, NoTurn
  <2>3. metas' \in [Banks -> Meta] /\ metas'[0] = Absent /\ metas'[1] = Absent
    BY <1>1, FreshWritten DEF Banks
  <2> QED BY <2>1, <2>2, <2>3
<1>3. Described(Fresh, turns', summaries', attempts, attempts) /\ Tells(Fresh, Stored(Fresh), turns', summaries') = <<>>
  BY <1>2, FreshDescribed
<1>4. Current(Fresh, metas')
  BY <1>2 DEF Current
<1>5. Descriptions'
  BY <1>1, <1>2, <1>3, <1>4 DEF Descriptions, Described, Banks
<1>6. TypeOK'
  BY <1>1, <1>2, FreshWritten DEF ContextInv, TypeOK, Cells, Sums, Stages
<1>7. Places'
  BY <1>1, <1>2 DEF ContextInv, Places, Appending, Erasing
<1>8. Forgotten
  BY <1>1, <1>2, <1>3 DEF Forgotten, Telltale
<1> QED BY <1>1, <1>5, <1>6, <1>7, <1>8 DEF StepKept, ContextInv, Drafts

LEMMA ForgetWriteStep ==
  ASSUME ContextInv, ForgetWrite
  PROVE  StepKept
<1>1. /\ stage = "fresh" /\ stage' = "idle"
      /\ \/ metas' = [metas EXCEPT ![NextBank(Fresh.gen)] = Fresh] /\ faults' = faults
         \/ faults' = faults + 1 /\ metas' = metas
      /\ UNCHANGED <<turns, summaries, ram, draft, remove, erased, attempts, reboots, forgets, acked>>
  BY DEF ForgetWrite, WriteMeta, Go, Fault
<1>2. /\ Here = Fresh /\ Here' = Fresh /\ Heard = attempts /\ Heard' = attempts /\ attempts \in Nat
      /\ turns \in Cells /\ summaries \in Sums /\ metas \in [Banks -> Meta] /\ faults \in Nat
      /\ ram = Fresh /\ metas[0] = Absent /\ metas[1] = Absent
  BY <1>1, Typed DEF Here, Heard, ContextInv, Places
<1>3. CASE metas' = metas
  <2>1. Descriptions' /\ Untold
    BY <1>1, <1>3, QuietStep
  <2> QED BY <1>1, <1>2, <1>3, <2>1 DEF StepKept, ContextInv, TypeOK, Stages, Drafts, Places, Appending, Erasing
<1>4. CASE metas' = [metas EXCEPT ![NextBank(Fresh.gen)] = Fresh]
  <2>1. metas' \in [Banks -> Meta] /\ metas'[0] = Fresh /\ metas'[1] = Absent
    BY <1>2, <1>4, FreshWritten, BankOf DEF Banks
  <2>2. Current(Fresh, metas')
    BY <2>1, FreshWritten, BankOf DEF Current
  <2>3. Described(Fresh, turns, summaries, attempts, attempts)
    BY <1>2 DEF ContextInv, Descriptions
  <2>4. Descriptions'
    BY <1>1, <1>2, <2>1, <2>2, <2>3 DEF Descriptions, Described, Banks
  <2>5. Untold
    BY <1>1, <1>2 DEF Untold, Telltale
  <2>6. TypeOK'
    BY <1>1, <1>2, <2>1 DEF ContextInv, TypeOK, Stages
  <2> QED BY <1>1, <2>4, <2>5, <2>6 DEF StepKept, ContextInv, Drafts, Places, Appending, Erasing
<1> QED BY <1>1, <1>3, <1>4

(***************************************************************************)
(* mp_context_init: a write that was torn is not of the current bank.      *)
(***************************************************************************)
LEMMA RebootStep ==
  ASSUME ContextInv, Reboot
  PROVE  StepKept
<1>1. /\ reboots' = reboots + 1 /\ ram' = Newest' /\ stage' = "idle"
      /\ draft' = <<>> /\ remove' = 0 /\ erased' = 0
      /\ UNCHANGED <<turns, summaries, attempts, faults, forgets, acked>>
  BY DEF Reboot, Go
<1>2. PICK lost \in SUBSET Torn :
        LET left == [b \in Banks |-> IF b \in lost THEN Absent ELSE metas[b]]
            none == \A b \in Banks : left[b] = Absent
        IN  metas' = IF none THEN [left EXCEPT ![0] = Fresh] ELSE left
  BY DEF Reboot
<1> DEFINE left == [b \in Banks |-> IF b \in lost THEN Absent ELSE metas[b]]
<1>3. metas' = IF \A b \in Banks : left[b] = Absent THEN [left EXCEPT ![0] = Fresh] ELSE left
  BY <1>2
<1>4. /\ Heard' = attempts /\ Heard \in Int /\ Heard <= attempts
      /\ attempts \in 0..MaxTurns /\ MaxTurns \in Nat /\ reboots \in Nat
      /\ metas \in [Banks -> Meta] /\ ram \in Meta /\ turns \in Cells /\ summaries \in Sums
  BY <1>1, Typed DEF Heard
<1>5. /\ Written(Here, attempts) /\ Current(Here, metas)
      /\ Described(Here, turns, summaries, attempts, Heard)
  BY DEF ContextInv, Descriptions, Described
<1>6. left \in [Banks -> Meta] /\ \A b \in Banks : left[b] \in {Absent, metas[b]}
  BY <1>4, FreshWritten
<1>7. Current(Here, left)
  <2>1. \/ lost = {} \/ lost = {NextBank(Here.gen + 1)}
        \/ metas[0] = Absent /\ metas[1] = Absent
    <3>1. CASE stage \in {"append", "meta", "failed"}
      BY <3>1 DEF Torn, Here
    <3>2. CASE stage = "fresh"
      BY <3>2 DEF ContextInv, Places
    <3>3. CASE stage \notin {"append", "meta", "failed", "fresh"}
      BY <3>3 DEF Torn
    <3> QED BY <3>1, <3>2, <3>3
  <2>2. Here \in Meta
    BY <1>5 DEF Written
  <2> QED BY <1>4, <1>5, <2>1, <2>2, TornCurrent
<1> HIDE DEF left
<1>8. metas' \in [Banks -> Meta] /\ Current(Here, metas')
  <2>1. CASE \A b \in Banks : left[b] = Absent
    <3>1. metas' = [left EXCEPT ![0] = Fresh] /\ left[0] = Absent /\ left[1] = Absent
      BY <1>3, <2>1 DEF Banks
    <3>2. metas' \in [Banks -> Meta] /\ metas'[0] = Fresh /\ metas'[1] = Absent
      BY <1>6, <3>1, FreshWritten DEF Banks
    <3>3. Here = Fresh
      <4>1. Here # Absent
        BY <1>5, FreshWritten DEF Written
      <4>2. NextBank(Here.gen) \in Banks
        BY <1>5, BankOf DEF Written, Meta
      <4> QED BY <1>7, <2>1, <4>1, <4>2 DEF Current
    <3>4. Current(Fresh, metas')
      BY <3>2, FreshWritten, BankOf DEF Current
    <3> QED BY <3>2, <3>3, <3>4
  <2>2. CASE ~\A b \in Banks : left[b] = Absent
    <3>1. metas' = left
      BY <1>3, <2>2
    <3> QED BY <1>6, <1>7, <3>1
  <2> QED BY <2>1, <2>2
<1>9. ram' = Here /\ Here' = Here
  <2>1. NewestOf(metas') = Here
    BY <1>5, <1>8, CurrentFound
  <2>2. Newest' = NewestOf(metas')
    BY DEF Newest, NewestOf
  <2>3. Here' = ram'
    BY <1>1 DEF Here
  <2> QED BY <1>1, <2>1, <2>2, <2>3
<1>10. \A b \in Banks : metas'[b] = Absent \/ Written(metas'[b], attempts)
  <2>1. Written(Fresh, attempts)
    BY <1>4, FreshWritten DEF Written
  <2>2. \A b \in Banks : metas[b] = Absent \/ Written(metas[b], attempts)
    BY DEF ContextInv, Descriptions
  <2>3. \A b \in Banks : metas'[b] \in {Fresh, left[b]}
    BY <1>3, <1>6
  <2> QED BY <1>6, <2>1, <2>2, <2>3
<1>11. Described(Here, turns, summaries, attempts, attempts)
  <2> DEFINE c == Here
             h == Heard
  <2>1. Described(c, turns, summaries, attempts, h) /\ h \in Int /\ h <= attempts
    BY <1>4, <1>5
  <2> HIDE DEF c, h
  <2>2. Described(c, turns, summaries, attempts, attempts)
    BY <1>4, <2>1, StaysDescribed
  <2> QED BY <2>2 DEF c
<1>12. Descriptions'
  BY <1>1, <1>4, <1>5, <1>8, <1>9, <1>10, <1>11 DEF Descriptions
<1>13. TypeOK'
  <2>1. ram' \in Meta
    BY <1>5, <1>9 DEF Written
  <2>2. <<>> \in Seq(Nat)
    OBVIOUS
  <2> QED BY <1>1, <1>4, <1>8, <2>1, <2>2 DEF ContextInv, TypeOK, Stages
<1>14. Untold
  BY <1>1, <1>9 DEF Untold, Telltale
<1> QED BY <1>1, <1>12, <1>13, <1>14 DEF StepKept, ContextInv, Drafts, Places, Appending, Erasing

----------------------------------------------------------------------------
LEMMA StutterStep ==
  ASSUME ContextInv, UNCHANGED vars
  PROVE  StepKept
<1>1. UNCHANGED <<metas, turns, summaries, ram, stage, draft, remove, erased, attempts, faults, reboots, forgets, acked>>
  BY DEF vars, flash, work, count
<1>2. Here' = Here /\ Heard' = Heard /\ Committed' = Committed
  BY <1>1 DEF Here, Heard, Committed
<1>3. Drafts'
  BY <1>1, DraftsSame DEF ContextInv
<1>4. Descriptions' /\ Untold
  BY <1>1, <1>2 DEF ContextInv, Descriptions, Untold, Telltale
<1>5. TypeOK'
  BY <1>1 DEF ContextInv, TypeOK
<1>6. Places'
  BY <1>1, <1>2 DEF ContextInv, Places, Appending, Erasing
<1> QED BY <1>3, <1>4, <1>5, <1>6 DEF StepKept, ContextInv

LEMMA AcknowledgedStep == ContextInv /\ Acknowledged /\ [Next]_vars => Acknowledged'
<1> SUFFICES ASSUME ContextInv, Acknowledged, [Next]_vars
             PROVE  Acknowledged'
  OBVIOUS
<1>1. attempts \in Nat /\ acked \in Nat /\ acked <= attempts /\ (stage = "append" => acked <= attempts - 1)
  BY Typed DEF Acknowledged, Heard
<1>2. ASSUME NEW size \in Sizes, AppendBlob(size)
      PROVE  Acknowledged'
  BY <1>1, <1>2 DEF AppendBlob, Go, Acknowledged, Heard
<1>3. CASE AppendMeta
  BY <1>1, <1>3 DEF AppendMeta, Go, Acknowledged, Heard
<1>4. CASE acked' = acked /\ attempts' = attempts /\ stage' # "append"
  BY <1>1, <1>4 DEF Acknowledged, Heard
<1>5. CASE UNCHANGED vars
  BY <1>5 DEF Acknowledged, Heard, vars, work, count
<1>6. CASE AppendFails \/ PlanCompaction \/ Summarise \/ CommitBlob \/ CommitMeta \/ CommitFails
  BY <1>4, <1>6 DEF AppendFails, PlanCompaction, Summarise, CommitBlob, CommitMeta, CommitFails, Go, count
<1>7. CASE EraseTurn
  BY <1>4, <1>7 DEF EraseTurn, count
<1>8. CASE EraseSummary \/ CompactionFailed \/ ForgetErase \/ ForgetWrite \/ Reboot
  BY <1>4, <1>8 DEF EraseSummary, CompactionFailed, ForgetErase, ForgetWrite, Reboot, Go, count
<1> QED BY <1>2, <1>3, <1>5, <1>6, <1>7, <1>8 DEF Next

LEMMA ContextInvStep == ContextInv /\ Acknowledged /\ [Next]_vars => StepKept
<1> SUFFICES ASSUME ContextInv, Acknowledged, [Next]_vars
             PROVE  StepKept
  OBVIOUS
<1>1. ASSUME NEW size \in Sizes, AppendBlob(size)
      PROVE  StepKept
  BY <1>1, AppendBlobStep
<1>2. CASE AppendMeta \/ AppendFails \/ PlanCompaction \/ Summarise
  BY <1>2, AppendMetaStep, AppendFailsStep, PlanCompactionStep, SummariseStep
<1>3. CASE CommitBlob \/ CommitMeta \/ CommitFails \/ EraseTurn \/ EraseSummary \/ CompactionFailed
  BY <1>3, CommitBlobStep, CommitMetaStep, CommitFailsStep, EraseTurnStep, EraseSummaryStep, CompactionFailedStep
<1>4. CASE ForgetErase \/ ForgetWrite \/ Reboot
  BY <1>4, ForgetEraseStep, ForgetWriteStep, RebootStep
<1>5. CASE UNCHANGED vars
  BY <1>5, StutterStep
<1> QED BY <1>1, <1>2, <1>3, <1>4, <1>5 DEF Next

(* The inductive invariant of the store.                                   *)
THEOREM ContextInvariant == Spec => [](ContextInv /\ Acknowledged)
<1>1. Init => Acknowledged
  BY DEF Init, Acknowledged, Heard
<1> QED BY <1>1, ContextInvInit, ContextInvStep, AcknowledgedStep, PTL DEF Spec, StepKept

LEMMA NewestHere ==
  ASSUME ContextInv
  PROVE  Newest = Here
<1>1. Written(Here, attempts) /\ Current(Here, metas) /\ metas \in [Banks -> Meta]
  BY Typed DEF ContextInv, Descriptions, Described
<1>2. NewestOf(metas) = Here
  BY <1>1, CurrentFound
<1> QED BY <1>2 DEF Newest, NewestOf

(* RAM describes what a start would find, and the count of bytes that      *)
(* triggers a compaction is exact (mp_context_init, mp_context_append,     *)
(* mp_context_commit_summary).                                             *)
THEOREM ContextStaysSound == Spec => []ContextSound
<1>1. ContextInv => ContextSound
  <2> SUFFICES ASSUME ContextInv
               PROVE  ContextSound
    OBVIOUS
  <2>1. Newest = Here
    BY NewestHere
  <2>2. RamIsFlash
    BY <2>1 DEF RamIsFlash, Here
  <2>3. Newest.bytes = Bytes(Newest, Stored(Newest))
    <3>1. Written(Here, attempts) /\ Whole(Here, turns, summaries) /\ attempts \in 0..MaxTurns
      BY Typed DEF ContextInv, Descriptions, Described
    <3>2. Here.first + Stored(Here) - 1 = Here.next - 1
      BY <3>1, DescribedFits
    <3> QED BY <2>1, <3>1, <3>2 DEF Whole, Bytes
  <2>4. stage # "erase" => ram.bytes = Bytes(ram, Stored(ram))
    BY <2>1, <2>3 DEF Here
  <2> QED BY <2>2, <2>3, <2>4 DEF ContextSound, BytesExact, ContextInv
<1> QED BY <1>1, ContextInvariant, PTL

(* A plan keeps up with both triggers, and none is skipped while one of    *)
(* them calls for it (mp_context_compaction_plan).                         *)
THEOREM PlansKeepUp == Spec => CompactionKeepsUp
<1>1. ASSUME ContextInv, CommitMeta, Stored(ram) <= TurnTrigger
      PROVE  KeepsUp(Compacted)
  <2>1. stage = "meta"
    BY <1>1 DEF CommitMeta
  <2>2. /\ Written(ram, attempts) /\ Whole(ram, turns, summaries) /\ attempts \in 0..MaxTurns
        /\ turns \in Cells /\ ram \in Meta /\ remove = Plan
    BY <1>1, <2>1, Typed DEF ContextInv, Descriptions, Described, Here, Drafts
  <2>3. /\ Stored(ram) - remove < TurnTrigger
        /\ ram.bytes - Bytes(ram, remove) < ByteTrigger \/ Stored(ram) - remove <= 2
        /\ remove \in 0..Stored(ram)
    BY <1>1, <2>2, PlanDone
  <2>4. Stored(ram) \in Nat /\ Bytes(ram, remove) \in Int /\ remove \in Nat
    BY <2>2, <2>3, PartBytes
  <2>5. Compacted.next = ram.next /\ Compacted.first = ram.first + remove
        /\ Compacted.bytes = ram.bytes - Bytes(ram, remove)
    BY <2>2, <2>4, CompactedFields
  <2>6. Stored(Compacted) = Stored(ram) - remove
    BY <2>2, <2>4, <2>5 DEF Stored, Meta
  <2> QED BY <2>3, <2>5, <2>6 DEF KeepsUp
<1>2. ASSUME ContextInv, PlanCompaction, remove' = 0
      PROVE  KeepsUp(ram)
  <2>1. stage = "plan" /\ Plan = 0
    BY <1>2 DEF PlanCompaction
  <2>2. /\ Written(ram, attempts) /\ Whole(ram, turns, summaries) /\ attempts \in 0..MaxTurns /\ turns \in Cells
    BY <1>2, <2>1, Typed DEF ContextInv, Descriptions, Described, Here
  <2> QED BY <2>1, <2>2, PlanDone
<1> QED BY <1>1, <1>2, ContextInvariant, PTL DEF CompactionKeepsUp, Spec

(* What the model is told implements the log: no turn is lost, repeated or *)
(* reordered by a reboot, a failed write or a compaction; a turn is told   *)
(* from its acknowledgement on, and only a /forget ends that               *)
(* (ConversationLog; format_range, mp_context_init, mp_context_forget).    *)
THEOREM StoreImplementsLog == Spec => ConversationKept
<1>1. Init => Log!Init
  <2> SUFFICES ASSUME Init
               PROVE  Log!Init
    OBVIOUS
  <2>1. Newest = Here /\ Telltale = <<>>
    BY ContextInvInit, NewestHere
  <2>2. acked = 0 /\ forgets = 0
    BY DEF Init
  <2> QED BY <2>1, <2>2, ToldTells DEF Log!Init, Telltale
<1>2. ContextInv /\ Acknowledged /\ [Next]_vars
      => [Log!Next]_(<<Told(Newest, Stored(Newest)), acked, forgets>>)
  <2> SUFFICES ASSUME ContextInv, Acknowledged, [Next]_vars
               PROVE  [Log!Next]_(<<Told(Newest, Stored(Newest)), acked, forgets>>)
    OBVIOUS
  <2>1. ContextInv' /\ (Untold \/ SaidOne \/ Forgotten)
    BY ContextInvStep DEF StepKept
  <2>2. Told(Newest, Stored(Newest)) = Telltale
    BY NewestHere, ToldTells DEF Telltale
  <2>3. Told(Newest, Stored(Newest))' = Telltale'
    <3>1. Newest' = Here'
      <4>1. Written(Here', attempts') /\ Current(Here', metas') /\ metas' \in [Banks -> Meta]
        BY <2>1 DEF ContextInv, TypeOK, Descriptions, Described
      <4>2. NewestOf(metas') = Here'
        BY <4>1, CurrentFound
      <4> QED BY <4>2 DEF Newest, NewestOf
    <3>2. Told(Newest, Stored(Newest))' = Tells(Newest', Stored(Newest'), turns', summaries')
      BY DEF Told, Tells, Base, Recent, Stored
    <3> QED BY <3>1, <3>2 DEF Telltale
  <2> QED BY <2>1, <2>2, <2>3 DEF Log!Next, Log!Say, Log!Forget, Untold, SaidOne, Forgotten
<1> QED BY <1>1, <1>2, ContextInvariant, PTL DEF Spec, ConversationKept, Log!Spec
=============================================================================
