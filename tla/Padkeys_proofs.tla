--------------------------- MODULE Padkeys_proofs ---------------------------
(***************************************************************************)
(* The gamepad keys, for any pads, tables, ranges and queues: what padkeys *)
(* makes of the keycodes of a Bluetooth pad is the report they come from,  *)
(* once the Bluetooth pads are at rest every key that is down has a pad    *)
(* that asks for it: what stick bytes that look like a button byte have    *)
(* put down does not outlast them and the d-pad.                           *)
(***************************************************************************)
EXTENDS Padkeys, SequenceTheorems, FiniteSetTheorems, WellFoundedInduction, TLAPS

(* Induction up to n, for a set of numbers.                                *)
LEMMA Least ==
  ASSUME NEW T \in SUBSET Nat, T # {}
  PROVE  \E m \in T : \A k \in T : m <= k
<1>. DEFINE R == {ss \in Nat \X Nat : ss[1] < ss[2]}
<1>1. IsWellFoundedOn(R, Nat)
  BY NatLessThanWellFounded DEF OpToRel
<1>2. PICK m \in T : \A k \in T : ~(<<k, m>> \in R)
  <2>. HIDE DEF R
  <2>. QED
    BY <1>1, WFMin
<1>3. ASSUME NEW k \in T PROVE m <= k
  <2>1. <<k, m>> \in Nat \X Nat /\ ~(k < m)
    BY <1>2
  <2>. QED
    BY <2>1
<1>. QED
  BY <1>3

LEMMA UpTo ==
  ASSUME NEW n \in Nat, NEW T, 0 \in T, \A k \in 0..(n - 1) : k \in T => k + 1 \in T
  PROVE  \A k \in 0..n : k \in T
<1>. DEFINE Bad == {k \in 0..n : k \notin T}
<1>1. SUFFICES ASSUME Bad # {} PROVE FALSE
  OBVIOUS
<1>2. Bad \in SUBSET Nat
  OBVIOUS
<1>3. PICK m \in Bad : \A k \in Bad : m <= k
  <2>. HIDE DEF Bad
  <2>. QED
    BY <1>1, <1>2, Least
<1>4. m # 0 /\ m - 1 \in 0..(n - 1) /\ m - 1 \notin Bad /\ (m - 1) + 1 = m
  BY <1>3
<1>. QED
  BY <1>4

(* Min of the community modules, for sets of indices.                      *)
LEMMA MinIn ==
  ASSUME NEW T \in SUBSET Nat, T # {}
  PROVE  Min(T) \in T /\ \A k \in T : Min(T) <= k
BY Least DEF Min

(* SetToSeq lists every element of a finite set.                           *)
LEMMA Listed ==
  ASSUME NEW S, IsFiniteSet(S)
  PROVE  /\ SetToSeq(S) \in Seq(S)
         /\ \A x \in S : \E j \in DOMAIN SetToSeq(S) : SetToSeq(S)[j] = x
<1>. DEFINE n == Cardinality(S)
            f == SetToSeq(S)
<1>1. n \in Nat /\ ExistsBijection(1..n, S)
  BY FS_CardinalityType
<1>2. \E h : h \in [1..n -> S] /\ IsInjective(h)
  BY <1>1 DEF ExistsBijection, Bijection, Injection
<1>3. f \in [1..n -> S] /\ IsInjective(f)
  BY <1>2 DEF SetToSeq
<1>4. f \in Injection(1..n, S)
  BY <1>3 DEF Injection
<1>5. IsFiniteSet(1..n) /\ Cardinality(1..n) = n
  <2>1. Cardinality(1..n) = IF 1 > n THEN 0 ELSE n - 1 + 1
    BY <1>1, FS_Interval
  <2>. QED
    BY <1>1, <2>1, FS_Interval
<1>6. f \in Surjection(1..n, S)
  BY <1>4, <1>5, FS_Injection
<1>. QED
  BY <1>1, <1>3, <1>6 DEF Surjection
-----------------------------------------------------------------------------
(* Keycodes and the usages that padkeys takes them for.                    *)
Codes == {Keycode[u] : u \in Usages} \ {0}

LEMMA UsagesNat == Usages \in SUBSET Nat
<1>1. Usages \subseteq 0..255
  BY KeycodeAssumption
<1>. QED
  BY <1>1

LEMMA UsageInverts ==
  ASSUME NEW c \in Codes
  PROVE  /\ Usage(c) \in Usages /\ Keycode[Usage(c)] = c
         /\ \A w \in Usages : Keycode[w] = c => Usage(c) <= w
<1>. DEFINE T == {u \in Usages : Keycode[u] = c}
<1>1. T \in SUBSET Nat
  BY UsagesNat
<1>2. T # {}
  BY DEF Codes
<1>3. \E m \in T : \A k \in T : m <= k
  <2>. HIDE DEF T
  <2>. QED
    BY <1>1, <1>2, Least
<1>. QED
  BY <1>3 DEF Usage

LEMMA UsageInjective ==
  ASSUME NEW c \in Codes, NEW d \in Codes, Usage(c) = Usage(d)
  PROVE  c = d
BY UsageInverts

-----------------------------------------------------------------------------
Modifiers == DOMAIN Weight

BtMsg == [type : {"mod"}, code : Modifiers, value : {0, 1}]
         \cup [type : {"key"}, code : Codes, value : {0, 1}]

BtState == [mods : SUBSET Modifiers, usage : Seq(Usages), prev : SUBSET Usages, bbyte : Usages]

(* A usage is on after k events of a queue: the last of them about it was  *)
(* a press, or there was none and it was on before.                        *)
About(e, u) == e.type = "key" /\ Usage(e.code) = u

On(on, q, k, u) ==
  \/ u \in on /\ \A j \in 1..k : ~About(q[j], u)
  \/ \E j \in 1..k : About(q[j], u) /\ q[j].value = 1 /\ \A l \in (j + 1)..k : ~About(q[l], u)

LEMMA OnNone ==
  ASSUME NEW on, NEW q, NEW u
  PROVE  On(on, q, 0, u) <=> u \in on
BY DEF On

LEMMA OnStep ==
  ASSUME NEW on, NEW q, NEW k \in Nat, NEW u
  PROVE  On(on, q, k + 1, u) <=> IF About(q[k + 1], u) THEN q[k + 1].value = 1 ELSE On(on, q, k, u)
<1>1. CASE About(q[k + 1], u)
  <2>1. ASSUME q[k + 1].value = 1 PROVE On(on, q, k + 1, u)
    <3>1. k + 1 \in 1..(k + 1) /\ \A l \in (k + 2)..(k + 1) : ~About(q[l], u)
      OBVIOUS
    <3>. QED
      BY <1>1, <2>1, <3>1 DEF On
  <2>2. ASSUME On(on, q, k + 1, u) PROVE q[k + 1].value = 1
    <3>1. PICK j \in 1..(k + 1) : /\ About(q[j], u) /\ q[j].value = 1
                                 /\ \A l \in (j + 1)..(k + 1) : ~About(q[l], u)
      BY <1>1, <2>2 DEF On
    <3>2. j = k + 1
      BY <1>1, <3>1
    <3>. QED
      BY <3>1, <3>2
  <2>. QED
    BY <1>1, <2>1, <2>2
<1>2. CASE ~About(q[k + 1], u)
  <2>1. ASSUME On(on, q, k, u) PROVE On(on, q, k + 1, u)
    BY <1>2, <2>1 DEF On
  <2>2. ASSUME On(on, q, k + 1, u) PROVE On(on, q, k, u)
    BY <1>2, <2>2 DEF On
  <2>. QED
    BY <1>2, <2>1, <2>2
<1>. QED
  BY <1>1, <1>2

(* What happens up to k depends on the first k events only.                *)
LEMMA OnSame ==
  ASSUME NEW on, NEW q, NEW r, NEW k \in Nat, NEW u, \A j \in 1..k : q[j] = r[j]
  PROVE  On(on, q, k, u) <=> On(on, r, k, u)
BY DEF On

(* The rest of a queue continues from what its first n events have left.   *)
LEMMA OnShift ==
  ASSUME NEW on, NEW left, NEW q, NEW r, NEW n \in Nat, NEW k \in Nat, NEW u,
         u \in left <=> On(on, q, n, u), \A j \in 1..k : r[j] = q[n + j]
  PROVE  On(left, r, k, u) <=> On(on, q, n + k, u)
<1>1. ASSUME On(left, r, k, u) PROVE On(on, q, n + k, u)
  <2>1. CASE u \in left /\ \A j \in 1..k : ~About(r[j], u)
    <3>1. \A j \in (n + 1)..(n + k) : ~About(q[j], u)
      <4>1. SUFFICES ASSUME NEW j \in (n + 1)..(n + k) PROVE ~About(q[j], u)
        OBVIOUS
      <4>2. j - n \in 1..k /\ n + (j - n) = j
        OBVIOUS
      <4>. QED
        BY <2>1, <4>2
    <3>. QED
      BY <2>1, <3>1 DEF On
  <2>2. CASE \E j \in 1..k : About(r[j], u) /\ r[j].value = 1
                              /\ \A l \in (j + 1)..k : ~About(r[l], u)
    <3>1. PICK j \in 1..k : About(r[j], u) /\ r[j].value = 1
                            /\ \A l \in (j + 1)..k : ~About(r[l], u)
      BY <2>2
    <3>2. \A l \in (n + j + 1)..(n + k) : ~About(q[l], u)
      <4>1. SUFFICES ASSUME NEW l \in (n + j + 1)..(n + k) PROVE ~About(q[l], u)
        OBVIOUS
      <4>2. l - n \in (j + 1)..k /\ n + (l - n) = l
        OBVIOUS
      <4>. QED
        BY <3>1, <4>2
    <3>3. n + j \in 1..(n + k) /\ About(q[n + j], u) /\ q[n + j].value = 1
      BY <3>1
    <3>. QED
      BY <3>2, <3>3 DEF On
  <2>. QED
    BY <1>1, <2>1, <2>2 DEF On
<1>2. ASSUME On(on, q, n + k, u) PROVE On(left, r, k, u)
  <2>1. CASE u \in on /\ \A j \in 1..(n + k) : ~About(q[j], u)
    <3>1. u \in left
      BY <2>1 DEF On
    <3>2. \A j \in 1..k : ~About(r[j], u)
      BY <2>1
    <3>. QED
      BY <3>1, <3>2 DEF On
  <2>2. CASE \E j \in 1..(n + k) : About(q[j], u) /\ q[j].value = 1
                                    /\ \A l \in (j + 1)..(n + k) : ~About(q[l], u)
    <3>1. PICK j \in 1..(n + k) : About(q[j], u) /\ q[j].value = 1
                                  /\ \A l \in (j + 1)..(n + k) : ~About(q[l], u)
      BY <2>2
    <3>2. CASE j <= n
      <4>1. u \in left
        BY <3>1, <3>2 DEF On
      <4>2. \A i \in 1..k : ~About(r[i], u)
        BY <3>1, <3>2
      <4>. QED
        BY <4>1, <4>2 DEF On
    <3>3. CASE j > n
      <4>1. j - n \in 1..k /\ n + (j - n) = j
        BY <3>3
      <4>2. About(r[j - n], u) /\ r[j - n].value = 1
        BY <3>1, <4>1
      <4>3. \A l \in ((j - n) + 1)..k : ~About(r[l], u)
        BY <3>1, <3>3
      <4>. QED
        BY <4>1, <4>2, <4>3 DEF On
    <3>. QED
      BY <3>2, <3>3
  <2>. QED
    BY <1>2, <2>1, <2>2 DEF On
<1>. QED
  BY <1>1, <1>2
-----------------------------------------------------------------------------
(* One event into the reconstruction.                                      *)
Distinct(s) == \A i, j \in DOMAIN s : s[i] = s[j] => i = j

LEMMA WithoutRemoves ==
  ASSUME NEW s \in Seq(Usages), Distinct(s), NEW u
  PROVE  /\ Without(s, u) \in Seq(Usages) /\ Distinct(Without(s, u))
         /\ \A w : w \in ToSet(Without(s, u)) <=> w \in ToSet(s) /\ w # u
<1>. DEFINE n == Len(s)
<1>1. n \in Nat /\ DOMAIN s = 1..n /\ \A j \in 1..n : s[j] \in Usages
  BY LenProperties
<1>2. CASE ~Contains(s, u)
  BY <1>1, <1>2 DEF Without, Contains, ToSet
<1>3. CASE Contains(s, u)
  <2>. DEFINE T == {j \in DOMAIN s : s[j] = u}
              i == Min(T)
              t == Without(s, u)
  <2>1. T \in SUBSET Nat /\ T # {}
    BY <1>1, <1>3 DEF Contains
  <2>2. i \in T
    <3>. HIDE DEF T
    <3>. QED
      BY <2>1, MinIn
  <2>3. i \in 1..n /\ s[i] = u
    BY <1>1, <2>2
  <2>4. t = SubSeq(s, 1, i - 1) \o SubSeq(s, i + 1, n)
    BY <1>3 DEF Without, RemoveAt
  <2>. HIDE DEF i
  <2>. DEFINE front == SubSeq(s, 1, i - 1)
              rear  == SubSeq(s, i + 1, n)
  <2>5. /\ front \in Seq(Usages) /\ Len(front) = i - 1
        /\ \A j \in 1..(i - 1) : front[j] = s[j]
    BY <1>1, <2>3, SubSeqProperties
  <2>6. /\ rear \in Seq(Usages) /\ Len(rear) = n - i
        /\ \A j \in 1..(n - i) : rear[j] = s[i + j]
    <3>1. i + 1 \in Int /\ n \in Int /\ \A j \in (i + 1)..n : s[j] \in Usages
      BY <1>1, <2>3
    <3>2. /\ rear \in Seq(Usages)
          /\ Len(rear) = IF i + 1 <= n THEN n - (i + 1) + 1 ELSE 0
          /\ \A j \in 1..(n - (i + 1) + 1) : rear[j] = s[(i + 1) + j - 1]
      BY <3>1, SubSeqProperties
    <3>3. n - (i + 1) + 1 = n - i /\ \A j \in 1..(n - i) : (i + 1) + j - 1 = i + j
      BY <1>1, <2>3
    <3>. HIDE DEF rear
    <3>4. Len(rear) = n - i
      <4>1. i \in Int /\ n \in Int /\ i <= n
        BY <1>1, <2>3
      <4>2. Len(rear) = IF i + 1 <= n THEN n - (i + 1) + 1 ELSE 0
        BY <3>2
      <4>. HIDE DEF n
      <4>. QED
        BY <4>1, <4>2
    <3>5. \A j \in 1..(n - i) : rear[j] = s[i + j]
      <4>1. SUFFICES ASSUME NEW j \in 1..(n - i) PROVE rear[j] = s[i + j]
        OBVIOUS
      <4>2. j \in 1..(n - (i + 1) + 1) /\ (i + 1) + j - 1 = i + j
        BY <3>3
      <4>. QED
        BY <3>2, <4>2
    <3>. QED
      BY <3>2, <3>4, <3>5
  <2>. HIDE DEF front, rear, t
  <2>7. t = front \o rear
    BY <2>4 DEF front, rear
  <2>8. /\ t \in Seq(Usages) /\ Len(t) = Len(front) + Len(rear)
        /\ \A j \in 1..(Len(front) + Len(rear)) :
             t[j] = IF j <= Len(front) THEN front[j] ELSE rear[j - Len(front)]
    BY <2>5, <2>6, <2>7, ConcatProperties
  <2>9. Len(t) = n - 1 /\ \A j \in 1..(n - 1) : t[j] = IF j < i THEN s[j] ELSE s[j + 1]
    <3>1. Len(front) + Len(rear) = n - 1
      BY <1>1, <2>3, <2>5, <2>6
    <3>2. ASSUME NEW j \in 1..(n - 1) PROVE t[j] = IF j < i THEN s[j] ELSE s[j + 1]
      <4>1. t[j] = IF j <= i - 1 THEN front[j] ELSE rear[j - (i - 1)]
        BY <2>5, <2>8, <3>1
      <4>2. CASE j < i
        BY <2>3, <2>5, <4>1, <4>2
      <4>3. CASE ~(j < i)
        <5>1. j - (i - 1) \in 1..(n - i) /\ i + (j - (i - 1)) = j + 1 /\ ~(j <= i - 1)
          BY <1>1, <2>3, <4>3
        <5>2. rear[j - (i - 1)] = s[i + (j - (i - 1))]
          BY <2>6, <5>1
        <5>. QED
          BY <4>1, <4>3, <5>1, <5>2
      <4>. QED
        BY <4>2, <4>3
    <3>. QED
      BY <2>8, <3>1, <3>2
  <2>10. DOMAIN t = 1..(n - 1)
    BY <2>8, <2>9, LenProperties
  <2>11. Distinct(t)
    <3>1. SUFFICES ASSUME NEW j \in 1..(n - 1), NEW k \in 1..(n - 1), t[j] = t[k]
                   PROVE  j = k
      BY <2>10 DEF Distinct
    <3>. DEFINE from(m) == IF m < i THEN m ELSE m + 1
    <3>2. from(j) \in 1..n /\ from(k) \in 1..n /\ (from(j) = from(k) => j = k)
      BY <1>1, <2>3
    <3>3. s[from(j)] = s[from(k)]
      BY <2>9, <3>1
    <3>. HIDE DEF from
    <3>. QED
      BY <1>1, <3>2, <3>3 DEF Distinct
  <2>12. ASSUME NEW w \in ToSet(t) PROVE w \in ToSet(s) /\ w # u
    BY <1>1, <2>3, <2>9, <2>10, <2>12 DEF Distinct, ToSet
  <2>13. ASSUME NEW w \in ToSet(s), w # u PROVE w \in ToSet(t)
    <3>1. PICK j \in 1..n : s[j] = w
      BY <1>1, <2>13 DEF ToSet
    <3>2. CASE j < i
      BY <1>1, <2>3, <2>9, <2>10, <3>1, <3>2 DEF ToSet
    <3>3. CASE j > i
      <4>1. j - 1 \in 1..(n - 1) /\ t[j - 1] = s[j]
        BY <1>1, <2>3, <2>9, <3>1, <3>3
      <4>. QED
        BY <2>10, <3>1, <4>1 DEF ToSet
    <3>. QED
      BY <1>1, <2>3, <2>13, <3>1, <3>2, <3>3
  <2>. QED
    BY <2>8, <2>11, <2>12, <2>13 DEF t
<1>. QED
  BY <1>2, <1>3

LEMMA OneEvent ==
  ASSUME NEW b \in BtState, Distinct(b.usage), Len(b.usage) < 8, NEW e \in BtMsg
  PROVE  /\ BtKey(b, e) \in BtState /\ Distinct(BtKey(b, e).usage)
         /\ BtKey(b, e).prev = b.prev /\ BtKey(b, e).bbyte = b.bbyte
         /\ \A u \in Usages : u \in ToSet(BtKey(b, e).usage) <=>
              IF About(e, u) THEN e.value = 1 ELSE u \in ToSet(b.usage)
<1>. DEFINE d == BtKey(b, e)
            u == Usage(e.code)
<1>0. /\ b.mods \in SUBSET Modifiers /\ b.usage \in Seq(Usages) /\ b.prev \in SUBSET Usages
      /\ b.bbyte \in Usages
  BY DEF BtState
<1>1. CASE e.type = "mod"
  <2>1. e.code \in Modifiers
    BY <1>1 DEF BtMsg
  <2>2. d = [b EXCEPT !.mods = IF e.value = 1 THEN @ \cup {e.code} ELSE @ \ {e.code}]
    BY <1>1 DEF BtKey
  <2>3. d \in BtState /\ d.usage = b.usage /\ d.prev = b.prev /\ d.bbyte = b.bbyte
    BY <2>1, <2>2 DEF BtState
  <2>4. \A w : ~About(e, w)
    BY <1>1 DEF About
  <2>. HIDE DEF d
  <2>. QED
    BY <2>3, <2>4 DEF d
<1>2. CASE e.type = "key"
  <2>1. e.code \in Codes /\ e.value \in {0, 1} /\ e.type # "mod"
    BY <1>2 DEF BtMsg
  <2>2. u \in Usages
    BY <2>1, UsageInverts
  <2>. HIDE DEF u
  <2>3. \A w : About(e, w) <=> w = u
    BY <1>2 DEF About, u
  <2>4. CASE e.value = 0
    <3>1. d = [b EXCEPT !.usage = Without(@, u)]
      BY <2>1, <2>4 DEF BtKey, u
    <3>2. /\ Without(b.usage, u) \in Seq(Usages) /\ Distinct(Without(b.usage, u))
          /\ \A w : w \in ToSet(Without(b.usage, u)) <=> w \in ToSet(b.usage) /\ w # u
      BY <1>0, WithoutRemoves
    <3>3. d \in BtState /\ d.usage = Without(b.usage, u) /\ d.prev = b.prev /\ d.bbyte = b.bbyte
      BY <3>1, <3>2 DEF BtState
    <3>. HIDE DEF d
    <3>. QED
      BY <2>3, <2>4, <3>2, <3>3 DEF d
  <2>5. CASE e.value = 1 /\ Contains(b.usage, u)
    <3>1. d = b
      BY <2>1, <2>5 DEF BtKey, u
    <3>2. u \in ToSet(b.usage)
      <4>1. DOMAIN b.usage = 1..Len(b.usage)
        BY <1>0
      <4>. QED
        BY <2>5, <4>1 DEF Contains, ToSet
    <3>. HIDE DEF d
    <3>. QED
      BY <2>3, <2>5, <3>1, <3>2 DEF d
  <2>6. CASE e.value = 1 /\ ~Contains(b.usage, u)
    <3>1. Len(b.usage) \in Nat /\ ~(Len(b.usage) >= 8)
      BY <1>0
    <3>2. d = [b EXCEPT !.usage = Append(@, u)]
      BY <2>1, <2>6, <3>1 DEF BtKey, u
    <3>3. d \in BtState /\ d.usage = Append(b.usage, u) /\ d.prev = b.prev /\ d.bbyte = b.bbyte
      <4>1. Append(b.usage, u) \in Seq(Usages)
        BY <1>0, <2>2, AppendProperties
      <4>. QED
        BY <3>2, <4>1 DEF BtState
    <3>. DEFINE n == Len(b.usage)
                t == Append(b.usage, u)
    <3>4. /\ DOMAIN b.usage = 1..n /\ DOMAIN t = 1..(n + 1)
          /\ \A j \in 1..n : t[j] = b.usage[j]
          /\ t[n + 1] = u
      BY <1>0, <2>2
    <3>. HIDE DEF t, d
    <3>5. \A j \in 1..n : b.usage[j] # u
      BY <2>6 DEF Contains
    <3>6. Distinct(t)
      BY <3>1, <3>4, <3>5 DEF Distinct
    <3>7. \A w : w \in ToSet(t) <=> w \in ToSet(b.usage) \/ w = u
      BY <3>1, <3>4 DEF ToSet
    <3>. QED
      BY <2>3, <2>6, <3>3, <3>6, <3>7 DEF d, t
  <2>. QED
    BY <2>1, <2>4, <2>5, <2>6
<1>. QED
  BY <1>1, <1>2 DEF BtMsg
-----------------------------------------------------------------------------
(* A read takes one event after the other.                                 *)
AfterRead(after, b0, q, n) ==
  after = [k \in 0..n |-> IF k = 0 THEN b0 ELSE BtKey(after[k - 1], q[k])]

LEMMA ReadDefined ==
  ASSUME NEW b0, NEW q, NEW n \in Nat
  PROVE  \E after : AfterRead(after, b0, q, n)
<1>. DEFINE T == {m \in Nat : \E f : AfterRead(f, b0, q, m)}
<1>1. 0 \in T
  <2>. DEFINE f == [k \in 0..0 |-> b0]
  <2>1. f = [k \in 0..0 |-> IF k = 0 THEN b0 ELSE BtKey(f[k - 1], q[k])]
    OBVIOUS
  <2>. HIDE DEF f
  <2>. QED
    BY <2>1 DEF AfterRead
<1>2. ASSUME NEW m \in 0..(n - 1), m \in T PROVE m + 1 \in T
  <2>1. PICK f : AfterRead(f, b0, q, m)
    BY <1>2
  <2>. DEFINE h == [k \in 0..(m + 1) |-> IF k = m + 1 THEN BtKey(f[m], q[m + 1]) ELSE f[k]]
  <2>2. ASSUME NEW k \in 0..(m + 1) PROVE h[k] = IF k = 0 THEN b0 ELSE BtKey(h[k - 1], q[k])
    <3>1. CASE k = m + 1
      <4>1. k # 0 /\ k - 1 = m /\ m \in 0..(m + 1) /\ m # m + 1
        BY <1>2, <3>1
      <4>2. h[m] = f[m]
        BY <4>1
      <4>3. h[k] = BtKey(f[m], q[m + 1])
        BY <3>1
      <4>. QED
        BY <3>1, <4>1, <4>2, <4>3
    <3>2. CASE k # m + 1
      <4>1. h[k] = f[k] /\ k \in 0..m
        BY <3>2
      <4>2. f[k] = IF k = 0 THEN b0 ELSE BtKey(f[k - 1], q[k])
        BY <2>1, <4>1 DEF AfterRead
      <4>3. k # 0 => h[k - 1] = f[k - 1]
        BY <3>2
      <4>. HIDE DEF h
      <4>. QED
        BY <4>1, <4>2, <4>3
    <3>. QED
      BY <3>1, <3>2
  <2>3. h = [k \in 0..(m + 1) |-> IF k = 0 THEN b0 ELSE BtKey(h[k - 1], q[k])]
    <3>1. h = [k \in 0..(m + 1) |-> h[k]]
      OBVIOUS
    <3>. HIDE DEF h
    <3>. QED
      BY <2>2, <3>1
  <2>. HIDE DEF h
  <2>4. AfterRead(h, b0, q, m + 1)
    BY <2>3 DEF AfterRead
  <2>. QED
    BY <1>2, <2>4
<1>3. \A k \in 0..n : k \in T
  <2>. HIDE DEF T
  <2>. QED
    BY <1>1, <1>2, UpTo
<1>. QED
  BY <1>3

(* A report has no more than two bytes that are keys, and neither has what *)
(* is on at any moment.                                                    *)
AtMostTwo(on, q, k) ==
  \A u, v, w \in Usages : On(on, q, k, u) /\ On(on, q, k, v) /\ On(on, q, k, w) =>
                            u = v \/ v = w \/ u = w

LEMMA FewUsages ==
  ASSUME NEW s \in Seq(Usages), Distinct(s),
         \A u, v, w \in Usages : u \in ToSet(s) /\ v \in ToSet(s) /\ w \in ToSet(s) =>
                                   u = v \/ v = w \/ u = w
  PROVE  Len(s) < 8
<1>1. Len(s) \in Nat /\ DOMAIN s = 1..Len(s) /\ \A j \in 1..Len(s) : s[j] \in Usages
  BY LenProperties
<1>2. SUFFICES ASSUME 3 <= Len(s) PROVE FALSE
  BY <1>1
<1>3. 1 \in DOMAIN s /\ 2 \in DOMAIN s /\ 3 \in DOMAIN s
  BY <1>1, <1>2
<1>4. /\ s[1] \in ToSet(s) /\ s[2] \in ToSet(s) /\ s[3] \in ToSet(s)
      /\ s[1] \in Usages /\ s[2] \in Usages /\ s[3] \in Usages
  BY <1>1, <1>3 DEF ToSet
<1>5. s[1] # s[2] /\ s[2] # s[3] /\ s[1] # s[3]
  BY <1>3 DEF Distinct
<1>. QED
  BY <1>4, <1>5

LEMMA Read ==
  ASSUME NEW b0 \in BtState, Distinct(b0.usage), NEW q \in Seq(BtMsg), NEW n \in 0..Len(q),
         \A k \in 0..n : AtMostTwo(ToSet(b0.usage), q, k),
         NEW after, AfterRead(after, b0, q, n)
  PROVE  /\ after[n] \in BtState /\ Distinct(after[n].usage)
         /\ after[n].prev = b0.prev /\ after[n].bbyte = b0.bbyte
         /\ \A u \in Usages : u \in ToSet(after[n].usage) <=> On(ToSet(b0.usage), q, n, u)
<1>. DEFINE Good(k) ==
              /\ after[k] \in BtState /\ Distinct(after[k].usage)
              /\ after[k].prev = b0.prev /\ after[k].bbyte = b0.bbyte
              /\ \A u \in Usages : u \in ToSet(after[k].usage) <=> On(ToSet(b0.usage), q, k, u)
            T == {k \in 0..n : Good(k)}
<1>0. n \in Nat /\ Len(q) \in Nat
  BY LenProperties
<1>1. after[0] = b0
  BY <1>0 DEF AfterRead
<1>2. 0 \in T
  <2>1. Good(0)
    BY <1>1, OnNone
  <2>. QED
    BY <1>0, <2>1
<1>3. ASSUME NEW k \in 0..(n - 1), k \in T PROVE k + 1 \in T
  <2>. DEFINE c == after[k]
              e == q[k + 1]
  <2>1. Good(k) /\ k \in 0..n /\ k + 1 \in 0..n
    BY <1>3
  <2>2. after[k + 1] = BtKey(c, e)
    <3>1. k + 1 \in 0..n /\ k + 1 # 0 /\ (k + 1) - 1 = k
      BY <1>3
    <3>. QED
      BY <3>1 DEF AfterRead
  <2>3. e \in BtMsg
    BY <1>0, <1>3, ElementOfSeq
  <2>. HIDE DEF c, e
  <2>4. c \in BtState /\ Distinct(c.usage)
    BY <2>1 DEF c
  <2>5. c.usage \in Seq(Usages)
    BY <2>4 DEF BtState
  <2>6. \A u, v, w \in Usages : u \in ToSet(c.usage) /\ v \in ToSet(c.usage) /\ w \in ToSet(c.usage) =>
                                   u = v \/ v = w \/ u = w
    BY <2>1 DEF AtMostTwo, c
  <2>7. Len(c.usage) < 8
    BY <2>4, <2>5, <2>6, FewUsages
  <2>8. /\ BtKey(c, e) \in BtState /\ Distinct(BtKey(c, e).usage)
        /\ BtKey(c, e).prev = c.prev /\ BtKey(c, e).bbyte = c.bbyte
        /\ \A u \in Usages : u \in ToSet(BtKey(c, e).usage) <=>
             IF About(e, u) THEN e.value = 1 ELSE u \in ToSet(c.usage)
    BY <2>3, <2>4, <2>7, OneEvent
  <2>9. \A u : On(ToSet(b0.usage), q, k + 1, u) <=>
              IF About(e, u) THEN e.value = 1 ELSE On(ToSet(b0.usage), q, k, u)
    BY <1>3, OnStep DEF e
  <2>10. Good(k + 1)
    BY <2>1, <2>2, <2>8, <2>9 DEF c
  <2>. QED
    BY <2>1, <2>10
<1>4. \A k \in 0..n : k \in T
  <2>. HIDE DEF T
  <2>. QED
    BY <1>0, <1>2, <1>3, UpTo
<1>. QED
  BY <1>0, <1>4
-----------------------------------------------------------------------------
(* The events with which the stack goes from one report to the next.       *)
Reports == [mods : Byte0s, button : ButtonBytes \cup {Rest}, stick : StickBytes]

Transmits(r) == {Usage(c) : c \in Keys(r)}

LEMMA KeysTypes ==
  ASSUME NEW r \in Reports
  PROVE  /\ Keys(r) \subseteq Codes /\ IsFiniteSet(Keys(r))
         /\ Transmits(r) \subseteq Usages
         /\ \A u, v, w \in Transmits(r) : u = v \/ v = w \/ u = w
<1>1. r.button \in Usages /\ r.stick \in Usages
  <2>1. Rest \in Usages
    BY KeycodeAssumption
  <2>. QED
    BY <2>1, ReportAssumption DEF Reports
<1>2. Keys(r) \subseteq Codes
  BY <1>1 DEF Keys, Codes
<1>3. Keys(r) \subseteq {Keycode[r.button], Keycode[r.stick]}
  BY DEF Keys
<1>4. IsFiniteSet({Keycode[r.button], Keycode[r.stick]})
  <2>1. IsFiniteSet({Keycode[r.button]})
    BY FS_Singleton
  <2>2. IsFiniteSet({Keycode[r.button]} \cup {Keycode[r.stick]})
    BY <2>1, FS_AddElement
  <2>3. {Keycode[r.button]} \cup {Keycode[r.stick]} = {Keycode[r.button], Keycode[r.stick]}
    OBVIOUS
  <2>. QED
    BY <2>2, <2>3
<1>5. IsFiniteSet(Keys(r))
  BY <1>3, <1>4, FS_Subset
<1>6. Transmits(r) \subseteq Usages
  BY <1>2, UsageInverts DEF Transmits
<1>7. \A u, v, w \in Transmits(r) : u = v \/ v = w \/ u = w
  BY <1>3 DEF Transmits
<1>. QED
  BY <1>2, <1>5, <1>6, <1>7

LEMMA KeyEventsListed ==
  ASSUME NEW S, S \subseteq Codes, IsFiniteSet(S), NEW v \in {0, 1}
  PROVE  /\ KeyEvents(S, v) \in Seq(BtMsg)
         /\ \A j \in 1..Len(KeyEvents(S, v)) :
              LET e == KeyEvents(S, v)[j] IN e.type = "key" /\ e.value = v /\ e.code \in S
         /\ \A c \in S : \E j \in 1..Len(KeyEvents(S, v)) :
              KeyEvents(S, v)[j] = [type |-> "key", code |-> c, value |-> v]
<1>. DEFINE order == SetToSeq(S)
            n == Len(order)
            ev == KeyEvents(S, v)
<1>1. order \in Seq(S) /\ \A x \in S : \E j \in DOMAIN order : order[j] = x
  BY Listed
<1>2. ev = [k \in DOMAIN order |-> [type |-> "key", code |-> order[k], value |-> v]]
  BY DEF KeyEvents
<1>. HIDE DEF order, ev
<1>3. n \in Nat /\ DOMAIN order = 1..n /\ \A j \in 1..n : order[j] \in S
  BY <1>1, LenProperties
<1>4. \A j \in 1..n : /\ ev[j] = [type |-> "key", code |-> order[j], value |-> v]
                       /\ ev[j] \in BtMsg
  BY <1>2, <1>3 DEF BtMsg
<1>5. ev \in [1..n -> BtMsg]
  BY <1>2, <1>3, <1>4
<1>6. ev \in Seq(BtMsg) /\ Len(ev) = n
  BY <1>3, <1>5
<1>7. \A j \in 1..Len(ev) : ev[j].type = "key" /\ ev[j].value = v /\ ev[j].code \in S
  <2>1. SUFFICES ASSUME NEW j \in 1..n
                 PROVE  ev[j].type = "key" /\ ev[j].value = v /\ ev[j].code \in S
    BY <1>6
  <2>2. order[j] \in S /\ ev[j] = [type |-> "key", code |-> order[j], value |-> v]
    BY <1>3, <1>4
  <2>. QED
    BY <2>2
<1>8. \A c \in S : \E j \in 1..Len(ev) : ev[j] = [type |-> "key", code |-> c, value |-> v]
  BY <1>1, <1>3, <1>4, <1>6
<1>. QED
  BY <1>6, <1>7, <1>8 DEF ev

LEMMA ModEventsListed ==
  ASSUME NEW S, S \subseteq Modifiers, IsFiniteSet(S), NEW v \in {0, 1}
  PROVE  /\ ModEvents(S, v) \in Seq(BtMsg)
         /\ \A j \in 1..Len(ModEvents(S, v)) : ModEvents(S, v)[j].type = "mod"
<1>. DEFINE order == SetToSeq(S)
            n == Len(order)
            ev == ModEvents(S, v)
<1>1. order \in Seq(S)
  BY Listed
<1>2. ev = [k \in DOMAIN order |-> [type |-> "mod", code |-> order[k], value |-> v]]
  BY DEF ModEvents
<1>. HIDE DEF order, ev
<1>3. n \in Nat /\ DOMAIN order = 1..n /\ \A j \in 1..n : order[j] \in S
  BY <1>1, LenProperties
<1>4. \A j \in 1..n : ev[j].type = "mod" /\ ev[j] \in BtMsg
  BY <1>2, <1>3 DEF BtMsg
<1>5. ev \in [1..n -> BtMsg]
  BY <1>2, <1>3, <1>4
<1>6. ev \in Seq(BtMsg) /\ Len(ev) = n
  BY <1>3, <1>5
<1>. QED
  BY <1>4, <1>6 DEF ev

(* Releases come before presses, and everything that changed is among them.*)
Changes(ev, rel, prs) ==
  /\ ev \in Seq(BtMsg)
  /\ \A j \in 1..Len(ev) : ev[j].type = "key" =>
       \/ ev[j].value = 0 /\ ev[j].code \in rel
       \/ /\ ev[j].value = 1 /\ ev[j].code \in prs
          /\ \A c \in rel : \E i \in 1..(j - 1) : ev[i] = [type |-> "key", code |-> c, value |-> 0]
  /\ \A c \in rel : \E j \in 1..Len(ev) : ev[j] = [type |-> "key", code |-> c, value |-> 0]
  /\ \A c \in prs : \E j \in 1..Len(ev) : ev[j] = [type |-> "key", code |-> c, value |-> 1]

LEMMA ChangesInOrder ==
  ASSUME NEW mods \in Seq(BtMsg), \A j \in 1..Len(mods) : mods[j].type = "mod",
         NEW rel, rel \subseteq Codes, IsFiniteSet(rel),
         NEW prs, prs \subseteq Codes, IsFiniteSet(prs)
  PROVE  Changes(mods \o KeyEvents(rel, 0) \o KeyEvents(prs, 1), rel, prs)
<1>. DEFINE r == KeyEvents(rel, 0)
            p == KeyEvents(prs, 1)
            mr == mods \o r
            ev == mr \o p
            a == Len(mods)
            b == Len(r)
            c == Len(p)
            released(x) == [type |-> "key", code |-> x, value |-> 0]
            pressed(x)  == [type |-> "key", code |-> x, value |-> 1]
<1>1. /\ r \in Seq(BtMsg)
      /\ \A j \in 1..b : r[j].type = "key" /\ r[j].value = 0 /\ r[j].code \in rel
      /\ \A x \in rel : \E j \in 1..b : r[j] = released(x)
  BY KeyEventsListed
<1>2. /\ p \in Seq(BtMsg)
      /\ \A j \in 1..c : p[j].type = "key" /\ p[j].value = 1 /\ p[j].code \in prs
      /\ \A x \in prs : \E j \in 1..c : p[j] = pressed(x)
  BY KeyEventsListed
<1>. HIDE DEF r, p
<1>3. a \in Nat /\ b \in Nat /\ c \in Nat
  BY <1>1, <1>2, LenProperties
<1>4. mr \in Seq(BtMsg) /\ Len(mr) = a + b
      /\ \A j \in 1..(a + b) : mr[j] = IF j <= a THEN mods[j] ELSE r[j - a]
  BY <1>1, ConcatProperties
<1>. HIDE DEF mr
<1>5. ev \in Seq(BtMsg) /\ Len(ev) = Len(mr) + c
      /\ \A j \in 1..(Len(mr) + c) : ev[j] = IF j <= Len(mr) THEN mr[j] ELSE p[j - Len(mr)]
  <2>1. mr \in Seq(BtMsg) /\ p \in Seq(BtMsg)
    BY <1>2, <1>4
  <2>. QED
    BY <2>1, ConcatProperties
<1>. HIDE DEF ev, a, b, c, released, pressed
<1>6. /\ \A j \in 1..a : ev[j].type = "mod"
      /\ \A j \in 1..b : a + j \in 1..Len(ev) /\ ev[a + j] = r[j]
      /\ \A j \in 1..c : a + b + j \in 1..Len(ev) /\ ev[a + b + j] = p[j]
  <2>1. ASSUME NEW j \in 1..a PROVE ev[j].type = "mod"
    <3>1. j \in 1..(Len(mr) + c) /\ j <= Len(mr) /\ j \in 1..(a + b) /\ j <= a
      BY <1>3, <1>4
    <3>. QED
      BY <1>4, <1>5, <3>1 DEF a
  <2>2. ASSUME NEW j \in 1..b PROVE a + j \in 1..Len(ev) /\ ev[a + j] = r[j]
    <3>1. a + j \in 1..(Len(mr) + c) /\ a + j <= Len(mr) /\ a + j \in 1..(a + b)
          /\ ~(a + j <= a) /\ (a + j) - a = j
      BY <1>3, <1>4
    <3>2. ev[a + j] = mr[a + j]
      BY <1>5, <3>1
    <3>3. mr[a + j] = r[(a + j) - a]
      BY <1>4, <3>1
    <3>. QED
      BY <1>5, <3>1, <3>2, <3>3
  <2>3. ASSUME NEW j \in 1..c PROVE a + b + j \in 1..Len(ev) /\ ev[a + b + j] = p[j]
    <3>1. a + b + j \in 1..(Len(mr) + c) /\ ~(a + b + j <= Len(mr)) /\ (a + b + j) - Len(mr) = j
      BY <1>3, <1>4
    <3>2. ev[a + b + j] = p[(a + b + j) - Len(mr)]
      BY <1>5, <3>1
    <3>. QED
      BY <1>5, <3>1, <3>2
  <2>. QED
    BY <2>1, <2>2, <2>3
<1>7. \A x \in rel : \E j \in 1..b : ev[a + j] = released(x)
  BY <1>1, <1>6
<1>8. \A x \in prs : \E j \in 1..c : ev[a + b + j] = pressed(x)
  BY <1>2, <1>6
<1>9. ASSUME NEW j \in 1..Len(ev), ev[j].type = "key"
      PROVE  \/ ev[j].value = 0 /\ ev[j].code \in rel
             \/ /\ ev[j].value = 1 /\ ev[j].code \in prs
                /\ \A x \in rel : \E i \in 1..(j - 1) : ev[i] = released(x)
  <2>1. ~(j \in 1..a)
    BY <1>6, <1>9
  <2>2. CASE j <= a + b
    <3>1. j - a \in 1..b /\ a + (j - a) = j
      BY <1>3, <2>1, <2>2
    <3>2. ev[j] = r[j - a]
      BY <1>6, <3>1
    <3>. QED
      BY <1>1, <3>1, <3>2
  <2>3. CASE ~(j <= a + b)
    <3>1. j - (a + b) \in 1..c /\ a + b + (j - (a + b)) = j
      BY <1>3, <1>4, <1>5, <2>3
    <3>2. ev[j] = p[j - (a + b)]
      BY <1>6, <3>1
    <3>3. \A i \in 1..b : a + i \in 1..(j - 1)
      BY <1>3, <2>3
    <3>. QED
      BY <1>2, <1>7, <3>1, <3>2, <3>3
  <2>. QED
    BY <2>2, <2>3
<1>10. \A x \in rel : \E j \in 1..Len(ev) : ev[j] = released(x)
  BY <1>6, <1>7
<1>11. \A x \in prs : \E j \in 1..Len(ev) : ev[j] = pressed(x)
  BY <1>6, <1>8
<1>. QED
  BY <1>5, <1>9, <1>10, <1>11 DEF Changes, ev, mr, r, p, released, pressed
(* What the changes from one report to another do to the usages that are   *)
(* on: before the first press they are only released, and from then on     *)
(* they belong to the new report.                                          *)
LEMMA ChangesLead ==
  ASSUME NEW old \in Reports, NEW new \in Reports, NEW left,
         \A u \in Usages : u \in left => u \in Transmits(old),
         NEW ev, Changes(ev, Keys(old) \ Keys(new), Keys(new) \ Keys(old))
  PROVE  /\ \A k \in 0..Len(ev) :
              \/ \A u \in Usages : On(left, ev, k, u) => u \in left
              \/ \A u \in Usages : On(left, ev, k, u) => u \in Transmits(new)
         /\ \A u \in Usages : On(left, ev, Len(ev), u) => u \in Transmits(new)
         /\ \A c \in Keys(new) \ Keys(old) : On(left, ev, Len(ev), Usage(c))
         /\ \A c \in Keys(new) \cap Keys(old) : On(left, ev, Len(ev), Usage(c)) <=> Usage(c) \in left
<1>. DEFINE rel == Keys(old) \ Keys(new)
            prs == Keys(new) \ Keys(old)
            n == Len(ev)
<1>1. n \in Nat /\ \A j \in 1..n : ev[j] \in BtMsg
  BY LenProperties DEF Changes
<1>2. Keys(old) \subseteq Codes /\ Keys(new) \subseteq Codes
  BY KeysTypes
(* A usage that was on and is not transmitted any more has been released.  *)
<1>3. ASSUME NEW k \in 0..n, NEW u \in Usages, On(left, ev, k, u),
             \A c \in rel : \E i \in 1..k : ev[i] = [type |-> "key", code |-> c, value |-> 0]
      PROVE  u \in Transmits(new)
  <2>1. CASE u \in left /\ \A j \in 1..k : ~About(ev[j], u)
    <3>1. PICK c \in Keys(old) : u = Usage(c)
      BY <2>1 DEF Transmits
    <3>2. c \notin rel
      <4>1. SUFFICES ASSUME c \in rel PROVE FALSE
        OBVIOUS
      <4>2. PICK i \in 1..k : ev[i] = [type |-> "key", code |-> c, value |-> 0]
        BY <1>3, <4>1
      <4>. QED
        BY <2>1, <3>1, <4>2 DEF About
    <3>. QED
      BY <3>1, <3>2 DEF Transmits
  <2>2. CASE \E j \in 1..k : About(ev[j], u) /\ ev[j].value = 1
    <3>1. PICK j \in 1..n : About(ev[j], u) /\ ev[j].value = 1
      BY <1>1, <2>2
    <3>2. ev[j].code \in prs /\ Usage(ev[j].code) = u
      BY <3>1 DEF Changes, About
    <3>. QED
      BY <3>2 DEF Transmits
  <2>. QED
    BY <1>3, <2>1, <2>2 DEF On
<1>4. ASSUME NEW k \in 0..n
      PROVE  \/ \A u \in Usages : On(left, ev, k, u) => u \in left
             \/ \A u \in Usages : On(left, ev, k, u) => u \in Transmits(new)
  <2>1. CASE \E j \in 1..k : ev[j].type = "key" /\ ev[j].value = 1
    <3>1. PICK j \in 1..k : ev[j].type = "key" /\ ev[j].value = 1
      BY <2>1
    <3>2. j \in 1..n
      BY <1>1
    <3>3. \A c \in rel : \E i \in 1..(j - 1) : ev[i] = [type |-> "key", code |-> c, value |-> 0]
      BY <3>1, <3>2 DEF Changes
    <3>4. \A c \in rel : \E i \in 1..k : ev[i] = [type |-> "key", code |-> c, value |-> 0]
      <4>1. \A i \in 1..(j - 1) : i \in 1..k
        BY <1>1
      <4>. QED
        BY <3>3, <4>1
    <3>. QED
      BY <1>3, <3>4
  <2>2. CASE ~\E j \in 1..k : ev[j].type = "key" /\ ev[j].value = 1
    BY <2>2 DEF On, About
  <2>. QED
    BY <2>1, <2>2
<1>5. \A u \in Usages : On(left, ev, n, u) => u \in Transmits(new)
  <2>1. \A c \in rel : \E i \in 1..n : ev[i] = [type |-> "key", code |-> c, value |-> 0]
    BY DEF Changes
  <2>2. n \in 0..n
    BY <1>1
  <2>. QED
    BY <1>3, <2>1, <2>2
<1>6. ASSUME NEW c \in prs PROVE On(left, ev, n, Usage(c))
  <2>. DEFINE T == {j \in 1..n : About(ev[j], Usage(c))}
  <2>1. \A j \in T : ev[j].value = 1
    <3>1. SUFFICES ASSUME NEW j \in T, ev[j].value # 1 PROVE FALSE
      OBVIOUS
    <3>2. ev[j].type = "key" /\ Usage(ev[j].code) = Usage(c)
      BY DEF About
    <3>3. ev[j].code \in rel
      BY <3>1, <3>2 DEF Changes
    <3>. QED
      BY <1>2, <3>2, <3>3, UsageInjective
  <2>2. PICK i \in 1..n : ev[i] = [type |-> "key", code |-> c, value |-> 1]
    BY DEF Changes
  <2>3. On(left, ev, n, Usage(c)) \/ \A j \in 1..n : j \in T => \E l \in (j + 1)..n : l \in T
    BY <2>1 DEF On
  <2>4. i \in T
    BY <2>2 DEF About
  <2>5. PICK m \in T : \A j \in T : j <= m
    <3>. DEFINE U == {n - j : j \in T}
    <3>1. U \in SUBSET Nat /\ U # {}
      BY <1>1, <2>4
    <3>2. PICK x \in U : \A y \in U : x <= y
      <4>. HIDE DEF U
      <4>. QED
        BY <3>1, Least
    <3>3. PICK m \in T : x = n - m
      BY <3>2
    <3>4. \A j \in T : j <= m
      <4>1. SUFFICES ASSUME NEW j \in T PROVE j <= m
        OBVIOUS
      <4>2. n - m <= n - j /\ j \in 1..n /\ m \in 1..n
        BY <3>2, <3>3
      <4>. QED
        BY <1>1, <4>2
    <3>. QED
      BY <3>4
  <2>6. ~\E l \in (m + 1)..n : l \in T
    BY <1>1, <2>5
  <2>. QED
    BY <2>3, <2>5, <2>6
<1>7. ASSUME NEW c \in Keys(new) \cap Keys(old)
      PROVE  On(left, ev, n, Usage(c)) <=> Usage(c) \in left
  <2>1. \A j \in 1..n : ~About(ev[j], Usage(c))
    <3>1. SUFFICES ASSUME NEW j \in 1..n, About(ev[j], Usage(c)) PROVE FALSE
      OBVIOUS
    <3>2. ev[j].code \in rel \cup prs /\ Usage(ev[j].code) = Usage(c)
      BY <3>1 DEF Changes, About
    <3>. QED
      BY <1>2, <3>2, UsageInjective
  <2>. QED
    BY <1>7, <2>1 DEF On
<1>. QED
  BY <1>4, <1>5, <1>6, <1>7
-----------------------------------------------------------------------------
(* Which byte is taken for the button byte.                                *)
LEMMA CandidatesShape ==
  ASSUME NEW b \in BtState
  PROVE  \/ Candidates(b) = <<>>
         \/ \E u \in Usages : /\ Candidates(b) = <<u>> /\ u \in ToSet(b.usage)
                              /\ u = b.bbyte \/ HatByte(u)
<1>. DEFINE n == Len(b.usage)
            neutral == {i \in DOMAIN b.usage : b.usage[i] % 16 = 8}
            fresh   == {i \in DOMAIN b.usage : HatByte(b.usage[i]) /\ b.usage[i] \notin b.prev}
<1>1. /\ n \in Nat /\ DOMAIN b.usage = 1..n /\ b.bbyte \in Usages
      /\ \A i \in 1..n : b.usage[i] \in Usages /\ b.usage[i] \in ToSet(b.usage)
  BY LenProperties DEF BtState, ToSet
<1>2. CASE Contains(b.usage, b.bbyte)
  <2>1. Candidates(b) = <<b.bbyte>>
    BY <1>2 DEF Candidates
  <2>. QED
    BY <1>1, <1>2, <2>1 DEF Contains
<1>3. CASE ~Contains(b.usage, b.bbyte) /\ neutral # {}
  <2>1. Candidates(b) = <<b.usage[Min(neutral)]>>
    BY <1>3 DEF Candidates
  <2>2. neutral \in SUBSET Nat
    BY <1>1
  <2>3. Min(neutral) \in neutral
    <3>. HIDE DEF neutral
    <3>. QED
      BY <1>3, <2>2, MinIn
  <2>. DEFINE i == Min(neutral)
  <2>4. i \in 1..n /\ b.usage[i] % 16 = 8
    BY <1>1, <2>3
  <2>. HIDE DEF i
  <2>5. HatByte(b.usage[i])
    BY <2>4 DEF HatByte
  <2>6. Candidates(b) = <<b.usage[i]>>
    BY <2>1 DEF i
  <2>. QED
    BY <1>1, <2>4, <2>5, <2>6
<1>4. CASE ~Contains(b.usage, b.bbyte) /\ neutral = {} /\ fresh # {}
  <2>1. Candidates(b) = <<b.usage[Min(fresh)]>>
    BY <1>4 DEF Candidates
  <2>2. fresh \in SUBSET Nat
    BY <1>1
  <2>3. Min(fresh) \in fresh
    <3>. HIDE DEF fresh
    <3>. QED
      BY <1>4, <2>2, MinIn
  <2>. QED
    BY <1>1, <2>1, <2>3
<1>5. CASE ~Contains(b.usage, b.bbyte) /\ neutral = {} /\ fresh = {}
  BY <1>5 DEF Candidates
<1>. QED
  BY <1>2, <1>3, <1>4, <1>5

(* A usage with a neutral hat is found if no other usage has a hat.        *)
Settled(usage, u) ==
  /\ u \in ToSet(usage) /\ u % 16 = 8
  /\ \A w \in ToSet(usage) : HatByte(w) => w = u

LEMMA CandidatesSettle ==
  ASSUME NEW b \in BtState, HatByte(b.bbyte), NEW u, Settled(b.usage, u)
  PROVE  Candidates(b) = <<u>>
<1>. DEFINE neutral == {i \in DOMAIN b.usage : b.usage[i] % 16 = 8}
<1>1. DOMAIN b.usage = 1..Len(b.usage) /\ \A i \in DOMAIN b.usage : b.usage[i] \in ToSet(b.usage)
  BY LenProperties DEF BtState, ToSet
<1>2. \A i \in neutral : b.usage[i] = u
  <2>1. SUFFICES ASSUME NEW i \in neutral PROVE b.usage[i] = u
    OBVIOUS
  <2>2. HatByte(b.usage[i])
    BY <2>1 DEF HatByte
  <2>. QED
    BY <1>1, <2>2 DEF Settled
<1>3. CASE Contains(b.usage, b.bbyte)
  <2>1. b.bbyte \in ToSet(b.usage)
    BY <1>1, <1>3 DEF Contains
  <2>2. Candidates(b) = <<b.bbyte>>
    BY <1>3 DEF Candidates
  <2>. QED
    BY <2>1, <2>2 DEF Settled
<1>4. CASE ~Contains(b.usage, b.bbyte)
  <2>1. neutral # {} /\ neutral \in SUBSET Nat
    BY <1>1 DEF Settled, ToSet
  <2>2. Candidates(b) = <<b.usage[Min(neutral)]>>
    BY <1>4, <2>1 DEF Candidates
  <2>3. Min(neutral) \in neutral
    <3>. HIDE DEF neutral
    <3>. QED
      BY <2>1, MinIn
  <2>. QED
    BY <1>2, <2>2, <2>3
<1>. QED
  BY <1>3, <1>4

-----------------------------------------------------------------------------
(* The inductive invariant of the reconstruction.                          *)
UsbMsg(p) == [type : {"abs"}, code : Axes[p], value : Int]
             \cup [type : {"key"}, code : Buttons[p], value : {0, 1}]

PadTypes ==
  /\ pos = [p \in UsbPads |-> [a \in Axes[p] |-> pos[p][a]]]
  /\ held = [p \in UsbPads |-> held[p]]
  /\ report \in [BtPads -> Reports]
  /\ early = [p \in BtPads |-> early[p]]
  /\ \A p \in BtPads : early[p] \subseteq Keys(report[p])
  /\ queue = [p \in UsbPads \cup BtPads |-> queue[p]]
  /\ \A p \in UsbPads : queue[p] \in Seq(UsbMsg(p))
  /\ \A p \in BtPads : queue[p] \in Seq(BtMsg)
  /\ bt \in [BtPads -> BtState]
  /\ dirstate \in [1..4 -> BOOLEAN] /\ btn_prev \in [1..4 -> BOOLEAN]

(* The usages that are on after k of the events that wait, of which there  *)
(* are two at most at any moment, and in the end those of the report that  *)
(* have changed since the start.                                           *)
OnAt(p, k, u) == On(ToSet(bt[p].usage), queue[p], k, u)
Sent(p) == {Usage(c) : c \in Keys(report[p]) \ early[p]}

Reconstructed(p) ==
  /\ Distinct(bt[p].usage)
  /\ \A k \in 0..Len(queue[p]) : AtMostTwo(ToSet(bt[p].usage), queue[p], k)
  /\ \A u \in Usages : OnAt(p, Len(queue[p]), u) <=> u \in Sent(p)

PadInv == PadTypes /\ \A p \in BtPads : Reconstructed(p)

LEMMA PadInit == Init => PadInv
<1>1. SUFFICES ASSUME Init PROVE PadInv
  OBVIOUS
<1>2. report \in [BtPads -> Reports]
  BY <1>1 DEF Init, Reports
<1>3. bt \in [BtPads -> BtState]
  <2>1. [mods |-> {}, usage |-> <<>>, prev |-> {}, bbyte |-> Rest] \in BtState
    BY KeycodeAssumption DEF BtState
  <2>. QED
    BY <1>1, <2>1 DEF Init
<1>6. early = [p \in BtPads |-> early[p]] /\ \A p \in BtPads : early[p] = Keys(report[p])
  BY <1>1 DEF Init
<1>4. PadTypes
  <2>1. /\ pos = [p \in UsbPads |-> [a \in Axes[p] |-> pos[p][a]]]
        /\ held = [p \in UsbPads |-> held[p]]
    BY <1>1 DEF Init
  <2>2. /\ queue = [p \in UsbPads \cup BtPads |-> queue[p]]
        /\ \A p \in UsbPads \cup BtPads : queue[p] = <<>>
    BY <1>1 DEF Init
  <2>3. dirstate \in [1..4 -> BOOLEAN] /\ btn_prev \in [1..4 -> BOOLEAN]
    BY <1>1 DEF Init
  <2>4. \A S : <<>> \in Seq(S)
    OBVIOUS
  <2>. QED
    BY <1>2, <1>3, <2>1, <2>2, <2>3, <2>4, <1>6 DEF PadTypes
<1>5. ASSUME NEW p \in BtPads PROVE Reconstructed(p)
  <2>1. bt[p].usage = <<>> /\ queue[p] = <<>>
    BY <1>1 DEF Init
  <2>2. Len(queue[p]) = 0 /\ ToSet(bt[p].usage) = {} /\ DOMAIN bt[p].usage = {}
    BY <2>1 DEF ToSet
  <2>3. \A u : ~On({}, queue[p], 0, u)
    BY DEF On
  <2>4. \A k \in 0..0 : k = 0
    OBVIOUS
  <2>. QED
    BY <1>6, <2>2, <2>3, <2>4 DEF Reconstructed, Distinct, AtMostTwo, OnAt, Sent
<1>. QED
  BY <1>4, <1>5 DEF PadInv

(* A report is appended to what waits.                                     *)
LEMMA SentEffect ==
  ASSUME PadInv, NEW b \in BtPads, NEW r \in Reports, SendReport(b, r)
  PROVE  \E ev :
           /\ Changes(ev, Keys(report[b]) \ Keys(r), Keys(r) \ Keys(report[b]))
           /\ queue' = [queue EXCEPT ![b] = queue[b] \o ev]
           /\ bt' = bt /\ report' = [report EXCEPT ![b] = r]
           /\ early' = [early EXCEPT ![b] = @ \cap Keys(r)]
           /\ UNCHANGED <<pos, held, dirstate, btn_prev, down>>
<1>. DEFINE old == report[b]
            m1 == ModEvents(r.mods \ old.mods, 1)
            m0 == ModEvents(old.mods \ r.mods, 0)
            rel == Keys(old) \ Keys(r)
            prs == Keys(r) \ Keys(old)
<1>1. old \in Reports
  BY DEF PadInv, PadTypes
<1>2. /\ rel \subseteq Codes /\ prs \subseteq Codes /\ IsFiniteSet(rel) /\ IsFiniteSet(prs)
  <2>1. Keys(old) \subseteq Codes /\ IsFiniteSet(Keys(old)) /\ Keys(r) \subseteq Codes /\ IsFiniteSet(Keys(r))
    BY <1>1, KeysTypes
  <2>2. rel \in SUBSET Keys(old) /\ prs \in SUBSET Keys(r)
    OBVIOUS
  <2>. QED
    BY <2>1, <2>2, FS_Subset
<1>3. /\ m1 \in Seq(BtMsg) /\ \A j \in 1..Len(m1) : m1[j].type = "mod"
      /\ m0 \in Seq(BtMsg) /\ \A j \in 1..Len(m0) : m0[j].type = "mod"
  <2>1. r.mods \subseteq Modifiers /\ old.mods \subseteq Modifiers
    BY <1>1, ReportAssumption DEF Reports, Modifiers
  <2>2. (r.mods \ old.mods) \in SUBSET Modifiers /\ (old.mods \ r.mods) \in SUBSET Modifiers
    BY <2>1
  <2>3. IsFiniteSet(r.mods \ old.mods) /\ IsFiniteSet(old.mods \ r.mods)
    BY <2>2, FS_Subset, ReportAssumption DEF Modifiers
  <2>. QED
    BY <2>2, <2>3, ModEventsListed
<1>. HIDE DEF m1, m0, rel, prs
<1>4. m1 \o m0 \in Seq(BtMsg) /\ \A j \in 1..Len(m1 \o m0) : (m1 \o m0)[j].type = "mod"
  <2>1. /\ m1 \o m0 \in Seq(BtMsg) /\ Len(m1 \o m0) = Len(m1) + Len(m0)
        /\ \A j \in 1..(Len(m1) + Len(m0)) : (m1 \o m0)[j] = IF j <= Len(m1) THEN m1[j] ELSE m0[j - Len(m1)]
    BY <1>3, ConcatProperties
  <2>2. Len(m1) \in Nat /\ Len(m0) \in Nat
    BY <1>3, LenProperties
  <2>. DEFINE m == m1 \o m0
  <2>3. ASSUME NEW j \in 1..Len(m) PROVE m[j].type = "mod"
    <3>1. CASE j <= Len(m1)
      BY <1>3, <2>1, <2>2, <3>1
    <3>2. CASE ~(j <= Len(m1))
      <4>1. j - Len(m1) \in 1..Len(m0)
        BY <2>1, <2>2, <3>2
      <4>2. m[j] = m0[j - Len(m1)]
        BY <2>1, <3>2
      <4>. QED
        BY <1>3, <4>1, <4>2
    <3>. QED
      BY <3>1, <3>2
  <2>. QED
    BY <2>1, <2>3
<1>5. Changes(m1 \o m0 \o KeyEvents(rel, 0) \o KeyEvents(prs, 1), rel, prs)
  BY <1>2, <1>4, ChangesInOrder
<1>6. /\ queue' = [queue EXCEPT ![b] = queue[b] \o (m1 \o m0 \o KeyEvents(rel, 0) \o KeyEvents(prs, 1))]
      /\ bt' = bt /\ report' = [report EXCEPT ![b] = r]
      /\ early' = [early EXCEPT ![b] = @ \cap Keys(r)]
      /\ UNCHANGED <<pos, held, dirstate, btn_prev, down>>
  BY DEF SendReport, Queue, m1, m0, rel, prs
<1>. QED
  BY <1>5, <1>6 DEF rel, prs

(* What was on is on, and what follows continues from there.               *)
LEMMA AppendedOn ==
  ASSUME NEW on, NEW q \in Seq(BtMsg), NEW ev \in Seq(BtMsg), NEW u,
         NEW left, u \in left <=> On(on, q, Len(q), u)
  PROVE  /\ q \o ev \in Seq(BtMsg) /\ Len(q \o ev) = Len(q) + Len(ev)
         /\ \A k \in 0..Len(q) : On(on, q \o ev, k, u) <=> On(on, q, k, u)
         /\ \A k \in 0..Len(ev) : On(on, q \o ev, Len(q) + k, u) <=> On(left, ev, k, u)
<1>. DEFINE n == Len(q)
            m == Len(ev)
            qe == q \o ev
<1>1. n \in Nat /\ m \in Nat
  BY LenProperties
<1>2. /\ qe \in Seq(BtMsg) /\ Len(qe) = n + m
      /\ \A j \in 1..(n + m) : qe[j] = IF j <= n THEN q[j] ELSE ev[j - n]
  BY ConcatProperties
<1>. HIDE DEF qe, n, m
<1>3. ASSUME NEW k \in 0..n PROVE On(on, qe, k, u) <=> On(on, q, k, u)
  <2>1. k \in Nat /\ \A j \in 1..k : qe[j] = q[j]
    BY <1>1, <1>2
  <2>. QED
    BY <2>1, OnSame
<1>4. ASSUME NEW k \in 0..m PROVE On(on, qe, n + k, u) <=> On(left, ev, k, u)
  <2>1. k \in Nat /\ n \in 0..n
    BY <1>1
  <2>2. \A j \in 1..k : ev[j] = qe[n + j]
    <3>1. SUFFICES ASSUME NEW j \in 1..k PROVE ev[j] = qe[n + j]
      OBVIOUS
    <3>2. n + j \in 1..(n + m) /\ ~(n + j <= n) /\ (n + j) - n = j
      BY <1>1
    <3>. QED
      BY <1>2, <3>2
  <2>3. u \in left <=> On(on, qe, n, u)
    BY <1>3, <2>1 DEF n
  <2>4. On(left, ev, k, u) <=> On(on, qe, n + k, u)
    BY <1>1, <2>1, <2>2, <2>3, OnShift
  <2>. QED
    BY <2>4
<1>. QED
  BY <1>2, <1>3, <1>4 DEF qe, n, m
LEMMA SendKeeps ==
  ASSUME PadInv, NEW b \in BtPads, NEW r \in Reports, SendReport(b, r)
  PROVE  PadInv'
<1>. DEFINE q == queue[b]
            on == ToSet(bt[b].usage)
            left == {u \in Usages : On(on, q, Len(q), u)}
<1>1. PICK ev : /\ Changes(ev, Keys(report[b]) \ Keys(r), Keys(r) \ Keys(report[b]))
                /\ queue' = [queue EXCEPT ![b] = queue[b] \o ev]
                /\ bt' = bt /\ report' = [report EXCEPT ![b] = r]
                /\ early' = [early EXCEPT ![b] = @ \cap Keys(r)]
                /\ UNCHANGED <<pos, held, dirstate, btn_prev, down>>
  BY SentEffect
<1>2. q \in Seq(BtMsg) /\ ev \in Seq(BtMsg) /\ report[b] \in Reports /\ b \notin UsbPads
  BY <1>1, PadsAssumption DEF PadInv, PadTypes, Changes
<1>3. Len(q) \in Nat /\ Len(ev) \in Nat
  BY <1>2, LenProperties
<1>4. /\ queue'[b] = q \o ev /\ report'[b] = r
      /\ \A p \in UsbPads \cup BtPads : p # b => queue'[p] = queue[p]
      /\ \A p \in BtPads : p # b => report'[p] = report[p] /\ early'[p] = early[p]
      /\ early'[b] = early[b] \cap Keys(r) /\ early' = [p \in BtPads |-> early'[p]]
      /\ early[b] \subseteq Keys(report[b])
  BY <1>1 DEF PadInv, PadTypes
<1>. HIDE DEF left, on, q
<1>5. /\ q \o ev \in Seq(BtMsg) /\ Len(q \o ev) = Len(q) + Len(ev)
      /\ \A u \in Usages : \A k \in 0..Len(q) : On(on, q \o ev, k, u) <=> On(on, q, k, u)
      /\ \A u \in Usages : \A k \in 0..Len(ev) : On(on, q \o ev, Len(q) + k, u) <=> On(left, ev, k, u)
  <2>1. \A u \in Usages : u \in left <=> On(on, q, Len(q), u)
    BY DEF left
  <2>2. q \o ev \in Seq(BtMsg) /\ Len(q \o ev) = Len(q) + Len(ev)
    BY <1>2, ConcatProperties
  <2>. QED
    BY <1>2, <2>1, <2>2, AppendedOn
<1>6. PadTypes'
  <2>1. report' \in [BtPads -> Reports]
    BY <1>1 DEF PadInv, PadTypes
  <2>2. queue' = [p \in UsbPads \cup BtPads |-> queue'[p]]
    BY <1>1 DEF PadInv, PadTypes
  <2>3. /\ \A p \in UsbPads : queue'[p] \in Seq(UsbMsg(p))
        /\ \A p \in BtPads : queue'[p] \in Seq(BtMsg)
    BY <1>2, <1>4, <1>5 DEF PadInv, PadTypes
  <2>4. \A p \in BtPads : early'[p] \subseteq Keys(report'[p])
    BY <1>4 DEF PadInv, PadTypes
  <2>5. /\ pos' = [p \in UsbPads |-> [a \in Axes[p] |-> pos'[p][a]]]
        /\ held' = [p \in UsbPads |-> held'[p]]
    BY <1>1 DEF PadInv, PadTypes
  <2>6. /\ bt' \in [BtPads -> BtState]
        /\ dirstate' \in [1..4 -> BOOLEAN] /\ btn_prev' \in [1..4 -> BOOLEAN]
    BY <1>1 DEF PadInv, PadTypes
  <2>7. early' = [p \in BtPads |-> early'[p]]
    BY <1>4
  <2>. QED
    BY <2>1, <2>2, <2>3, <2>4, <2>5, <2>6, <2>7 DEF PadTypes, UsbMsg
<1>7. ASSUME NEW p \in BtPads PROVE Reconstructed(p)'
  <2>1. CASE p # b
    BY <1>1, <1>4, <2>1 DEF PadInv, Reconstructed, OnAt, Sent
  <2>2. CASE p = b
    <3>1. Reconstructed(b)
      BY DEF PadInv
    <3>2. /\ \A u \in Usages : u \in left <=> u \in Sent(b)
          /\ \A u \in Usages : u \in left => u \in Transmits(report[b])
      BY <3>1 DEF Reconstructed, OnAt, left, on, q, Sent, Transmits
    <3>3. /\ \A k \in 0..Len(ev) :
               \/ \A u \in Usages : On(left, ev, k, u) => u \in left
               \/ \A u \in Usages : On(left, ev, k, u) => u \in Transmits(r)
          /\ \A u \in Usages : On(left, ev, Len(ev), u) => u \in Transmits(r)
          /\ \A c \in Keys(r) \ Keys(report[b]) : On(left, ev, Len(ev), Usage(c))
          /\ \A c \in Keys(r) \cap Keys(report[b]) :
               On(left, ev, Len(ev), Usage(c)) <=> Usage(c) \in left
      BY <1>1, <1>2, <3>2, ChangesLead
    <3>4. ASSUME NEW k \in 0..(Len(q) + Len(ev)) PROVE AtMostTwo(on, q \o ev, k)
      <4>1. CASE k <= Len(q)
        <5>1. k \in 0..Len(q)
          BY <1>3, <4>1
        <5>2. AtMostTwo(on, q, k)
          BY <3>1, <5>1 DEF Reconstructed, on, q
        <5>. QED
          BY <1>5, <5>1, <5>2 DEF AtMostTwo
      <4>2. CASE ~(k <= Len(q))
        <5>. DEFINE m == k - Len(q)
        <5>1. m \in 0..Len(ev) /\ k = Len(q) + m
          BY <1>3, <4>2
        <5>. HIDE DEF m
        <5>2. \A u \in Usages : On(on, q \o ev, k, u) <=> On(left, ev, m, u)
          BY <1>5, <5>1
        <5>3. CASE \A u \in Usages : On(left, ev, m, u) => u \in left
          <6>1. Len(q) \in 0..Len(q)
            BY <1>3
          <6>2. AtMostTwo(on, q, Len(q))
            BY <3>1, <6>1 DEF Reconstructed, on, q
          <6>. QED
            BY <5>2, <5>3, <6>2 DEF AtMostTwo, left
        <5>4. CASE \A u \in Usages : On(left, ev, m, u) => u \in Transmits(r)
          <6>1. \A u, v, w \in Transmits(r) : u = v \/ v = w \/ u = w
            BY KeysTypes
          <6>. QED
            BY <5>2, <5>4, <6>1 DEF AtMostTwo
        <5>. QED
          BY <3>3, <5>1, <5>3, <5>4
      <4>. QED
        BY <4>1, <4>2
    <3>5. ASSUME NEW u \in Usages
          PROVE  On(on, q \o ev, Len(q) + Len(ev), u) <=> u \in {Usage(c) : c \in Keys(r) \ early'[b]}
      <4>1. On(on, q \o ev, Len(q) + Len(ev), u) <=> On(left, ev, Len(ev), u)
        <5>1. Len(ev) \in 0..Len(ev)
          BY <1>3
        <5>. QED
          BY <1>5, <5>1
      <4>2. Keys(r) \subseteq Codes /\ Keys(report[b]) \subseteq Codes
        BY <1>2, KeysTypes
      <4>3. ASSUME NEW c \in Keys(r) PROVE On(left, ev, Len(ev), Usage(c)) <=> c \notin early'[b]
        <5>1. CASE c \notin Keys(report[b])
          BY <1>4, <3>3, <5>1
        <5>2. CASE c \in Keys(report[b])
          <6>1. Usage(c) \in Usages
            BY <4>2, UsageInverts
          <6>2. Usage(c) \in Sent(b) <=> c \notin early[b]
            BY <4>2, <5>2, UsageInjective DEF Sent
          <6>. QED
            BY <1>4, <3>2, <3>3, <5>2, <6>1, <6>2
        <5>. QED
          BY <5>1, <5>2
      <4>. QED
        BY <3>3, <4>1, <4>3 DEF Transmits
    <3>6. ToSet(bt'[b].usage) = on /\ Distinct(bt'[b].usage)
      BY <1>1, <3>1 DEF Reconstructed, on
    <3>. QED
      BY <1>4, <1>5, <2>2, <3>4, <3>5, <3>6 DEF Reconstructed, OnAt, Sent
  <2>. QED
    BY <2>1, <2>2
<1>. QED
  BY <1>6, <1>7 DEF PadInv

(* A read leaves what is on after the events it took, and the others.      *)
LEMMA ReadEffect ==
  ASSUME PadInv, NEW p \in BtPads, NEW n \in 1..Len(queue[p]), BtRead(p, n)
  PROVE  \E b \in BtState :
           /\ Distinct(b.usage) /\ b.prev = bt[p].prev /\ b.bbyte = bt[p].bbyte
           /\ \A u \in Usages : u \in ToSet(b.usage) <=> OnAt(p, n, u)
           /\ bt' = [bt EXCEPT ![p] = [b EXCEPT
                       !.bbyte = IF Candidates(b) # <<>> THEN Candidates(b)[1] ELSE @,
                       !.prev = ToSet(b.usage)]]
           /\ Keyboard([i \in 1..4 |-> i \in BtDirs(b.mods, Candidates(b))],
                       IF Candidates(b) # <<>> THEN Face(Candidates(b)[1]) ELSE btn_prev, down)
           /\ queue' = [queue EXCEPT ![p] = SubSeq(@, n + 1, Len(@))]
           /\ UNCHANGED physical
<1>. DEFINE q == queue[p]
            b0 == bt[p]
            after == CHOOSE f : AfterRead(f, b0, q, n)
<1>1. q \in Seq(BtMsg) /\ b0 \in BtState /\ Distinct(b0.usage)
      /\ \A k \in 0..Len(q) : AtMostTwo(ToSet(b0.usage), q, k)
  BY DEF PadInv, PadTypes, Reconstructed
<1>2. Len(q) \in Nat /\ n \in 0..Len(q) /\ n \in Nat /\ \A k \in 0..n : k \in 0..Len(q)
  BY <1>1, LenProperties
<1>3. AfterRead(after, b0, q, n)
  BY <1>2, ReadDefined
<1>. DEFINE b == after[n]
<1>4. /\ b \in BtState /\ Distinct(b.usage) /\ b.prev = b0.prev /\ b.bbyte = b0.bbyte
      /\ \A u \in Usages : u \in ToSet(b.usage) <=> On(ToSet(b0.usage), q, n, u)
  <2>. HIDE DEF after, q, b0
  <2>. QED
    BY <1>1, <1>2, <1>3, Read
<1>5. /\ bt' = [bt EXCEPT ![p] = [b EXCEPT
                 !.bbyte = IF Candidates(b) # <<>> THEN Candidates(b)[1] ELSE @,
                 !.prev = ToSet(b.usage)]]
      /\ Keyboard([i \in 1..4 |-> i \in BtDirs(b.mods, Candidates(b))],
                  IF Candidates(b) # <<>> THEN Face(Candidates(b)[1]) ELSE btn_prev, down)
      /\ queue' = [queue EXCEPT ![p] = SubSeq(@, n + 1, Len(@))]
      /\ UNCHANGED physical
  BY DEF BtRead, AfterRead
<1>. HIDE DEF after
<1>. QED
  BY <1>4, <1>5 DEF OnAt
LEMMA ReadLeaves ==
  ASSUME PadInv, NEW p \in BtPads, NEW n \in 1..Len(queue[p]), NEW usage,
         \A u \in Usages : u \in ToSet(usage) <=> OnAt(p, n, u),
         bt'[p].usage = usage, queue' = [queue EXCEPT ![p] = SubSeq(@, n + 1, Len(@))]
  PROVE  /\ Len(queue[p]) \in Nat /\ Len(queue'[p]) = Len(queue[p]) - n
         /\ queue'[p] \in Seq(BtMsg)
         /\ \A j \in 1..(Len(queue[p]) - n) : queue'[p][j] = queue[p][n + j]
         /\ \A k \in 0..(Len(queue[p]) - n) : \A u \in Usages : OnAt(p, k, u)' <=> OnAt(p, n + k, u)
<1>. DEFINE q == queue[p]
            r == SubSeq(q, n + 1, Len(q))
            m == Len(q)
<1>1. q \in Seq(BtMsg) /\ queue'[p] = r
  BY DEF PadInv, PadTypes
<1>2. m \in Nat /\ n \in 1..m /\ \A j \in 1..m : q[j] \in BtMsg
  BY <1>1, LenProperties
<1>. HIDE DEF q, m
<1>3. /\ r \in Seq(BtMsg) /\ Len(r) = (IF n + 1 <= m THEN m - (n + 1) + 1 ELSE 0)
      /\ \A j \in 1..(m - (n + 1) + 1) : r[j] = q[(n + 1) + j - 1]
  <2>1. n + 1 \in Int /\ m \in Int /\ \A j \in (n + 1)..m : q[j] \in BtMsg
    BY <1>2
  <2>2. /\ SubSeq(q, n + 1, m) \in Seq(BtMsg)
        /\ Len(SubSeq(q, n + 1, m)) = (IF n + 1 <= m THEN m - (n + 1) + 1 ELSE 0)
        /\ \A j \in 1..(m - (n + 1) + 1) : SubSeq(q, n + 1, m)[j] = q[(n + 1) + j - 1]
    BY <2>1, SubSeqProperties
  <2>. QED
    BY <2>2 DEF m
<1>. HIDE DEF r
<1>4. Len(r) = m - n
  BY <1>2, <1>3
<1>5. ASSUME NEW j \in 1..(m - n) PROVE r[j] = q[n + j]
  <2>1. j \in 1..(m - (n + 1) + 1) /\ (n + 1) + j - 1 = n + j
    BY <1>2
  <2>. QED
    BY <1>3, <2>1
<1>6. ASSUME NEW k \in 0..(m - n), NEW u \in Usages
      PROVE  On(ToSet(usage), r, k, u) <=> On(ToSet(bt[p].usage), q, n + k, u)
  <2>1. k \in Nat /\ n \in Nat /\ \A j \in 1..k : j \in 1..(m - n)
    BY <1>2
  <2>2. u \in ToSet(usage) <=> On(ToSet(bt[p].usage), q, n, u)
    BY DEF OnAt, q
  <2>. QED
    BY <1>5, <2>1, <2>2, OnShift
<1>. QED
  BY <1>1, <1>2, <1>3, <1>4, <1>5, <1>6 DEF OnAt, q, m

LEMMA ReadKeeps ==
  ASSUME PadInv, NEW p \in BtPads, NEW n \in 1..Len(queue[p]), BtRead(p, n)
  PROVE  PadInv'
<1>1. PICK b \in BtState :
        /\ Distinct(b.usage) /\ b.prev = bt[p].prev /\ b.bbyte = bt[p].bbyte
        /\ \A u \in Usages : u \in ToSet(b.usage) <=> OnAt(p, n, u)
        /\ bt' = [bt EXCEPT ![p] = [b EXCEPT
                    !.bbyte = IF Candidates(b) # <<>> THEN Candidates(b)[1] ELSE @,
                    !.prev = ToSet(b.usage)]]
        /\ Keyboard([i \in 1..4 |-> i \in BtDirs(b.mods, Candidates(b))],
                    IF Candidates(b) # <<>> THEN Face(Candidates(b)[1]) ELSE btn_prev, down)
        /\ queue' = [queue EXCEPT ![p] = SubSeq(@, n + 1, Len(@))]
        /\ UNCHANGED physical
  BY ReadEffect
<1>. DEFINE byte == IF Candidates(b) # <<>> THEN Candidates(b)[1] ELSE b.bbyte
            new == [b EXCEPT !.bbyte = byte, !.prev = ToSet(b.usage)]
<1>2. byte \in Usages
  <2>1. b.bbyte \in Usages
    BY DEF BtState
  <2>2. Candidates(b) = <<>> \/ \E u \in Usages : Candidates(b) = <<u>>
    BY CandidatesShape
  <2>. QED
    BY <2>1, <2>2
<1>3. bt' = [bt EXCEPT ![p] = new]
  BY <1>1
<1>. HIDE DEF byte
<1>4. new \in BtState /\ new.usage = b.usage
  <2>1. b.usage \in Seq(Usages)
    BY DEF BtState
  <2>2. ToSet(b.usage) \in SUBSET Usages
    BY <2>1, LenProperties DEF ToSet
  <2>. QED
    BY <1>2, <2>2 DEF BtState
<1>. HIDE DEF new
<1>5. bt' \in [BtPads -> BtState] /\ bt'[p].usage = b.usage
      /\ \A o \in BtPads : o # p => bt'[o] = bt[o]
  BY <1>3, <1>4 DEF PadInv, PadTypes
<1>6. \A o \in UsbPads \cup BtPads : o # p => queue'[o] = queue[o]
  BY <1>1 DEF PadInv, PadTypes
<1>7. /\ Len(queue[p]) \in Nat /\ Len(queue'[p]) = Len(queue[p]) - n
      /\ queue'[p] \in Seq(BtMsg)
      /\ \A k \in 0..(Len(queue[p]) - n) : \A u \in Usages : OnAt(p, k, u)' <=> OnAt(p, n + k, u)
  BY <1>1, <1>5, ReadLeaves
<1>8. PadTypes'
  <2>1. dirstate' \in [1..4 -> BOOLEAN] /\ btn_prev' \in [1..4 -> BOOLEAN]
    <3>1. dirstate' = [i \in 1..4 |-> i \in BtDirs(b.mods, Candidates(b))]
          /\ btn_prev' = IF Candidates(b) # <<>> THEN Face(Candidates(b)[1]) ELSE btn_prev
      BY <1>1 DEF Keyboard
    <3>2. btn_prev' \in [1..4 -> BOOLEAN]
      BY <3>1 DEF Face, PadInv, PadTypes
    <3>. QED
      BY <3>1, <3>2
  <2>2. queue' = [o \in UsbPads \cup BtPads |-> queue'[o]]
    BY <1>1 DEF PadInv, PadTypes
  <2>3. p \notin UsbPads
    BY PadsAssumption
  <2>4. /\ \A o \in UsbPads : queue'[o] \in Seq(UsbMsg(o))
        /\ \A o \in BtPads : queue'[o] \in Seq(BtMsg)
    BY <1>6, <1>7, <2>3 DEF PadInv, PadTypes
  <2>. QED
    BY <1>1, <1>5, <2>1, <2>2, <2>4 DEF PadInv, PadTypes, physical, UsbMsg
<1>9. ASSUME NEW o \in BtPads PROVE Reconstructed(o)'
  <2>1. report' = report /\ early' = early
    BY <1>1 DEF physical
  <2>2. CASE o # p
    BY <1>5, <1>6, <2>1, <2>2 DEF PadInv, Reconstructed, OnAt, Sent
  <2>3. CASE o = p
    <3>1. Reconstructed(p)
      BY DEF PadInv
    <3>2. ASSUME NEW k \in 0..Len(queue'[p]) PROVE AtMostTwo(ToSet(bt'[p].usage), queue'[p], k)
      <4>1. n + k \in 0..Len(queue[p]) /\ k \in 0..(Len(queue[p]) - n)
        BY <1>7
      <4>2. AtMostTwo(ToSet(bt[p].usage), queue[p], n + k)
        BY <3>1, <4>1 DEF Reconstructed
      <4>3. \A u \in Usages : On(ToSet(bt'[p].usage), queue'[p], k, u)
                              <=> On(ToSet(bt[p].usage), queue[p], n + k, u)
        BY <1>7, <4>1 DEF OnAt
      <4>. QED
        BY <4>2, <4>3 DEF AtMostTwo
    <3>3. ASSUME NEW u \in Usages
          PROVE  On(ToSet(bt'[p].usage), queue'[p], Len(queue'[p]), u) <=> u \in Sent(p)
      <4>. DEFINE k == Len(queue[p]) - n
      <4>1. k \in 0..(Len(queue[p]) - n) /\ n + k = Len(queue[p]) /\ Len(queue'[p]) = k
        BY <1>7
      <4>. HIDE DEF k
      <4>2. On(ToSet(bt'[p].usage), queue'[p], k, u) <=> On(ToSet(bt[p].usage), queue[p], n + k, u)
        BY <1>7, <4>1 DEF OnAt
      <4>. QED
        BY <2>1, <3>1, <4>1, <4>2 DEF Reconstructed, OnAt
    <3>. QED
      BY <1>1, <1>5, <2>1, <2>3, <3>2, <3>3 DEF Reconstructed, OnAt, Sent
  <2>. QED
    BY <2>2, <2>3
<1>. QED
  BY <1>8, <1>9 DEF PadInv

(* A USB pad touches its own queue and the shared state only.              *)
LEMMA UsbKeeps ==
  ASSUME PadInv, NEW p \in UsbPads,
         UNCHANGED <<report, early, bt>>,
         pos' = [x \in UsbPads |-> [a \in Axes[x] |-> pos'[x][a]]],
         held' = [x \in UsbPads |-> held'[x]],
         NEW q \in Seq(UsbMsg(p)), queue' = [queue EXCEPT ![p] = q],
         dirstate' \in [1..4 -> BOOLEAN], btn_prev' \in [1..4 -> BOOLEAN]
  PROVE  PadInv'
<1>1. p \notin BtPads
  BY PadsAssumption
<1>2. \A o \in BtPads : queue'[o] = queue[o]
  BY <1>1 DEF PadInv, PadTypes
<1>3. \A o \in UsbPads : queue'[o] \in Seq(UsbMsg(o))
  BY DEF PadInv, PadTypes
<1>4. queue' = [o \in UsbPads \cup BtPads |-> queue'[o]]
  BY DEF PadInv, PadTypes
<1>5. PadTypes'
  BY <1>2, <1>3, <1>4 DEF PadInv, PadTypes, UsbMsg
<1>6. \A o \in BtPads : Reconstructed(o)'
  BY <1>2 DEF PadInv, Reconstructed, OnAt, Sent
<1>. QED
  BY <1>5, <1>6 DEF PadInv

LEMMA UsbActionsKeep ==
  ASSUME PadInv, NEW p \in UsbPads,
         \/ \E a \in Axes[p] : \E v \in Positions[a] : MoveAxis(p, a, v)
         \/ \E c \in Buttons[p] : PressButton(p, c)
         \/ UsbEvent(p)
  PROVE  PadInv'
<1>. USE DEF PadInv, PadTypes
<1>1. queue[p] \in Seq(UsbMsg(p))
  OBVIOUS
<1>2. ASSUME NEW a \in Axes[p], NEW v \in Positions[a], MoveAxis(p, a, v) PROVE PadInv'
  <2>. DEFINE e == [type |-> "abs", code |-> a, value |-> v]
              q == queue[p] \o <<e>>
  <2>1. e \in UsbMsg(p)
    BY RangeAssumption DEF UsbMsg
  <2>2. q \in Seq(UsbMsg(p))
    <3>1. <<e>> \in Seq(UsbMsg(p))
      BY <2>1
    <3>. QED
      BY <1>1, <3>1, ConcatProperties
  <2>3. /\ queue' = [queue EXCEPT ![p] = q]
        /\ pos' = [pos EXCEPT ![p][a] = v] /\ held' = held
        /\ UNCHANGED <<report, early, bt, dirstate, btn_prev>>
    BY <1>2 DEF MoveAxis, Queue
  <2>4. pos' = [x \in UsbPads |-> [y \in Axes[x] |-> pos'[x][y]]]
    BY <2>3
  <2>5. held' = [x \in UsbPads |-> held'[x]]
    BY <2>3
  <2>. HIDE DEF q
  <2>. QED
    BY <2>2, <2>3, <2>4, <2>5, UsbKeeps
<1>3. ASSUME NEW c \in Buttons[p], PressButton(p, c) PROVE PadInv'
  <2>. DEFINE e == [type |-> "key", code |-> c, value |-> IF c \in held[p] THEN 0 ELSE 1]
              q == queue[p] \o <<e>>
  <2>1. e \in UsbMsg(p)
    BY DEF UsbMsg
  <2>2. q \in Seq(UsbMsg(p))
    <3>1. <<e>> \in Seq(UsbMsg(p))
      BY <2>1
    <3>. QED
      BY <1>1, <3>1, ConcatProperties
  <2>3. /\ queue' = [queue EXCEPT ![p] = q]
        /\ held' = [held EXCEPT ![p] = IF c \in @ THEN @ \ {c} ELSE @ \cup {c}] /\ pos' = pos
        /\ UNCHANGED <<report, early, bt, dirstate, btn_prev>>
    BY <1>3 DEF PressButton, Queue
  <2>4. held' = [x \in UsbPads |-> held'[x]]
    BY <2>3
  <2>5. pos' = [x \in UsbPads |-> [y \in Axes[x] |-> pos'[x][y]]]
    BY <2>3
  <2>. HIDE DEF q
  <2>. QED
    BY <2>2, <2>3, <2>4, <2>5, UsbKeeps
<1>4. ASSUME UsbEvent(p) PROVE PadInv'
  <2>. DEFINE q == Tail(queue[p])
              e == Head(queue[p])
  <2>1. queue[p] # <<>> /\ queue' = [queue EXCEPT ![p] = q] /\ UNCHANGED <<pos, held, report, early, bt>>
    BY <1>4 DEF UsbEvent, physical
  <2>2. q \in Seq(UsbMsg(p))
    BY <1>1, <2>1, HeadTailProperties
  <2>3. dirstate' \in [1..4 -> BOOLEAN] /\ btn_prev' \in [1..4 -> BOOLEAN]
    <3>1. btn_prev' = btn_prev /\ dirstate' \in {dirstate, AxisToDirs(e.code, e.value)}
      BY <1>4 DEF UsbEvent, Keyboard
    <3>2. AxisToDirs(e.code, e.value) \in [1..4 -> BOOLEAN]
      <4>. DEFINE less == e.value < Middle(e.code) - Dead(e.code)
                  more == e.value > Middle(e.code) + Dead(e.code)
      <4>1. less \in BOOLEAN /\ more \in BOOLEAN
        OBVIOUS
      <4>2. AxisToDirs(e.code, e.value)
              = [dirstate EXCEPT ![Negative(e.code)] = less, ![Negative(e.code) + 1] = more]
        BY DEF AxisToDirs
      <4>. HIDE DEF less, more
      <4>. QED
        BY <4>1, <4>2
    <3>. QED
      BY <3>1, <3>2
  <2>4. pos' = [x \in UsbPads |-> [y \in Axes[x] |-> pos'[x][y]]]
    BY <2>1
  <2>5. held' = [x \in UsbPads |-> held'[x]]
    BY <2>1
  <2>. HIDE DEF q
  <2>. QED
    BY <2>1, <2>2, <2>3, <2>4, <2>5, UsbKeeps
<1>. QED
  BY <1>2, <1>3, <1>4

(* The inductive invariant: at every point of the unread queue two usages  *)
(* at most are on, and at its end they are those of the report.            *)
THEOREM ReconstructionCorrect == Spec => []PadInv
<1>1. PadInv /\ [Next]_vars => PadInv'
  <2>1. SUFFICES ASSUME PadInv, [Next]_vars PROVE PadInv'
    OBVIOUS
  <2>2. ASSUME NEW p \in BtPads, NEW m \in Byte0s, NEW u \in ButtonBytes, NEW s \in StickBytes,
               SendReport(p, [mods |-> m, button |-> u, stick |-> s])
        PROVE  PadInv'
    <3>1. [mods |-> m, button |-> u, stick |-> s] \in Reports
      BY DEF Reports
    <3>. QED
      BY <2>1, <2>2, <3>1, SendKeeps
  <2>3. ASSUME NEW p \in BtPads, NEW n \in 1..Room[p], BtRead(p, n) PROVE PadInv'
    <3>1. n \in 1..Len(queue[p])
      BY <2>3 DEF BtRead
    <3>. QED
      BY <2>1, <2>3, <3>1, ReadKeeps
  <2>4. CASE UNCHANGED vars
    BY <2>1, <2>4 DEF vars, physical, PadInv, PadTypes, Reconstructed, OnAt, Sent, UsbMsg
  <2>. QED
    BY <2>1, <2>2, <2>3, <2>4, UsbActionsKeep DEF Next
<1>. QED
  BY <1>1, PadInit, PTL DEF Spec

LEMMA UsagesExact == PadInv => UsagesTrackReport
<1>1. SUFFICES ASSUME PadInv, Drained, NEW p \in BtPads PROVE ToSet(bt[p].usage) = Sent(p)
  BY DEF UsagesTrackReport, Sent
<1>2. Len(queue[p]) = 0 /\ Reconstructed(p) /\ report[p] \in Reports
  <2>1. queue[p] = <<>>
    BY <1>1 DEF Drained
  <2>. QED
    BY <1>1, <2>1 DEF PadInv, PadTypes
<1>3. ToSet(bt[p].usage) \subseteq Usages
  <2>1. bt[p].usage \in Seq(Usages)
    BY <1>1 DEF PadInv, PadTypes, BtState
  <2>. QED
    BY <2>1, LenProperties DEF ToSet
<1>4. Sent(p) \subseteq Usages
  <2>1. Keys(report[p]) \subseteq Codes
    BY <1>2, KeysTypes
  <2>. QED
    BY <2>1, UsageInverts DEF Sent
<1>5. ASSUME NEW u \in Usages PROVE u \in ToSet(bt[p].usage) <=> u \in Sent(p)
  <2>1. OnAt(p, 0, u) <=> u \in ToSet(bt[p].usage)
    BY OnNone DEF OnAt
  <2>. QED
    BY <1>2, <1>5, <2>1 DEF Reconstructed
<1>. QED
  BY <1>3, <1>4, <1>5

(* Once everything is read, the usages that padkeys has are those of the   *)
(* report that have changed since it started, as what they were folded     *)
(* onto, in whatever pieces it was read.                                   *)
THEOREM UsagesCorrect == Spec => []UsagesTrackReport
  BY UsagesExact, ReconstructionCorrect, PTL
-----------------------------------------------------------------------------
(* Who asks for what is on: an axis or a button of a USB pad, or an event  *)
(* of it that waits; a Bluetooth pad of which padkeys has the one byte     *)
(* with a hat, if that is neutral; any pad of which it has others.         *)
Pending(q, type, code) == \E j \in 1..Len(q) : q[j].type = type /\ q[j].code = code

AxisAsks(i, q, a, axes) ==
  \/ Negative(a) = i     /\ (Pending(q, "abs", a) \/ axes[a] < Middle(a))
  \/ Negative(a) + 1 = i /\ (Pending(q, "abs", a) \/ axes[a] > Middle(a))
ButtonAsks(k, q, c, codes) == KeyOf[c] = k /\ (Pending(q, "key", c) \/ c \in codes)

BtDir(b, i)  == \A u : Settled(b.usage, u) => i \in BtDirs(b.mods, <<u>>)
BtFace(b, i) == \A u : Settled(b.usage, u) => Face(u)[i]

DirAsked(i) ==
  \/ \E p \in UsbPads : \E a \in Axes[p] : AxisAsks(i, queue[p], a, pos[p])
  \/ \E p \in BtPads : BtDir(bt[p], i)
FaceAsked(i) == \E p \in BtPads : BtFace(bt[p], i)

KeyOn(k, dirs, btns) ==
  \/ \E i \in 1..4 : DirKeys[i] = k /\ dirs[i]
  \/ \E i \in 1..4 : FaceKeys[i] = k /\ btns[i]
KeyAsked(k) ==
  \/ KeyOn(k, dirstate, btn_prev)
  \/ \E p \in UsbPads : \E c \in Buttons[p] : ButtonAsks(k, queue[p], c, held[p])

(* The last event about an axis or a button says where it is.              *)
Says(e, axes, codes) ==
  IF e.type = "abs" THEN e.value = axes[e.code]
  ELSE e.value = IF e.code \in codes THEN 1 ELSE 0
SameSource(d, e) == d.type = e.type /\ d.code = e.code

Matches(q, axes, codes) ==
  \A j \in 1..Len(q) :
    (\A l \in (j + 1)..Len(q) : ~SameSource(q[l], q[j])) => Says(q[j], axes, codes)

(* The inductive invariant of the virtual keyboard.                        *)
GhostInv ==
  /\ PadInv
  /\ \A p \in BtPads : HatByte(bt[p].bbyte)
  /\ \A p \in UsbPads : Matches(queue[p], pos[p], held[p])
  /\ \A i \in 1..4 : dirstate[i] => DirAsked(i)
  /\ \A i \in 1..4 : btn_prev[i] => FaceAsked(i)
  /\ \A k \in down : KeyAsked(k)

LEMMA Appended ==
  ASSUME NEW S, NEW q \in Seq(S), NEW e \in S
  PROVE  /\ Len(q) \in Nat /\ Len(q \o <<e>>) = Len(q) + 1
         /\ \A j \in 1..Len(q) : (q \o <<e>>)[j] = q[j]
         /\ (q \o <<e>>)[Len(q) + 1] = e
BY LenProperties, ConcatProperties

LEMMA MatchesAppended ==
  ASSUME NEW S, NEW q \in Seq(S), NEW e \in S, NEW axes, NEW codes, NEW axes2, NEW codes2,
         Matches(q, axes, codes), Says(e, axes2, codes2),
         \A j \in 1..Len(q) : ~SameSource(e, q[j]) /\ Says(q[j], axes, codes) =>
                                Says(q[j], axes2, codes2)
  PROVE  Matches(q \o <<e>>, axes2, codes2)
<1>. DEFINE n == Len(q)
            t == q \o <<e>>
<1>1. n \in Nat /\ Len(t) = n + 1 /\ (\A j \in 1..n : t[j] = q[j]) /\ t[n + 1] = e
  BY Appended
<1>. HIDE DEF t
<1>2. SUFFICES ASSUME NEW j \in 1..(n + 1), \A l \in (j + 1)..(n + 1) : ~SameSource(t[l], t[j])
               PROVE  Says(t[j], axes2, codes2)
  BY <1>1 DEF Matches, t
<1>3. CASE j = n + 1
  BY <1>1, <1>3
<1>4. CASE j # n + 1
  <2>1. j \in 1..n /\ t[j] = q[j]
    BY <1>1, <1>4
  <2>2. n + 1 \in (j + 1)..(n + 1) /\ \A l \in (j + 1)..n : l \in (j + 1)..(n + 1) /\ t[l] = q[l]
    BY <1>1, <2>1
  <2>3. ~SameSource(e, q[j]) /\ \A l \in (j + 1)..n : ~SameSource(q[l], q[j])
    BY <1>1, <1>2, <2>1, <2>2
  <2>. QED
    BY <2>1, <2>3 DEF Matches
<1>. QED
  BY <1>3, <1>4

LEMMA PendingAppended ==
  ASSUME NEW S, NEW q \in Seq(S), NEW e \in S, NEW t, NEW c,
         Pending(q, t, c) \/ (e.type = t /\ e.code = c)
  PROVE  Pending(q \o <<e>>, t, c)
<1>1. /\ Len(q) \in Nat /\ Len(q \o <<e>>) = Len(q) + 1
      /\ \A j \in 1..Len(q) : (q \o <<e>>)[j] = q[j]
      /\ (q \o <<e>>)[Len(q) + 1] = e
  BY Appended
<1>2. Len(q) + 1 \in 1..(Len(q) + 1) /\ \A j \in 1..Len(q) : j \in 1..(Len(q) + 1)
  BY <1>1
<1>. QED
  BY <1>1, <1>2 DEF Pending

(* When the first event goes, what it says holds or a later one corrects it*)
LEMMA TailIs ==
  ASSUME NEW S, NEW q \in Seq(S), q # <<>>
  PROVE  /\ Len(q) \in Nat /\ Len(q) >= 1 /\ Head(q) = q[1]
         /\ Len(Tail(q)) = Len(q) - 1 /\ \A j \in 1..(Len(q) - 1) : Tail(q)[j] = q[j + 1]
<1>1. Len(q) \in Nat /\ Len(q) # 0
  BY EmptySeq
<1>. QED
  BY <1>1, HeadTailProperties

LEMMA MatchesTail ==
  ASSUME NEW S, NEW q \in Seq(S), q # <<>>, NEW axes, NEW codes, Matches(q, axes, codes)
  PROVE  /\ Matches(Tail(q), axes, codes)
         /\ Says(Head(q), axes, codes) \/ Pending(Tail(q), Head(q).type, Head(q).code)
<1>. DEFINE n == Len(q)
            t == Tail(q)
<1>1. n \in Nat /\ n >= 1 /\ Head(q) = q[1] /\ Len(t) = n - 1 /\ \A j \in 1..(n - 1) : t[j] = q[j + 1]
  BY TailIs
<1>. HIDE DEF t, n
<1>2. ASSUME NEW j \in 1..(n - 1), \A l \in (j + 1)..(n - 1) : ~SameSource(t[l], t[j])
      PROVE  Says(t[j], axes, codes)
  <2>1. j + 1 \in 1..n /\ t[j] = q[j + 1]
    BY <1>1
  <2>2. ASSUME NEW l \in ((j + 1) + 1)..n PROVE ~SameSource(q[l], q[j + 1])
    <3>1. l - 1 \in (j + 1)..(n - 1) /\ l - 1 \in 1..(n - 1) /\ (l - 1) + 1 = l
      BY <1>1
    <3>. QED
      BY <1>1, <1>2, <2>1, <3>1
  <2>. QED
    BY <2>1, <2>2 DEF Matches, n
<1>3. ASSUME ~Pending(t, Head(q).type, Head(q).code) PROVE Says(Head(q), axes, codes)
  <2>1. ASSUME NEW l \in (1 + 1)..n PROVE ~SameSource(q[l], q[1])
    <3>1. l - 1 \in 1..(n - 1) /\ (l - 1) + 1 = l
      BY <1>1
    <3>. QED
      BY <1>1, <1>3, <3>1 DEF Pending, SameSource
  <2>2. 1 \in 1..n
    BY <1>1
  <2>. QED
    BY <1>1, <2>1, <2>2 DEF Matches, n
<1>. QED
  BY <1>1, <1>2, <1>3 DEF Matches, t

LEMMA PendingTail ==
  ASSUME NEW S, NEW q \in Seq(S), q # <<>>, NEW t, NEW c, Pending(q, t, c)
  PROVE  Pending(Tail(q), t, c) \/ (Head(q).type = t /\ Head(q).code = c)
<1>1. /\ Len(q) \in Nat /\ Len(q) >= 1 /\ Head(q) = q[1]
      /\ Len(Tail(q)) = Len(q) - 1 /\ \A j \in 1..(Len(q) - 1) : Tail(q)[j] = q[j + 1]
  BY TailIs
<1>2. PICK j \in 1..Len(q) : q[j].type = t /\ q[j].code = c
  BY DEF Pending
<1>3. CASE j = 1
  BY <1>1, <1>2, <1>3
<1>4. CASE j # 1
  <2>1. j - 1 \in 1..(Len(q) - 1) /\ (j - 1) + 1 = j
    BY <1>1, <1>4
  <2>. QED
    BY <1>1, <1>2, <2>1 DEF Pending
<1>. QED
  BY <1>3, <1>4

(* A key that is down is on, or was down without being on.                 *)
LEMMA KeyboardKeeps ==
  ASSUME NEW dirs, NEW btns, NEW others, Keyboard(dirs, btns, others), NEW k \in down'
  PROVE  \/ KeyOn(k, dirstate', btn_prev')
         \/ k \in others /\ ~KeyOn(k, dirstate, btn_prev)
BY DEF Keyboard, KeyOn

LEMMA GhostInit == Init => GhostInv
<1>1. SUFFICES ASSUME Init PROVE GhostInv
  OBVIOUS
<1>2. PadInv
  BY <1>1, PadInit
<1>3. ASSUME NEW p \in BtPads PROVE HatByte(bt[p].bbyte)
  <2>1. bt[p].bbyte = Rest
    BY <1>1 DEF Init
  <2>. QED
    BY <2>1 DEF HatByte, Rest
<1>4. \A p \in UsbPads : Matches(queue[p], pos[p], held[p])
  <2>1. \A p \in UsbPads : Len(queue[p]) = 0
    BY <1>1 DEF Init
  <2>. QED
    BY <2>1 DEF Matches
<1>5. (\A i \in 1..4 : ~dirstate[i] /\ ~btn_prev[i]) /\ down = {}
  BY <1>1 DEF Init
<1>. QED
  BY <1>2, <1>3, <1>4, <1>5 DEF GhostInv

(* A step of a USB pad: what goes from its queue or changes on it is not   *)
(* needed any more, or asked for by something else.                        *)
LEMMA UsbKeepsAsked ==
  ASSUME GhostInv, PadInv', NEW p \in UsbPads, NEW q, queue' = [queue EXCEPT ![p] = q],
         UNCHANGED <<report, early, bt, btn_prev>>,
         \A o \in UsbPads : o # p => pos'[o] = pos[o] /\ held'[o] = held[o],
         Matches(q, pos'[p], held'[p]),
         \A i \in 1..4 : dirstate'[i] =>
           \/ \E a \in Axes[p] : AxisAsks(i, q, a, pos'[p])
           \/ /\ dirstate[i]
              /\ \A a \in Axes[p] : AxisAsks(i, queue[p], a, pos[p]) => AxisAsks(i, q, a, pos'[p]),
         \A k \in down' :
           \/ KeyOn(k, dirstate', btn_prev')
           \/ \E c \in Buttons[p] : ButtonAsks(k, q, c, held'[p])
           \/ /\ k \in down /\ ~KeyOn(k, dirstate, btn_prev)
              /\ \A c \in Buttons[p] : ButtonAsks(k, queue[p], c, held[p]) => ButtonAsks(k, q, c, held'[p])
  PROVE  GhostInv'
<1>1. queue'[p] = q /\ \A o \in UsbPads \cup BtPads : o # p => queue'[o] = queue[o]
  BY DEF GhostInv, PadInv, PadTypes
<1>4. ASSUME NEW o \in UsbPads PROVE Matches(queue'[o], pos'[o], held'[o])
  BY <1>1 DEF GhostInv
<1>5. ASSUME NEW i \in 1..4, dirstate'[i] PROVE DirAsked(i)'
  <2>1. CASE \E a \in Axes[p] : AxisAsks(i, q, a, pos'[p])
    BY <1>1, <2>1 DEF DirAsked
  <2>2. CASE /\ dirstate[i]
             /\ \A a \in Axes[p] : AxisAsks(i, queue[p], a, pos[p]) => AxisAsks(i, q, a, pos'[p])
    <3>1. DirAsked(i)
      BY <2>2 DEF GhostInv
    <3>2. CASE \E b \in BtPads : BtDir(bt[b], i)
      BY <3>2 DEF DirAsked
    <3>3. CASE \E o \in UsbPads : \E a \in Axes[o] : AxisAsks(i, queue[o], a, pos[o])
      <4>1. PICK o \in UsbPads : \E a \in Axes[o] : AxisAsks(i, queue[o], a, pos[o])
        BY <3>3
      <4>2. PICK a \in Axes[o] : AxisAsks(i, queue[o], a, pos[o])
        BY <4>1
      <4>3. AxisAsks(i, queue'[o], a, pos'[o])
        BY <1>1, <2>2, <4>2
      <4>. QED
        BY <4>3 DEF DirAsked
    <3>. QED
      BY <3>1, <3>2, <3>3 DEF DirAsked
  <2>. QED
    BY <1>5, <2>1, <2>2
<1>6. ASSUME NEW i \in 1..4, btn_prev'[i] PROVE FaceAsked(i)'
  BY <1>6 DEF GhostInv, FaceAsked
<1>7. ASSUME NEW k \in down' PROVE KeyAsked(k)'
  <2>1. CASE KeyOn(k, dirstate', btn_prev')
    BY <2>1 DEF KeyAsked
  <2>2. CASE \E c \in Buttons[p] : ButtonAsks(k, q, c, held'[p])
    BY <1>1, <2>2 DEF KeyAsked
  <2>3. CASE /\ k \in down /\ ~KeyOn(k, dirstate, btn_prev)
             /\ \A c \in Buttons[p] : ButtonAsks(k, queue[p], c, held[p]) => ButtonAsks(k, q, c, held'[p])
    <3>1. PICK o \in UsbPads : \E c \in Buttons[o] : ButtonAsks(k, queue[o], c, held[o])
      BY <2>3 DEF GhostInv, KeyAsked
    <3>2. PICK c \in Buttons[o] : ButtonAsks(k, queue[o], c, held[o])
      BY <3>1
    <3>3. ButtonAsks(k, queue'[o], c, held'[o])
      BY <1>1, <2>3, <3>2
    <3>. QED
      BY <3>3 DEF KeyAsked
  <2>. QED
    BY <2>1, <2>2, <2>3
<1>. QED
  BY <1>4, <1>5, <1>6, <1>7 DEF GhostInv

LEMMA MoveKeepsAsked ==
  ASSUME GhostInv, NEW p \in UsbPads, NEW a \in Axes[p], NEW v \in Positions[a], MoveAxis(p, a, v)
  PROVE  GhostInv'
<1>. DEFINE e == [type |-> "abs", code |-> a, value |-> v]
            q == queue[p] \o <<e>>
<1>1. PadInv' /\ queue[p] \in Seq(UsbMsg(p))
  BY UsbActionsKeep DEF GhostInv, PadInv, PadTypes
<1>2. e \in UsbMsg(p) /\ e.type = "abs" /\ e.code = a /\ e.value = v
  BY RangeAssumption DEF UsbMsg
<1>3. /\ queue' = [queue EXCEPT ![p] = q]
      /\ pos' = [pos EXCEPT ![p][a] = v] /\ held' = held
      /\ UNCHANGED <<report, early, bt, dirstate, btn_prev, down>>
  BY DEF MoveAxis, Queue
<1>4. /\ \A o \in UsbPads : o # p => pos'[o] = pos[o] /\ held'[o] = held[o]
      /\ held'[p] = held[p] /\ pos'[p][a] = v /\ \A x \in Axes[p] : x # a => pos'[p][x] = pos[p][x]
  BY <1>3 DEF GhostInv, PadInv, PadTypes
<1>. HIDE DEF e
<1>5. Matches(q, pos'[p], held'[p])
  <2>1. Matches(queue[p], pos[p], held[p])
    BY DEF GhostInv
  <2>2. Says(e, pos'[p], held'[p])
    BY <1>2, <1>4 DEF Says
  <2>3. ASSUME NEW j \in 1..Len(queue[p]), ~SameSource(e, queue[p][j]),
               Says(queue[p][j], pos[p], held[p])
        PROVE  Says(queue[p][j], pos'[p], held'[p])
    <3>1. queue[p][j] \in UsbMsg(p)
      BY <1>1, LenProperties
    <3>. QED
      BY <1>2, <1>4, <2>3, <3>1 DEF Says, SameSource, UsbMsg
  <2>. QED
    BY <1>1, <1>2, <2>1, <2>2, <2>3, MatchesAppended
<1>6. \A t, c : Pending(queue[p], t, c) => Pending(q, t, c)
  BY <1>1, <1>2, PendingAppended
<1>7. Pending(q, "abs", a)
  BY <1>1, <1>2, PendingAppended
<1>. HIDE DEF q
<1>8. ASSUME NEW i \in 1..4, NEW x \in Axes[p], AxisAsks(i, queue[p], x, pos[p])
      PROVE  AxisAsks(i, q, x, pos'[p])
  BY <1>4, <1>6, <1>7, <1>8 DEF AxisAsks
<1>9. ASSUME NEW k, NEW c \in Buttons[p], ButtonAsks(k, queue[p], c, held[p])
      PROVE  ButtonAsks(k, q, c, held'[p])
  BY <1>4, <1>6, <1>9 DEF ButtonAsks
<1>. QED
  BY <1>1, <1>3, <1>4, <1>5, <1>8, <1>9, UsbKeepsAsked

LEMMA PressKeepsAsked ==
  ASSUME GhostInv, NEW p \in UsbPads, NEW c \in Buttons[p], PressButton(p, c)
  PROVE  GhostInv'
<1>. DEFINE e == [type |-> "key", code |-> c, value |-> IF c \in held[p] THEN 0 ELSE 1]
            q == queue[p] \o <<e>>
<1>1. PadInv' /\ queue[p] \in Seq(UsbMsg(p))
  BY UsbActionsKeep DEF GhostInv, PadInv, PadTypes
<1>2. /\ e \in UsbMsg(p) /\ e.type = "key" /\ e.code = c
      /\ e.value = IF c \in held[p] THEN 0 ELSE 1
  BY DEF UsbMsg
<1>3. /\ queue' = [queue EXCEPT ![p] = q] /\ pos' = pos
      /\ held' = [held EXCEPT ![p] = IF c \in @ THEN @ \ {c} ELSE @ \cup {c}]
      /\ UNCHANGED <<report, early, bt, dirstate, btn_prev, down>>
  BY DEF PressButton, Queue
<1>4. /\ \A o \in UsbPads : o # p => pos'[o] = pos[o] /\ held'[o] = held[o]
      /\ pos'[p] = pos[p] /\ (c \in held'[p] <=> c \notin held[p])
      /\ \A x : x # c => (x \in held'[p] <=> x \in held[p])
  BY <1>3 DEF GhostInv, PadInv, PadTypes
<1>. HIDE DEF e
<1>5. Matches(q, pos'[p], held'[p])
  <2>1. Matches(queue[p], pos[p], held[p])
    BY DEF GhostInv
  <2>2. Says(e, pos'[p], held'[p])
    BY <1>2, <1>4 DEF Says
  <2>3. ASSUME NEW j \in 1..Len(queue[p]), ~SameSource(e, queue[p][j]),
               Says(queue[p][j], pos[p], held[p])
        PROVE  Says(queue[p][j], pos'[p], held'[p])
    <3>1. queue[p][j] \in UsbMsg(p)
      BY <1>1, LenProperties
    <3>. QED
      BY <1>2, <1>4, <2>3, <3>1 DEF Says, SameSource, UsbMsg
  <2>. QED
    BY <1>1, <1>2, <2>1, <2>2, <2>3, MatchesAppended
<1>6. \A t, x : Pending(queue[p], t, x) => Pending(q, t, x)
  BY <1>1, <1>2, PendingAppended
<1>7. Pending(q, "key", c)
  BY <1>1, <1>2, PendingAppended
<1>. HIDE DEF q
<1>8. ASSUME NEW i \in 1..4, NEW a \in Axes[p], AxisAsks(i, queue[p], a, pos[p])
      PROVE  AxisAsks(i, q, a, pos'[p])
  BY <1>4, <1>6, <1>8 DEF AxisAsks
<1>9. ASSUME NEW k, NEW x \in Buttons[p], ButtonAsks(k, queue[p], x, held[p])
      PROVE  ButtonAsks(k, q, x, held'[p])
  BY <1>4, <1>6, <1>7, <1>9 DEF ButtonAsks
<1>. QED
  BY <1>1, <1>3, <1>4, <1>5, <1>8, <1>9, UsbKeepsAsked

LEMMA EventKeepsAsked ==
  ASSUME GhostInv, NEW p \in UsbPads, UsbEvent(p)
  PROVE  GhostInv'
<1>. DEFINE e == Head(queue[p])
            q == Tail(queue[p])
<1>1. PadInv' /\ queue[p] \in Seq(UsbMsg(p)) /\ queue[p] # <<>>
      /\ dirstate \in [1..4 -> BOOLEAN]
  BY UsbActionsKeep DEF GhostInv, PadInv, PadTypes, UsbEvent
<1>2. e \in UsbMsg(p)
  BY <1>1, HeadTailProperties
<1>3. /\ queue' = [queue EXCEPT ![p] = q] /\ UNCHANGED <<pos, held, report, early, bt, btn_prev>>
      /\ IF e.type = "abs" THEN Keyboard(AxisToDirs(e.code, e.value), btn_prev, down)
         ELSE Keyboard(dirstate, btn_prev,
                IF e.value = 0 THEN down \ {KeyOf[e.code]} ELSE down \cup {KeyOf[e.code]})
  BY DEF UsbEvent, Keyboard, physical
<1>4. /\ Matches(q, pos[p], held[p])
      /\ Says(e, pos[p], held[p]) \/ Pending(q, e.type, e.code)
  <2>1. Matches(queue[p], pos[p], held[p])
    BY DEF GhostInv
  <2>. QED
    BY <1>1, <2>1, MatchesTail
<1>5. \A t, c : Pending(queue[p], t, c) => Pending(q, t, c) \/ (e.type = t /\ e.code = c)
  BY <1>1, PendingTail
<1>. HIDE DEF e, q
<1>6. CASE e.type = "abs"
  <2>. DEFINE a == e.code
              dirs == AxisToDirs(a, e.value)
  <2>1. a \in Axes[p] /\ e.value \in Int
    BY <1>2, <1>6 DEF UsbMsg
  <2>2. Middle(a) \in Int /\ Dead(a) \in Int /\ Dead(a) >= 1
    <3>1. Lo[a] \in Int /\ Hi[a] \in Int
      BY <2>1, RangeAssumption
    <3>. QED
      BY <3>1 DEF Middle, Dead
  <2>3. Negative(a) \in {1, 3}
    BY DEF Negative
  <2>4. dirstate' = dirs /\ Keyboard(dirs, btn_prev, down)
    BY <1>3, <1>6 DEF Keyboard
  <2>5. /\ dirs[Negative(a)] => e.value < Middle(a)
        /\ dirs[Negative(a) + 1] => e.value > Middle(a)
        /\ \A i \in 1..4 : i # Negative(a) /\ i # Negative(a) + 1 => dirs[i] = dirstate[i]
    <3>. DEFINE less == e.value < Middle(a) - Dead(a)
                more == e.value > Middle(a) + Dead(a)
    <3>1. (less => e.value < Middle(a)) /\ (more => e.value > Middle(a))
      BY <2>1, <2>2
    <3>2. dirs = [dirstate EXCEPT ![Negative(a)] = less, ![Negative(a) + 1] = more]
      BY DEF AxisToDirs
    <3>. HIDE DEF less, more, dirs
    <3>3. /\ dirs[Negative(a)] = less /\ dirs[Negative(a) + 1] = more
          /\ \A i \in 1..4 : i # Negative(a) /\ i # Negative(a) + 1 => dirs[i] = dirstate[i]
      BY <1>1, <2>3, <3>2
    <3>. QED
      BY <3>1, <3>3
  <2>6. e.value = pos[p][a] \/ Pending(q, "abs", a)
    BY <1>4, <1>6 DEF Says
  <2>. HIDE DEF dirs, a
  <2>7. ASSUME NEW i \in 1..4, dirstate'[i]
        PROVE  \/ \E x \in Axes[p] : AxisAsks(i, q, x, pos[p])
               \/ /\ dirstate[i]
                  /\ \A x \in Axes[p] : AxisAsks(i, queue[p], x, pos[p]) => AxisAsks(i, q, x, pos[p])
    <3>1. CASE i = Negative(a) \/ i = Negative(a) + 1
      <4>1. AxisAsks(i, q, a, pos[p])
        BY <2>4, <2>5, <2>6, <2>7, <3>1 DEF AxisAsks
      <4>. QED
        BY <2>1, <4>1
    <3>2. CASE i # Negative(a) /\ i # Negative(a) + 1
      <4>1. dirstate[i]
        BY <2>4, <2>5, <2>7, <3>2
      <4>2. ASSUME NEW x \in Axes[p], AxisAsks(i, queue[p], x, pos[p])
            PROVE  AxisAsks(i, q, x, pos[p])
        <5>1. x # a
          BY <3>2, <4>2 DEF AxisAsks
        <5>2. Pending(queue[p], "abs", x) => Pending(q, "abs", x)
          BY <1>5, <5>1 DEF a
        <5>. QED
          BY <4>2, <5>2 DEF AxisAsks
      <4>. QED
        BY <4>1, <4>2
    <3>. QED
      BY <3>1, <3>2
  <2>8. ASSUME NEW k \in down'
        PROVE  \/ KeyOn(k, dirstate', btn_prev')
               \/ /\ k \in down /\ ~KeyOn(k, dirstate, btn_prev)
                  /\ \A c \in Buttons[p] : ButtonAsks(k, queue[p], c, held[p]) => ButtonAsks(k, q, c, held[p])
    <3>1. \A c : Pending(queue[p], "key", c) => Pending(q, "key", c)
      BY <1>5, <1>6
    <3>2. KeyOn(k, dirstate', btn_prev') \/ (k \in down /\ ~KeyOn(k, dirstate, btn_prev))
      BY <2>4, KeyboardKeeps
    <3>. QED
      BY <3>1, <3>2 DEF ButtonAsks
  <2>. QED
    BY <1>1, <1>3, <1>4, <2>7, <2>8, UsbKeepsAsked
<1>7. CASE e.type = "key"
  <2>. DEFINE c == e.code
              others == IF e.value = 0 THEN down \ {KeyOf[c]} ELSE down \cup {KeyOf[c]}
  <2>1. c \in Buttons[p] /\ e.value \in {0, 1} /\ e.type # "abs"
    BY <1>2, <1>7 DEF UsbMsg
  <2>2. dirstate' = dirstate /\ Keyboard(dirstate, btn_prev, others)
    BY <1>3, <2>1 DEF Keyboard
  <2>3. Pending(q, "key", c) \/ (c \in held[p] <=> e.value = 1)
    BY <1>4, <1>7, <2>1 DEF Says
  <2>4. \A t, x : Pending(queue[p], t, x) => Pending(q, t, x) \/ (t = "key" /\ x = c)
    BY <1>5, <1>7
  <2>. HIDE DEF c
  <2>5. ASSUME NEW i \in 1..4, NEW a \in Axes[p], AxisAsks(i, queue[p], a, pos[p])
        PROVE  AxisAsks(i, q, a, pos[p])
    BY <2>4, <2>5 DEF AxisAsks
  <2>6. ASSUME NEW k \in down'
        PROVE  \/ KeyOn(k, dirstate', btn_prev')
               \/ \E x \in Buttons[p] : ButtonAsks(k, q, x, held[p])
               \/ /\ k \in down /\ ~KeyOn(k, dirstate, btn_prev)
                  /\ \A x \in Buttons[p] : ButtonAsks(k, queue[p], x, held[p]) => ButtonAsks(k, q, x, held[p])
    <3>1. KeyOn(k, dirstate', btn_prev') \/ (k \in others /\ ~KeyOn(k, dirstate, btn_prev))
      BY <2>2, KeyboardKeeps
    <3>2. CASE k \in others /\ k = KeyOf[c]
      <4>1. e.value = 1
        BY <2>1, <3>2
      <4>2. ButtonAsks(k, q, c, held[p])
        BY <2>3, <3>2, <4>1 DEF ButtonAsks
      <4>. QED
        BY <2>1, <4>2
    <3>3. CASE k \in others /\ k # KeyOf[c] /\ ~KeyOn(k, dirstate, btn_prev)
      <4>1. k \in down
        BY <3>3
      <4>2. \A x \in Buttons[p] : ButtonAsks(k, queue[p], x, held[p]) => ButtonAsks(k, q, x, held[p])
        BY <2>4, <3>3 DEF ButtonAsks
      <4>. QED
        BY <3>3, <4>1, <4>2
    <3>. QED
      BY <3>1, <3>2, <3>3
  <2>. QED
    BY <1>1, <1>3, <1>4, <2>2, <2>5, <2>6, UsbKeepsAsked
<1>. QED
  BY <1>2, <1>6, <1>7 DEF UsbMsg

LEMMA SendKeepsAsked ==
  ASSUME GhostInv, NEW b \in BtPads, NEW r \in Reports, SendReport(b, r)
  PROVE  GhostInv'
<1>1. PICK ev : /\ queue' = [queue EXCEPT ![b] = queue[b] \o ev]
                /\ bt' = bt /\ UNCHANGED <<pos, held, dirstate, btn_prev, down>>
  BY SentEffect DEF GhostInv
<1>2. PadInv' /\ PadInv
  BY SendKeeps DEF GhostInv
<1>3. \A o \in UsbPads : queue'[o] = queue[o]
  BY <1>1, <1>2, PadsAssumption DEF PadInv, PadTypes
<1>. QED
  BY <1>1, <1>2, <1>3 DEF GhostInv, DirAsked, FaceAsked, KeyAsked

LEMMA ReadKeepsAsked ==
  ASSUME GhostInv, NEW p \in BtPads, NEW n \in 1..Len(queue[p]), BtRead(p, n)
  PROVE  GhostInv'
<1>0. PadInv /\ PadInv' /\ HatByte(bt[p].bbyte)
  BY ReadKeeps DEF GhostInv
<1>1. PICK b \in BtState :
        /\ b.bbyte = bt[p].bbyte
        /\ bt' = [bt EXCEPT ![p] = [b EXCEPT
                    !.bbyte = IF Candidates(b) # <<>> THEN Candidates(b)[1] ELSE @,
                    !.prev = ToSet(b.usage)]]
        /\ Keyboard([i \in 1..4 |-> i \in BtDirs(b.mods, Candidates(b))],
                    IF Candidates(b) # <<>> THEN Face(Candidates(b)[1]) ELSE btn_prev, down)
        /\ queue' = [queue EXCEPT ![p] = SubSeq(@, n + 1, Len(@))]
        /\ UNCHANGED physical
  BY <1>0, ReadEffect
<1>. DEFINE button == Candidates(b)
<1>2. /\ bt'[p].mods = b.mods /\ bt'[p].usage = b.usage
      /\ bt'[p].bbyte = IF button # <<>> THEN button[1] ELSE b.bbyte
      /\ \A o \in BtPads : o # p => bt'[o] = bt[o]
      /\ pos' = pos /\ held' = held
  BY <1>0, <1>1 DEF PadInv, PadTypes, BtState, physical
<1>3. \A o \in UsbPads : queue'[o] = queue[o]
  BY <1>0, <1>1, PadsAssumption DEF PadInv, PadTypes
<1>4. /\ dirstate' = [i \in 1..4 |-> i \in BtDirs(b.mods, button)]
      /\ btn_prev' = IF button # <<>> THEN Face(button[1]) ELSE btn_prev
      /\ Keyboard(dirstate', btn_prev', down)
  BY <1>1 DEF Keyboard
<1>5. \A u : Settled(b.usage, u) => button = <<u>>
  BY <1>0, <1>1, CandidatesSettle
<1>6. button = <<>> \/ \E u \in Usages : button = <<u>> /\ (u = b.bbyte \/ HatByte(u))
  BY CandidatesShape
<1>. HIDE DEF button
<1>7. ASSUME NEW o \in BtPads PROVE HatByte(bt'[o].bbyte)
  BY <1>0, <1>1, <1>2, <1>6 DEF GhostInv
<1>8. ASSUME NEW i \in 1..4, dirstate'[i] PROVE DirAsked(i)'
  <2>1. i \in BtDirs(b.mods, button)
    BY <1>4, <1>8
  <2>2. BtDir(bt'[p], i)
    BY <1>2, <1>5, <2>1 DEF BtDir
  <2>. QED
    BY <2>2 DEF DirAsked
<1>9. ASSUME NEW i \in 1..4, btn_prev'[i] PROVE FaceAsked(i)'
  <2>1. CASE button # <<>>
    <3>1. PICK v : button = <<v>>
      BY <1>6, <2>1
    <3>2. Face(v)[i] /\ \A u : Settled(b.usage, u) => u = v
      BY <1>4, <1>5, <1>9, <2>1, <3>1
    <3>3. BtFace(bt'[p], i)
      BY <1>2, <3>2 DEF BtFace
    <3>. QED
      BY <3>3 DEF FaceAsked
  <2>2. CASE button = <<>>
    <3>1. PICK o \in BtPads : BtFace(bt[o], i)
      BY <1>4, <1>9, <2>2 DEF GhostInv, FaceAsked
    <3>2. CASE o # p
      BY <1>2, <3>1, <3>2 DEF FaceAsked
    <3>3. CASE o = p
      <4>1. \A u : ~Settled(b.usage, u)
        BY <1>5, <2>2
      <4>2. BtFace(bt'[p], i)
        BY <1>2, <4>1 DEF BtFace
      <4>. QED
        BY <4>2 DEF FaceAsked
    <3>. QED
      BY <3>2, <3>3
  <2>. QED
    BY <2>1, <2>2
<1>10. ASSUME NEW k \in down' PROVE KeyAsked(k)'
  <2>1. KeyOn(k, dirstate', btn_prev') \/ (k \in down /\ ~KeyOn(k, dirstate, btn_prev))
    BY <1>4, KeyboardKeeps
  <2>. QED
    BY <1>2, <1>3, <2>1 DEF GhostInv, KeyAsked
<1>11. \A o \in UsbPads : Matches(queue'[o], pos'[o], held'[o])
  BY <1>2, <1>3 DEF GhostInv
<1>. QED
  BY <1>0, <1>7, <1>8, <1>9, <1>10, <1>11 DEF GhostInv

(* The shared keyboard keeps no key that no pad asks for once the          *)
(* Bluetooth pads are at rest, whatever their sticks have sent before and  *)
(* however the events of the pads are ordered and read.                    *)
THEOREM KeysCorrect == Spec => []GhostsEndAtRest
<1>1. GhostInv /\ [Next]_vars => GhostInv'
  <2>1. SUFFICES ASSUME GhostInv, [Next]_vars PROVE GhostInv'
    OBVIOUS
  <2>2. ASSUME NEW p \in BtPads, NEW m \in Byte0s, NEW u \in ButtonBytes, NEW s \in StickBytes,
               SendReport(p, [mods |-> m, button |-> u, stick |-> s])
        PROVE  GhostInv'
    <3>1. [mods |-> m, button |-> u, stick |-> s] \in Reports
      BY DEF Reports
    <3>. QED
      BY <2>1, <2>2, <3>1, SendKeepsAsked
  <2>3. ASSUME NEW p \in BtPads, NEW n \in 1..Room[p], BtRead(p, n) PROVE GhostInv'
    <3>1. n \in 1..Len(queue[p])
      BY <2>3 DEF BtRead
    <3>. QED
      BY <2>1, <2>3, <3>1, ReadKeepsAsked
  <2>4. CASE UNCHANGED vars
    <3>1. PadInv'
      BY <2>1, <2>4 DEF vars, physical, GhostInv, PadInv, PadTypes, Reconstructed, OnAt, Sent, UsbMsg
    <3>. QED
      BY <2>1, <2>4, <3>1 DEF vars, physical, GhostInv, DirAsked, FaceAsked, KeyAsked
  <2>. QED
    BY <2>1, <2>2, <2>3, <2>4, MoveKeepsAsked, PressKeepsAsked, EventKeepsAsked DEF Next
<1>2. GhostInv => GhostsEndAtRest
  <2>1. SUFFICES ASSUME GhostInv, Drained, \A p \in BtPads : AtRest(p), NEW k \in down
                 PROVE  \/ \E p \in UsbPads : k \in UsbAsks(p)
                        \/ \E p \in BtPads : k \in BtAsks(p)
    BY DEF GhostsEndAtRest, Asked
  <2>. DEFINE known(p) == Told(report[p].button)
  <2>2. \A p \in UsbPads : queue[p] = <<>> /\ Len(queue[p]) = 0
    BY <2>1 DEF Drained
  <2>3. ASSUME NEW p \in UsbPads, NEW t, NEW c PROVE ~Pending(queue[p], t, c)
    BY <2>2 DEF Pending
  <2>4. KeyAsked(k)
    BY <2>1 DEF GhostInv
  <2>5. ASSUME NEW p \in BtPads PROVE Settled(bt[p].usage, known(p))
    <3>1. ToSet(bt[p].usage) = {Usage(c) : c \in Keys(report[p]) \ early[p]}
      BY <2>1, UsagesExact DEF GhostInv, UsagesTrackReport
    <3>2. /\ Transmitted(report[p].button) /\ Keycode[report[p].button] \notin early[p]
          /\ known(p) % 16 = 8
          /\ ~(Transmitted(report[p].stick) /\ HatByte(Told(report[p].stick)))
      BY <2>1 DEF AtRest, Heard
    <3>3. known(p) \in ToSet(bt[p].usage)
      BY <3>1, <3>2 DEF Keys, Told, Transmitted
    <3>4. ASSUME NEW w \in ToSet(bt[p].usage), HatByte(w) PROVE w = known(p)
      <4>1. PICK v \in {report[p].button, report[p].stick} : Keycode[v] # 0 /\ w = Usage(Keycode[v])
        BY <3>1 DEF Keys
      <4>. QED
        BY <3>2, <3>4, <4>1 DEF Told, Transmitted
    <3>. QED
      BY <3>2, <3>3, <3>4 DEF Settled
  <2>6. ASSUME NEW p \in BtPads
        PROVE  BtAsks(p) = {DirKeys[i] : i \in BtDirs(bt[p].mods, <<known(p)>>)}
                           \cup {FaceKeys[i] : i \in {j \in 1..4 : Face(known(p))[j]}}
    <3>1. Transmitted(report[p].button)
      BY <2>1 DEF AtRest, Heard
    <3>2. <<known(p)>> # <<>> /\ <<known(p)>>[1] = known(p)
      OBVIOUS
    <3>. QED
      BY <3>1, <3>2 DEF BtAsks, Told
  <2>. HIDE DEF known
  <2>7. ASSUME NEW i \in 1..4, DirKeys[i] = k, dirstate[i]
        PROVE  \/ \E p \in UsbPads : k \in UsbAsks(p)
               \/ \E p \in BtPads : k \in BtAsks(p)
    <3>1. DirAsked(i)
      BY <2>1, <2>7 DEF GhostInv
    <3>2. CASE \E p \in UsbPads : \E a \in Axes[p] : AxisAsks(i, queue[p], a, pos[p])
      BY <2>3, <2>7, <3>2 DEF AxisAsks, UsbAsks
    <3>3. CASE \E p \in BtPads : BtDir(bt[p], i)
      <4>1. PICK p \in BtPads : i \in BtDirs(bt[p].mods, <<known(p)>>)
        BY <2>5, <3>3 DEF BtDir
      <4>. QED
        BY <2>6, <2>7, <4>1
    <3>. QED
      BY <3>1, <3>2, <3>3 DEF DirAsked
  <2>8. ASSUME NEW i \in 1..4, FaceKeys[i] = k, btn_prev[i]
        PROVE  \E p \in BtPads : k \in BtAsks(p)
    <3>1. PICK p \in BtPads : BtFace(bt[p], i)
      BY <2>1, <2>8 DEF GhostInv, FaceAsked
    <3>2. Face(known(p))[i]
      BY <2>5, <3>1 DEF BtFace
    <3>. QED
      BY <2>6, <2>8, <3>2
  <2>9. ASSUME NEW p \in UsbPads, NEW c \in Buttons[p], ButtonAsks(k, queue[p], c, held[p])
        PROVE  k \in UsbAsks(p)
    BY <2>3, <2>9 DEF ButtonAsks, UsbAsks
  <2>. QED
    BY <2>4, <2>7, <2>8, <2>9 DEF KeyAsked, KeyOn
<1>. QED
  BY <1>1, <1>2, GhostInit, PTL DEF Spec
=============================================================================
