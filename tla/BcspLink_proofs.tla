--------------------------- MODULE BcspLink_proofs ---------------------------
(***************************************************************************)
(* Proofs about BcspLink, for any timeout, any buffer, any number of       *)
(* packets and any number of frames and bytes lost on the line.            *)
(***************************************************************************)
EXTENDS BcspLink, SequenceTheorems, FiniteSetTheorems, WellFoundedInduction, TLAPS

(* Induction up to n, for a set of numbers.                                *)
LEMMA Least ==
  ASSUME NEW T \in SUBSET Nat, T # {}
  PROVE  \E m \in T : \A k \in T : m <= k
<1>. DEFINE R == {ss \in Nat \X Nat : ss[1] < ss[2]}
<1>1. IsWellFoundedOn(R, Nat)
  BY NatLessThanWellFounded DEF OpToRel
<1>2. PICK m \in T : \A k \in T : ~(<<k, m>> \in R)
  <2>. HIDE DEF R
  <2>. QED
    BY <1>1, WFMin
<1>3. ASSUME NEW k \in T PROVE m <= k
  <2>1. <<k, m>> \in Nat \X Nat /\ ~(k < m)
    BY <1>2
  <2>. QED
    BY <2>1
<1>. QED
  BY <1>3

LEMMA UpTo ==
  ASSUME NEW n \in Nat, NEW T, 0 \in T, \A k \in 0..(n - 1) : k \in T => k + 1 \in T
  PROVE  \A k \in 0..n : k \in T
<1>. DEFINE Bad == {k \in 0..n : k \notin T}
<1>1. SUFFICES ASSUME Bad # {} PROVE FALSE
  OBVIOUS
<1>2. Bad \in SUBSET Nat
  OBVIOUS
<1>3. PICK m \in Bad : \A k \in Bad : m <= k
  <2>. HIDE DEF Bad
  <2>. QED
    BY <1>1, <1>2, Least
<1>4. m # 0 /\ m - 1 \in 0..(n - 1) /\ m - 1 \notin Bad /\ (m - 1) + 1 = m
  BY <1>3
<1>. QED
  BY <1>4

-----------------------------------------------------------------------------
(* The recursive functions of the model have the values that their         *)
(* equations say: the escaped bytes, ...                                   *)
Slipped(g, bytes, n) ==
  g = [k \in 0..n |-> IF k = 0 THEN <<>> ELSE SlipPut(g[k - 1], bytes[k])]

LEMMA SlipDefined ==
  ASSUME NEW bytes, NEW n \in Nat
  PROVE  \E g : Slipped(g, bytes, n)
<1>. DEFINE T == {m \in Nat : \E f : Slipped(f, bytes, m)}
<1>1. 0 \in T
  <2>. DEFINE f == [k \in 0..0 |-> <<>>]
  <2>1. f = [k \in 0..0 |-> IF k = 0 THEN <<>> ELSE SlipPut(f[k - 1], bytes[k])]
    OBVIOUS
  <2>. HIDE DEF f
  <2>. QED
    BY <2>1 DEF Slipped
<1>2. ASSUME NEW m \in 0..(n - 1), m \in T PROVE m + 1 \in T
  <2>1. PICK f : Slipped(f, bytes, m)
    BY <1>2
  <2>. DEFINE h == [k \in 0..(m + 1) |-> IF k = m + 1 THEN SlipPut(f[m], bytes[m + 1]) ELSE f[k]]
  <2>2. h[m + 1] = SlipPut(f[m], bytes[m + 1]) /\ \A k \in 0..m : h[k] = f[k]
    OBVIOUS
  <2>3. h = [k \in 0..(m + 1) |-> h[k]]
    OBVIOUS
  <2>. HIDE DEF h
  <2>4. \A k \in 0..m : f[k] = IF k = 0 THEN <<>> ELSE SlipPut(f[k - 1], bytes[k])
    BY <2>1 DEF Slipped
  <2>5. \A k \in 0..(m + 1) : h[k] = IF k = 0 THEN <<>> ELSE SlipPut(h[k - 1], bytes[k])
    BY <1>2, <2>2, <2>4
  <2>6. h = [k \in 0..(m + 1) |-> IF k = 0 THEN <<>> ELSE SlipPut(h[k - 1], bytes[k])]
    BY <2>3, <2>5
  <2>. QED
    BY <1>2, <2>6 DEF Slipped
<1>3. \A k \in 0..n : k \in T
  <2>. HIDE DEF T
  <2>. QED
    BY <1>1, <1>2, UpTo
<1>. QED
  BY <1>3

(* ... the receiver after each byte, ...                                   *)
Plain(out) == [esc |-> FALSE, out |-> out]

Unslipped(g, bytes, n) ==
  g = [k \in 0..n |-> IF k = 0 THEN Plain(<<>>) ELSE UnslipByte(g[k - 1], bytes[k])]

LEMMA UnslipDefined ==
  ASSUME NEW bytes, NEW n \in Nat
  PROVE  \E g : Unslipped(g, bytes, n)
<1>. DEFINE T == {m \in Nat : \E f : Unslipped(f, bytes, m)}
<1>1. 0 \in T
  <2>. DEFINE f == [k \in 0..0 |-> Plain(<<>>)]
  <2>1. f = [k \in 0..0 |-> IF k = 0 THEN Plain(<<>>) ELSE UnslipByte(f[k - 1], bytes[k])]
    OBVIOUS
  <2>. HIDE DEF f
  <2>. QED
    BY <2>1 DEF Unslipped
<1>2. ASSUME NEW m \in 0..(n - 1), m \in T PROVE m + 1 \in T
  <2>1. PICK f : Unslipped(f, bytes, m)
    BY <1>2
  <2>. DEFINE h == [k \in 0..(m + 1) |-> IF k = m + 1 THEN UnslipByte(f[m], bytes[m + 1]) ELSE f[k]]
  <2>2. h[m + 1] = UnslipByte(f[m], bytes[m + 1]) /\ \A k \in 0..m : h[k] = f[k]
    OBVIOUS
  <2>3. h = [k \in 0..(m + 1) |-> h[k]]
    OBVIOUS
  <2>. HIDE DEF h
  <2>4. \A k \in 0..m : f[k] = IF k = 0 THEN Plain(<<>>) ELSE UnslipByte(f[k - 1], bytes[k])
    BY <2>1 DEF Unslipped
  <2>5. \A k \in 0..(m + 1) : h[k] = IF k = 0 THEN Plain(<<>>) ELSE UnslipByte(h[k - 1], bytes[k])
    BY <1>2, <2>2, <2>4
  <2>6. h = [k \in 0..(m + 1) |-> IF k = 0 THEN Plain(<<>>) ELSE UnslipByte(h[k - 1], bytes[k])]
    BY <2>3, <2>5
  <2>. QED
    BY <1>2, <2>6 DEF Unslipped
<1>3. \A k \in 0..n : k \in T
  <2>. HIDE DEF T
  <2>. QED
    BY <1>1, <1>2, UpTo
<1>. QED
  BY <1>3

(* ... the frames with up to n bytes missing, ...                          *)
Shorter(S) == S \cup UNION {{RemoveAt(b, n) : n \in DOMAIN b} : b \in S}

Less(g, frame, n) ==
  g = [k \in 0..n |-> IF k = 0 THEN {frame} ELSE Shorter(g[k - 1])]

LEMMA LessDefined ==
  ASSUME NEW frame, NEW n \in Nat
  PROVE  \E g : Less(g, frame, n)
<1>. DEFINE T == {m \in Nat : \E f : Less(f, frame, m)}
<1>1. 0 \in T
  <2>. DEFINE f == [k \in 0..0 |-> {frame}]
  <2>1. f = [k \in 0..0 |-> IF k = 0 THEN {frame} ELSE Shorter(f[k - 1])]
    OBVIOUS
  <2>. HIDE DEF f
  <2>. QED
    BY <2>1 DEF Less
<1>2. ASSUME NEW m \in 0..(n - 1), m \in T PROVE m + 1 \in T
  <2>1. PICK f : Less(f, frame, m)
    BY <1>2
  <2>. DEFINE h == [k \in 0..(m + 1) |-> IF k = m + 1 THEN Shorter(f[m]) ELSE f[k]]
  <2>2. h[m + 1] = Shorter(f[m]) /\ \A k \in 0..m : h[k] = f[k]
    OBVIOUS
  <2>3. h = [k \in 0..(m + 1) |-> h[k]]
    OBVIOUS
  <2>. HIDE DEF h
  <2>4. \A k \in 0..m : f[k] = IF k = 0 THEN {frame} ELSE Shorter(f[k - 1])
    BY <2>1 DEF Less
  <2>5. \A k \in 0..(m + 1) : h[k] = IF k = 0 THEN {frame} ELSE Shorter(h[k - 1])
    BY <1>2, <2>2, <2>4
  <2>6. h = [k \in 0..(m + 1) |-> IF k = 0 THEN {frame} ELSE Shorter(h[k - 1])]
    BY <2>3, <2>5
  <2>. QED
    BY <1>2, <2>6 DEF Less
<1>3. \A k \in 0..n : k \in T
  <2>. HIDE DEF T
  <2>. QED
    BY <1>1, <1>2, UpTo
<1>. QED
  BY <1>3

(* ... the handshake after each byte of a read, ...                        *)
Taken(S, b) == {TakeByte(h, b) : h \in S}

AfterBytes(g, h0, bytes, n) ==
  g = [k \in 0..n |-> IF k = 0 THEN {h0} ELSE Taken(g[k - 1], bytes[k])]

LEMMA AfterBytesDefined ==
  ASSUME NEW h0, NEW bytes, NEW n \in Nat
  PROVE  \E g : AfterBytes(g, h0, bytes, n)
<1>. DEFINE T == {m \in Nat : \E f : AfterBytes(f, h0, bytes, m)}
<1>1. 0 \in T
  <2>. DEFINE f == [k \in 0..0 |-> {h0}]
  <2>1. f = [k \in 0..0 |-> IF k = 0 THEN {h0} ELSE Taken(f[k - 1], bytes[k])]
    OBVIOUS
  <2>. HIDE DEF f
  <2>. QED
    BY <2>1 DEF AfterBytes
<1>2. ASSUME NEW m \in 0..(n - 1), m \in T PROVE m + 1 \in T
  <2>1. PICK f : AfterBytes(f, h0, bytes, m)
    BY <1>2
  <2>. DEFINE h == [k \in 0..(m + 1) |-> IF k = m + 1 THEN Taken(f[m], bytes[m + 1]) ELSE f[k]]
  <2>2. h[m + 1] = Taken(f[m], bytes[m + 1]) /\ \A k \in 0..m : h[k] = f[k]
    OBVIOUS
  <2>3. h = [k \in 0..(m + 1) |-> h[k]]
    OBVIOUS
  <2>. HIDE DEF h
  <2>4. \A k \in 0..m : f[k] = IF k = 0 THEN {h0} ELSE Taken(f[k - 1], bytes[k])
    BY <2>1 DEF AfterBytes
  <2>5. \A k \in 0..(m + 1) : h[k] = IF k = 0 THEN {h0} ELSE Taken(h[k - 1], bytes[k])
    BY <1>2, <2>2, <2>4
  <2>6. h = [k \in 0..(m + 1) |-> IF k = 0 THEN {h0} ELSE Taken(h[k - 1], bytes[k])]
    BY <2>3, <2>5
  <2>. QED
    BY <1>2, <2>6 DEF AfterBytes
<1>3. \A k \in 0..n : k \in T
  <2>. HIDE DEF T
  <2>. QED
    BY <1>1, <1>2, UpTo
<1>. QED
  BY <1>3

(* ... and the kernel after each byte of the relay.                        *)
Heard(S, b) == {KernelHear(s, b) : s \in S}

KernelAfter(g, k0, bytes, n) ==
  g = [k \in 0..n |-> IF k = 0 THEN {k0} ELSE Heard(g[k - 1], bytes[k])]

LEMMA KernelAfterDefined ==
  ASSUME NEW k0, NEW bytes, NEW n \in Nat
  PROVE  \E g : KernelAfter(g, k0, bytes, n)
<1>. DEFINE T == {m \in Nat : \E f : KernelAfter(f, k0, bytes, m)}
<1>1. 0 \in T
  <2>. DEFINE f == [k \in 0..0 |-> {k0}]
  <2>1. f = [k \in 0..0 |-> IF k = 0 THEN {k0} ELSE Heard(f[k - 1], bytes[k])]
    OBVIOUS
  <2>. HIDE DEF f
  <2>. QED
    BY <2>1 DEF KernelAfter
<1>2. ASSUME NEW m \in 0..(n - 1), m \in T PROVE m + 1 \in T
  <2>1. PICK f : KernelAfter(f, k0, bytes, m)
    BY <1>2
  <2>. DEFINE h == [k \in 0..(m + 1) |-> IF k = m + 1 THEN Heard(f[m], bytes[m + 1]) ELSE f[k]]
  <2>2. h[m + 1] = Heard(f[m], bytes[m + 1]) /\ \A k \in 0..m : h[k] = f[k]
    OBVIOUS
  <2>3. h = [k \in 0..(m + 1) |-> h[k]]
    OBVIOUS
  <2>. HIDE DEF h
  <2>4. \A k \in 0..m : f[k] = IF k = 0 THEN {k0} ELSE Heard(f[k - 1], bytes[k])
    BY <2>1 DEF KernelAfter
  <2>5. \A k \in 0..(m + 1) : h[k] = IF k = 0 THEN {k0} ELSE Heard(h[k - 1], bytes[k])
    BY <1>2, <2>2, <2>4
  <2>6. h = [k \in 0..(m + 1) |-> IF k = 0 THEN {k0} ELSE Heard(h[k - 1], bytes[k])]
    BY <2>3, <2>5
  <2>. QED
    BY <1>2, <2>6 DEF KernelAfter
<1>3. \A k \in 0..n : k \in T
  <2>. HIDE DEF T
  <2>. QED
    BY <1>1, <1>2, UpTo
<1>. QED
  BY <1>3


(* The two CRCs after each byte and after each bit.                        *)
CrcAfter(g, bytes, n) ==
  g = [k \in 0..n |-> IF k = 0 THEN 0..15 ELSE CrcUpdate(g[k - 1], bytes[k])]

LEMMA CrcAfterDefined ==
  ASSUME NEW bytes, NEW n \in Nat
  PROVE  \E g : CrcAfter(g, bytes, n)
<1>. DEFINE T == {m \in Nat : \E f : CrcAfter(f, bytes, m)}
<1>1. 0 \in T
  <2>. DEFINE f == [k \in 0..0 |-> 0..15]
  <2>1. f = [k \in 0..0 |-> IF k = 0 THEN 0..15 ELSE CrcUpdate(f[k - 1], bytes[k])]
    OBVIOUS
  <2>. HIDE DEF f
  <2>. QED
    BY <2>1 DEF CrcAfter
<1>2. ASSUME NEW m \in 0..(n - 1), m \in T PROVE m + 1 \in T
  <2>1. PICK f : CrcAfter(f, bytes, m)
    BY <1>2
  <2>. DEFINE h == [k \in 0..(m + 1) |-> IF k = m + 1 THEN CrcUpdate(f[m], bytes[m + 1]) ELSE f[k]]
  <2>2. h[m + 1] = CrcUpdate(f[m], bytes[m + 1]) /\ \A k \in 0..m : h[k] = f[k]
    OBVIOUS
  <2>3. h = [k \in 0..(m + 1) |-> h[k]]
    OBVIOUS
  <2>. HIDE DEF h
  <2>4. \A k \in 0..m : f[k] = IF k = 0 THEN 0..15 ELSE CrcUpdate(f[k - 1], bytes[k])
    BY <2>1 DEF CrcAfter
  <2>5. \A k \in 0..(m + 1) : h[k] = IF k = 0 THEN 0..15 ELSE CrcUpdate(h[k - 1], bytes[k])
    BY <1>2, <2>2, <2>4
  <2>6. h = [k \in 0..(m + 1) |-> IF k = 0 THEN 0..15 ELSE CrcUpdate(h[k - 1], bytes[k])]
    BY <2>3, <2>5
  <2>. QED
    BY <1>2, <2>6 DEF CrcAfter
<1>3. \A k \in 0..n : k \in T
  <2>. HIDE DEF T
  <2>. QED
    BY <1>1, <1>2, UpTo
<1>. QED
  BY <1>3

Shifted(r, bytes, k) == Crc16Shift(r, bytes[((k - 1) \div 8) + 1], (k - 1) % 8)

Crc16After(g, bytes, n) ==
  g = [k \in 0..n |-> IF k = 0 THEN 0..15 ELSE Shifted(g[k - 1], bytes, k)]

LEMMA Crc16AfterDefined ==
  ASSUME NEW bytes, NEW n \in Nat
  PROVE  \E g : Crc16After(g, bytes, n)
<1>. DEFINE T == {m \in Nat : \E f : Crc16After(f, bytes, m)}
<1>1. 0 \in T
  <2>. DEFINE f == [k \in 0..0 |-> 0..15]
  <2>1. f = [k \in 0..0 |-> IF k = 0 THEN 0..15 ELSE Shifted(f[k - 1], bytes, k)]
    OBVIOUS
  <2>. HIDE DEF f
  <2>. QED
    BY <2>1 DEF Crc16After
<1>2. ASSUME NEW m \in 0..(n - 1), m \in T PROVE m + 1 \in T
  <2>1. PICK f : Crc16After(f, bytes, m)
    BY <1>2
  <2>. DEFINE h == [k \in 0..(m + 1) |-> IF k = m + 1 THEN Shifted(f[m], bytes, m + 1) ELSE f[k]]
  <2>2. h[m + 1] = Shifted(f[m], bytes, m + 1) /\ \A k \in 0..m : h[k] = f[k]
    OBVIOUS
  <2>3. h = [k \in 0..(m + 1) |-> h[k]]
    OBVIOUS
  <2>. HIDE DEF h
  <2>4. \A k \in 0..m : f[k] = IF k = 0 THEN 0..15 ELSE Shifted(f[k - 1], bytes, k)
    BY <2>1 DEF Crc16After
  <2>5. \A k \in 0..(m + 1) : h[k] = IF k = 0 THEN 0..15 ELSE Shifted(h[k - 1], bytes, k)
    BY <1>2, <2>2, <2>4
  <2>6. h = [k \in 0..(m + 1) |-> IF k = 0 THEN 0..15 ELSE Shifted(h[k - 1], bytes, k)]
    BY <2>3, <2>5
  <2>. QED
    BY <1>2, <2>6 DEF Crc16After
<1>3. \A k \in 0..n : k \in T
  <2>. HIDE DEF T
  <2>. QED
    BY <1>1, <1>2, UpTo
<1>. QED
  BY <1>3


LEMMA SlipIs ==
  ASSUME NEW bytes, Len(bytes) \in Nat
  PROVE  \E g : Slipped(g, bytes, Len(bytes)) /\ Slip(bytes) = g[Len(bytes)]
<1>. DEFINE g == CHOOSE f : Slipped(f, bytes, Len(bytes))
<1>1. Slipped(g, bytes, Len(bytes))
  BY SlipDefined
<1>2. Slip(bytes) = g[Len(bytes)]
  BY DEF Slip, Slipped
<1>. QED
  BY <1>1, <1>2

LEMMA UnslipIs ==
  ASSUME NEW bytes, Len(bytes) \in Nat
  PROVE  \E g : Unslipped(g, bytes, Len(bytes)) /\ Unslip(bytes) = g[Len(bytes)].out
<1>. DEFINE g == CHOOSE f : Unslipped(f, bytes, Len(bytes))
<1>1. Unslipped(g, bytes, Len(bytes))
  BY UnslipDefined
<1>2. Unslip(bytes) = g[Len(bytes)].out
  BY DEF Unslip, Unslipped, Plain
<1>. QED
  BY <1>1, <1>2

LEMMA LossyIs ==
  ASSUME NEW frame
  PROVE  \E g : Less(g, frame, MaxMissing) /\ Lossy(frame) = g[MaxMissing]
<1>. DEFINE g == CHOOSE f : Less(f, frame, MaxMissing)
<1>1. Less(g, frame, MaxMissing)
  BY LessDefined, BoundsAssumption
<1>2. Lossy(frame) = g[MaxMissing]
  BY DEF Lossy, Less, Shorter
<1>. QED
  BY <1>1, <1>2

(* What a read starts from.                                                *)
AtRead == [le |-> le, state |-> state, replies |-> <<>>, active |-> FALSE,
           heard |-> [p \in Packets |-> 0]]

LEMMA ReadIs ==
  ASSUME Read
  PROVE  \E n \in Available : \E g : AfterBytes(g, AtRead, toHost, n) /\ \E h \in g[n] :
           /\ le' = h.le /\ state' = h.state
           /\ toChip' = toChip \o [i \in DOMAIN h.replies |-> Understood[h.replies[i]]]
           /\ linked' = h.active
           /\ phase' = IF h.active THEN "relay" ELSE "send"
           /\ unheard' = [p \in Packets |-> unheard[p] - h.heard[p]]
           /\ toHost' = SubSeq(toHost, n + 1, Len(toHost))
<1>1. PICK n \in Available :
       LET after[k \in 0..n] ==
             IF k = 0 THEN {[le |-> le, state |-> state, replies |-> <<>>, active |-> FALSE,
                             heard |-> [p \in Packets |-> 0]]}
             ELSE {TakeByte(h, toHost[k]) : h \in after[k - 1]}
       IN  \E h \in after[n] :
             /\ le' = h.le /\ state' = h.state
             /\ toChip' = toChip \o [i \in DOMAIN h.replies |-> Understood[h.replies[i]]]
             /\ linked' = h.active
             /\ phase' = IF h.active THEN "relay" ELSE "send"
             /\ unheard' = [p \in Packets |-> unheard[p] - h.heard[p]]
             /\ toHost' = SubSeq(toHost, n + 1, Len(toHost))
  BY DEF Read
<1>. DEFINE g == CHOOSE f : AfterBytes(f, AtRead, toHost, n)
<1>2. n \in Nat
  BY DEF Available
<1>3. AfterBytes(g, AtRead, toHost, n)
  BY <1>2, AfterBytesDefined
<1>4. \E h \in g[n] :
             /\ le' = h.le /\ state' = h.state
             /\ toChip' = toChip \o [i \in DOMAIN h.replies |-> Understood[h.replies[i]]]
             /\ linked' = h.active
             /\ phase' = IF h.active THEN "relay" ELSE "send"
             /\ unheard' = [p \in Packets |-> unheard[p] - h.heard[p]]
             /\ toHost' = SubSeq(toHost, n + 1, Len(toHost))
  BY <1>1 DEF AfterBytes, Taken, AtRead
<1>. QED
  BY <1>3, <1>4

LEMMA RelayUpIs ==
  ASSUME RelayUp
  PROVE  \E n \in Available : \E g :
           /\ KernelAfter(g, kernel, toHost, n) /\ kernel' \in g[n]
           /\ toHost' = SubSeq(toHost, n + 1, Len(toHost))
<1>1. PICK n \in Available :
       /\ LET after[k \in 0..n] ==
                IF k = 0 THEN {kernel} ELSE {KernelHear(s, toHost[k]) : s \in after[k - 1]}
          IN  kernel' \in after[n]
       /\ toHost' = SubSeq(toHost, n + 1, Len(toHost))
  BY DEF RelayUp
<1>. DEFINE g == CHOOSE f : KernelAfter(f, kernel, toHost, n)
<1>2. n \in Nat
  BY DEF Available
<1>3. KernelAfter(g, kernel, toHost, n)
  BY <1>2, KernelAfterDefined
<1>4. kernel' \in g[n]
  BY <1>1 DEF KernelAfter, Heard
<1>. QED
  BY <1>1, <1>3, <1>4

-----------------------------------------------------------------------------
(* What a receiver unescapes of a frame does not depend on what follows.   *)
LEMMA UnslipPrefix ==
  ASSUME NEW S, NEW s \in Seq(S), NEW t \in Seq(S), NEW g, NEW h,
         Unslipped(g, s, Len(s)), Unslipped(h, s \o t, Len(s \o t))
  PROVE  \A k \in 0..Len(s) : h[k] = g[k]
<1>1. /\ Len(s) \in Nat /\ Len(t) \in Nat /\ Len(s \o t) = Len(s) + Len(t)
      /\ \A k \in 1..Len(s) : (s \o t)[k] = s[k]
  BY ConcatProperties, LenProperties
<1>. DEFINE T == {k \in 0..Len(s) : h[k] = g[k]}
<1>2. 0 \in T
  BY <1>1 DEF Unslipped
<1>3. ASSUME NEW k \in 0..(Len(s) - 1), k \in T PROVE k + 1 \in T
  <2>1. /\ k + 1 \in 0..Len(s) /\ k + 1 \in 0..Len(s \o t) /\ k + 1 # 0 /\ (k + 1) - 1 = k
        /\ (s \o t)[k + 1] = s[k + 1]
    BY <1>1
  <2>2. g[k + 1] = UnslipByte(g[k], s[k + 1])
    BY <2>1 DEF Unslipped
  <2>3. h[k + 1] = UnslipByte(h[k], s[k + 1])
    BY <2>1 DEF Unslipped
  <2>. QED
    BY <1>3, <2>1, <2>2, <2>3
<1>. QED
  <2>. HIDE DEF T
  <2>1. \A k \in 0..Len(s) : k \in T
    BY <1>1, <1>2, <1>3, UpTo
  <2>. QED
    BY <2>1 DEF T

LEMMA UnslipPlain ==
  ASSUME NEW out, NEW b
  PROVE  /\ b # ESC => UnslipByte(Plain(out), b) = Plain(Append(out, b))
         /\ UnslipByte(UnslipByte(Plain(out), ESC), b) = Plain(Append(out, Unescaped(b)))
<1>1. ~Plain(out).esc /\ Plain(out).out = out
  BY DEF Plain
<1>2. b # ESC => UnslipByte(Plain(out), b) = Plain(Append(out, b))
  BY <1>1 DEF UnslipByte, Plain
<1>. DEFINE u == [Plain(out) EXCEPT !.esc = TRUE]
<1>3. UnslipByte(Plain(out), ESC) = u
  BY <1>1 DEF UnslipByte
<1>4. u.esc /\ u.out = out
  BY DEF Plain
<1>5. UnslipByte(u, b) = Plain(Append(out, Unescaped(b)))
  <2>. HIDE DEF u
  <2>. QED
    BY <1>4 DEF UnslipByte, Plain
<1>. QED
  BY <1>2, <1>3, <1>5

LEMMA FirstOf ==
  ASSUME NEW n, n = 1 \/ n = 2
  PROVE  1 \in 1..n
OBVIOUS

(* One byte of the contents comes back from its one or two on the line.    *)
LEMMA UnslipPut ==
  ASSUME NEW S, {END, ESC, 220, 221} \subseteq S, NEW s \in Seq(S), NEW b \in S, NEW out,
         NEW g, NEW h, Unslipped(g, s, Len(s)), g[Len(s)] = Plain(out),
         Unslipped(h, SlipPut(s, b), Len(SlipPut(s, b)))
  PROVE  /\ SlipPut(s, b) \in Seq(S)
         /\ h[Len(SlipPut(s, b))] = Plain(Append(out, b))
<1>. DEFINE e == IF b = END THEN <<ESC, 220>> ELSE IF b = ESC THEN <<ESC, 221>> ELSE <<b>>
            L == Len(s)
<1>1. e \in Seq(S) /\ SlipPut(s, b) = s \o e
  BY DEF SlipPut
<1>2. /\ s \o e \in Seq(S) /\ L \in Nat /\ Len(e) \in {1, 2} /\ Len(s \o e) = L + Len(e)
      /\ \A k \in 1..Len(e) : (s \o e)[L + k] = e[k]
  <2>1. Len(e) \in {1, 2}
    OBVIOUS
  <2>2. Len(s \o e) = L + Len(e) /\ s \o e \in Seq(S)
        /\ \A k \in 1..Len(s \o e) : (s \o e)[k] = IF k <= L THEN s[k] ELSE e[k - L]
    <3>. HIDE DEF e
    <3>. QED
      BY <1>1, ConcatProperties
  <2>3. L \in Nat
    BY LenProperties
  <2>4. ASSUME NEW k \in 1..Len(e) PROVE (s \o e)[L + k] = e[k]
    <3>. HIDE DEF e
    <3>1. L + k \in 1..Len(s \o e) /\ ~(L + k <= L) /\ (L + k) - L = k
      BY <2>1, <2>2, <2>3
    <3>. QED
      BY <2>2, <3>1
  <2>. QED
    BY <2>1, <2>2, <2>3, <2>4
<1>3. h[L] = Plain(out)
  <2>1. \A k \in 0..Len(s) : h[k] = g[k]
    <3>. HIDE DEF e
    <3>. QED
      BY <1>1, UnslipPrefix
  <2>. QED
    BY <1>2, <2>1
<1>4. \A k \in 1..Len(e) : h[L + k] = UnslipByte(h[(L + k) - 1], (s \o e)[L + k])
  <2>. HIDE DEF e
  <2>1. \A k \in 1..Len(e) : L + k \in 0..Len(s \o e) /\ L + k # 0
    BY <1>2
  <2>. QED
    BY <1>1, <2>1 DEF Unslipped
<1>5. h[L + 1] = UnslipByte(Plain(out), e[1])
  <2>. HIDE DEF e
  <2>1. 1 \in 1..Len(e) /\ (L + 1) - 1 = L
    <3>1. (Len(e) = 1 \/ Len(e) = 2) /\ L \in Nat
      BY <1>2
    <3>2. 1 \in 1..Len(e)
      BY <3>1, Zenon, FirstOf
    <3>3. (L + 1) - 1 = L
      BY <3>1
    <3>. QED
      BY <3>2, <3>3
  <2>. QED
    BY <1>2, <1>3, <1>4, <2>1
<1>6. CASE b \in {END, ESC}
  <2>1. Len(e) = 2 /\ e[1] = ESC /\ e[2] \in {220, 221} /\ Unescaped(e[2]) = b
    BY <1>6 DEF END, ESC, Unescaped
  <2>. HIDE DEF e
  <2>2. h[L + 2] = UnslipByte(h[L + 1], e[2])
    <3>1. 2 \in 1..Len(e) /\ (L + 2) - 1 = L + 1
      BY <1>2, <2>1
    <3>. QED
      BY <1>2, <1>4, <3>1
  <2>3. h[L + 2] = Plain(Append(out, b))
    BY <1>5, <2>1, <2>2, UnslipPlain
  <2>. QED
    BY <1>1, <1>2, <2>1, <2>3
<1>7. CASE b \notin {END, ESC}
  <2>1. Len(e) = 1 /\ e[1] = b
    BY <1>7
  <2>. HIDE DEF e
  <2>2. h[L + 1] = Plain(Append(out, b))
    BY <1>5, <1>7, <2>1, UnslipPlain
  <2>. QED
    BY <1>1, <1>2, <2>1, <2>2
<1>. QED
  BY <1>6, <1>7

(* The receiver gets the contents of the frame, whatever bytes they hold.  *)
LEMMA UnslipSlip ==
  ASSUME NEW S, {END, ESC, 220, 221} \subseteq S, NEW c \in Seq(S)
  PROVE  Slip(c) \in Seq(S) /\ Unslip(Slip(c)) = c
<1>1. Len(c) \in Nat /\ \A k \in 1..Len(c) : c[k] \in S
  BY LenProperties
<1>2. PICK w : Slipped(w, c, Len(c)) /\ Slip(c) = w[Len(c)]
  BY <1>1, SlipIs
<1>. DEFINE Good(k) ==
              /\ w[k] \in Seq(S)
              /\ \A h : Unslipped(h, w[k], Len(w[k])) =>
                          h[Len(w[k])] = Plain(SubSeq(c, 1, k))
            T == {k \in 0..Len(c) : Good(k)}
<1>3. 0 \in T
  <2>1. w[0] = <<>> /\ Len(w[0]) = 0
    BY <1>1, <1>2 DEF Slipped
  <2>2. SubSeq(c, 1, 0) = <<>>
    OBVIOUS
  <2>3. ASSUME NEW h, Unslipped(h, w[0], Len(w[0]))
        PROVE  h[Len(w[0])] = Plain(SubSeq(c, 1, 0))
    <3>1. h[0] = Plain(<<>>)
      BY <2>1, <2>3 DEF Unslipped
    <3>. QED
      BY <2>1, <2>2, <3>1
  <2>4. w[0] \in Seq(S)
    BY <2>1
  <2>5. 0 \in 0..Len(c)
    BY <1>1
  <2>. QED
    BY <2>3, <2>4, <2>5
<1>4. ASSUME NEW k \in 0..(Len(c) - 1), k \in T PROVE k + 1 \in T
  <2>1. k + 1 \in 0..Len(c) /\ k + 1 # 0 /\ (k + 1) - 1 = k /\ c[k + 1] \in S /\ k \in 0..Len(c)
    BY <1>1
  <2>2. w[k + 1] = SlipPut(w[k], c[k + 1])
    BY <1>2, <2>1 DEF Slipped
  <2>3. Good(k)
    BY <1>4
  <2>4. Len(w[k]) \in Nat
    BY <2>3, LenProperties
  <2>5. PICK g : Unslipped(g, w[k], Len(w[k]))
    BY <2>4, UnslipDefined
  <2>10. g[Len(w[k])] = Plain(SubSeq(c, 1, k)) /\ w[k] \in Seq(S)
    BY <2>3, <2>5
  <2>6. w[k + 1] \in Seq(S)
    BY <2>1, <2>2, <2>3, ConcatProperties DEF SlipPut
  <2>7. Append(SubSeq(c, 1, k), c[k + 1]) = SubSeq(c, 1, k + 1)
    BY <1>1, <2>1
  <2>9. ASSUME NEW h, Unslipped(h, w[k + 1], Len(w[k + 1]))
        PROVE  h[Len(w[k + 1])] = Plain(SubSeq(c, 1, k + 1))
    <3>1. Unslipped(h, SlipPut(w[k], c[k + 1]), Len(SlipPut(w[k], c[k + 1])))
      BY <2>2, <2>9
    <3>2. h[Len(SlipPut(w[k], c[k + 1]))] = Plain(Append(SubSeq(c, 1, k), c[k + 1]))
      <4>. HIDE DEF Good
      <4>. QED
        BY <2>1, <2>5, <2>10, <3>1, UnslipPut
    <3>. QED
      BY <2>2, <2>7, <3>2
  <2>. QED
    BY <2>1, <2>6, <2>9
<1>5. \A k \in 0..Len(c) : k \in T
  <2>. HIDE DEF T
  <2>. QED
    BY <1>1, <1>3, <1>4, UpTo
<1>6. Good(Len(c))
  BY <1>1, <1>5
<1>7. SubSeq(c, 1, Len(c)) = c
  BY <1>1
<1>8. Len(Slip(c)) \in Nat
  BY <1>2, <1>6, LenProperties
<1>9. Unslip(Slip(c)) = SubSeq(c, 1, Len(c))
  <2>1. PICK g : Unslipped(g, Slip(c), Len(Slip(c))) /\ Unslip(Slip(c)) = g[Len(Slip(c))].out
    BY <1>8, UnslipIs
  <2>2. g[Len(Slip(c))] = Plain(SubSeq(c, 1, Len(c)))
    BY <1>2, <1>6, <2>1
  <2>. QED
    BY <2>1, <2>2 DEF Plain
<1>. QED
  BY <1>2, <1>6, <1>7, <1>9

-----------------------------------------------------------------------------
(* The CRC of the program, four bits at a time from a table, and that of   *)
(* BCSP, a bit at a time, are mirror images of each other.                 *)
BitsAre(x, B) ==
  /\ 0 \in B <=> x % 2 = 1
  /\ 1 \in B <=> (x \div 2) % 2 = 1
  /\ 2 \in B <=> (x \div 4) % 2 = 1
  /\ 3 \in B <=> (x \div 8) % 2 = 1
  /\ 4 \in B <=> (x \div 16) % 2 = 1
  /\ 5 \in B <=> (x \div 32) % 2 = 1
  /\ 6 \in B <=> (x \div 64) % 2 = 1
  /\ 7 \in B <=> (x \div 128) % 2 = 1
  /\ 8 \in B <=> (x \div 256) % 2 = 1
  /\ 9 \in B <=> (x \div 512) % 2 = 1
  /\ 10 \in B <=> (x \div 1024) % 2 = 1
  /\ 11 \in B <=> (x \div 2048) % 2 = 1
  /\ 12 \in B <=> (x \div 4096) % 2 = 1
  /\ 13 \in B <=> (x \div 8192) % 2 = 1
  /\ 14 \in B <=> (x \div 16384) % 2 = 1
  /\ 15 \in B <=> (x \div 32768) % 2 = 1

LEMMA BitsIs ==
  ASSUME NEW x \in Nat
  PROVE  Bits(x) \subseteq 0..15 /\ BitsAre(x, Bits(x))
<1>1. Bits(x) \subseteq 0..15
  BY DEF Bits
<1>. DEFINE W == Weight
<1>2. /\ W[1] = 1 /\ W[2] = 2 /\ W[3] = 4 /\ W[4] = 8
      /\ W[5] = 16 /\ W[6] = 32 /\ W[7] = 64 /\ W[8] = 128
      /\ W[9] = 256 /\ W[10] = 512 /\ W[11] = 1024 /\ W[12] = 2048
      /\ W[13] = 4096 /\ W[14] = 8192 /\ W[15] = 16384 /\ W[16] = 32768
  BY DEF Weight
<1>3. \A n \in 0..15 : n \in Bits(x) <=> (x \div W[n + 1]) % 2 = 1
  BY DEF Bits
<1>. HIDE DEF W
<1>4. /\ 0 \in Bits(x) <=> (x \div 1) % 2 = 1
      /\ 1 \in Bits(x) <=> (x \div 2) % 2 = 1
      /\ 2 \in Bits(x) <=> (x \div 4) % 2 = 1
      /\ 3 \in Bits(x) <=> (x \div 8) % 2 = 1
  BY <1>2, <1>3
<1>5. /\ 4 \in Bits(x) <=> (x \div 16) % 2 = 1
      /\ 5 \in Bits(x) <=> (x \div 32) % 2 = 1
      /\ 6 \in Bits(x) <=> (x \div 64) % 2 = 1
      /\ 7 \in Bits(x) <=> (x \div 128) % 2 = 1
  BY <1>2, <1>3
<1>6. /\ 8 \in Bits(x) <=> (x \div 256) % 2 = 1
      /\ 9 \in Bits(x) <=> (x \div 512) % 2 = 1
      /\ 10 \in Bits(x) <=> (x \div 1024) % 2 = 1
      /\ 11 \in Bits(x) <=> (x \div 2048) % 2 = 1
  BY <1>2, <1>3
<1>7. /\ 12 \in Bits(x) <=> (x \div 4096) % 2 = 1
      /\ 13 \in Bits(x) <=> (x \div 8192) % 2 = 1
      /\ 14 \in Bits(x) <=> (x \div 16384) % 2 = 1
      /\ 15 \in Bits(x) <=> (x \div 32768) % 2 = 1
  BY <1>2, <1>3
<1>8. x \div 1 = x
  OBVIOUS
<1>. QED
  BY <1>1, <1>4, <1>5, <1>6, <1>7, <1>8 DEF BitsAre

Sixteen(A, B) ==
  /\ 0 \in A <=> 0 \in B
  /\ 1 \in A <=> 1 \in B
  /\ 2 \in A <=> 2 \in B
  /\ 3 \in A <=> 3 \in B
  /\ 4 \in A <=> 4 \in B
  /\ 5 \in A <=> 5 \in B
  /\ 6 \in A <=> 6 \in B
  /\ 7 \in A <=> 7 \in B
  /\ 8 \in A <=> 8 \in B
  /\ 9 \in A <=> 9 \in B
  /\ 10 \in A <=> 10 \in B
  /\ 11 \in A <=> 11 \in B
  /\ 12 \in A <=> 12 \in B
  /\ 13 \in A <=> 13 \in B
  /\ 14 \in A <=> 14 \in B
  /\ 15 \in A <=> 15 \in B

LEMMA SameBits ==
  ASSUME NEW A \in SUBSET (0..15), NEW B \in SUBSET (0..15), Sixteen(A, B)
  PROVE  A = B
<1>1. ASSUME NEW n \in 0..15 PROVE n \in A <=> n \in B
  <2>1. \/ n = 0 \/ n = 1 \/ n = 2 \/ n = 3 \/ n = 4 \/ n = 5 \/ n = 6 \/ n = 7
        \/ n = 8 \/ n = 9 \/ n = 10 \/ n = 11 \/ n = 12 \/ n = 13 \/ n = 14 \/ n = 15
    OBVIOUS
  <2>. QED
    BY <2>1 DEF Sixteen
<1>. QED
  BY <1>1

LEMMA SumBits ==
  ASSUME NEW a \in {0, 1}, NEW b \in {0, 1}, NEW c \in {0, 1}, NEW d \in {0, 1},
         NEW e \in {0, 1}, NEW f \in {0, 1}, NEW g \in {0, 1}, NEW h \in {0, 1}, NEW x,
         x = a + 2 * b + 4 * c + 8 * d + 16 * e + 32 * f + 64 * g + 128 * h
  PROVE  /\ x \in 0..255
         /\ x % 2 = a /\ (x \div 2) % 2 = b /\ (x \div 4) % 2 = c /\ (x \div 8) % 2 = d
         /\ (x \div 16) % 2 = e /\ (x \div 32) % 2 = f /\ (x \div 64) % 2 = g /\ (x \div 128) % 2 = h
         /\ \A y \in {256, 512, 1024, 2048, 4096, 8192, 16384, 32768} : (x \div y) % 2 = 0
<1>1. x % 2 = a
  OBVIOUS
<1>2. (x \div 2) % 2 = b
  OBVIOUS
<1>3. (x \div 4) % 2 = c
  OBVIOUS
<1>4. (x \div 8) % 2 = d
  OBVIOUS
<1>5. (x \div 16) % 2 = e
  OBVIOUS
<1>6. (x \div 32) % 2 = f
  OBVIOUS
<1>7. (x \div 64) % 2 = g
  OBVIOUS
<1>8. (x \div 128) % 2 = h
  OBVIOUS
<1>9. x \in 0..255
  OBVIOUS
<1>10. \A y \in {256, 512, 1024, 2048, 4096, 8192, 16384, 32768} : (x \div y) % 2 = 0
  BY <1>9
<1>. QED
  BY <1>1, <1>2, <1>3, <1>4, <1>5, <1>6, <1>7, <1>8, <1>9, <1>10

(* Every set of eight bits is the set of a byte.                           *)
LEMMA ByteIs ==
  ASSUME NEW B \in SUBSET (0..7)
  PROVE  Byte(B) \in 0..255 /\ Bits(Byte(B)) = B
<1>. DEFINE b(n) == IF n \in B THEN 1 ELSE 0
            x == b(0) + 2 * b(1) + 4 * b(2) + 8 * b(3) + 16 * b(4) + 32 * b(5) + 64 * b(6) + 128 * b(7)
<1>1. \A n \in 0..7 : b(n) \in {0, 1} /\ (n \in B <=> b(n) = 1)
  OBVIOUS
<1>. HIDE DEF b
<1>2. /\ x \in 0..255
      /\ x % 2 = b(0) /\ (x \div 2) % 2 = b(1) /\ (x \div 4) % 2 = b(2) /\ (x \div 8) % 2 = b(3)
      /\ (x \div 16) % 2 = b(4) /\ (x \div 32) % 2 = b(5) /\ (x \div 64) % 2 = b(6)
      /\ (x \div 128) % 2 = b(7)
      /\ \A y \in {256, 512, 1024, 2048, 4096, 8192, 16384, 32768} : (x \div y) % 2 = 0
  <2>1. /\ b(0) \in {0, 1} /\ b(1) \in {0, 1} /\ b(2) \in {0, 1} /\ b(3) \in {0, 1}
        /\ b(4) \in {0, 1} /\ b(5) \in {0, 1} /\ b(6) \in {0, 1} /\ b(7) \in {0, 1}
    BY <1>1
  <2>. QED
    BY <2>1, SumBits
<1>. HIDE DEF x
<1>3. Bits(x) \in SUBSET (0..15) /\ BitsAre(x, Bits(x)) /\ B \in SUBSET (0..15)
  BY <1>2, BitsIs
<1>4. /\ 8 \notin B /\ 9 \notin B /\ 10 \notin B /\ 11 \notin B
      /\ 12 \notin B /\ 13 \notin B /\ 14 \notin B /\ 15 \notin B
  OBVIOUS
<1>5. Sixteen(Bits(x), B)
  BY <1>1, <1>2, <1>3, <1>4 DEF BitsAre, Sixteen
<1>6. Bits(x) = B
  BY <1>3, <1>5, SameBits
<1>. QED
  BY <1>2, <1>6 DEF Byte

(* Each entry of the table is the index with its copies 7 and 12 bits up.  *)
Spread(C, B) ==
  /\ 0 \in C <=> 0 \in B
  /\ 1 \in C <=> 1 \in B
  /\ 2 \in C <=> 2 \in B
  /\ 3 \in C <=> 3 \in B
  /\ 4 \notin C /\ 5 \notin C /\ 6 \notin C
  /\ 7 \in C <=> 0 \in B
  /\ 8 \in C <=> 1 \in B
  /\ 9 \in C <=> 2 \in B
  /\ 10 \in C <=> 3 \in B
  /\ 11 \notin C
  /\ 12 \in C <=> 0 \in B
  /\ 13 \in C <=> 1 \in B
  /\ 14 \in C <=> 2 \in B
  /\ 15 \in C <=> 3 \in B

LEMMA TableIs ==
  ASSUME NEW x \in 0..15
  PROVE  CrcTable[x + 1] \in Nat /\ Spread(Bits(CrcTable[x + 1]), Bits(x))
<1>. DEFINE c == CrcTable[x + 1]
<1>1. CASE x = 0
  <2>1. c = 0
    BY <1>1 DEF CrcTable
  <2>2. BitsAre(0, Bits(0)) /\ BitsAre(0, Bits(0))
    BY BitsIs
  <2>. QED
    BY <1>1, <2>1, <2>2 DEF BitsAre, Spread
<1>2. CASE x = 1
  <2>1. c = 4225
    BY <1>2 DEF CrcTable
  <2>2. BitsAre(4225, Bits(4225)) /\ BitsAre(1, Bits(1))
    BY BitsIs
  <2>. QED
    BY <1>2, <2>1, <2>2 DEF BitsAre, Spread
<1>3. CASE x = 2
  <2>1. c = 8450
    BY <1>3 DEF CrcTable
  <2>2. BitsAre(8450, Bits(8450)) /\ BitsAre(2, Bits(2))
    BY BitsIs
  <2>. QED
    BY <1>3, <2>1, <2>2 DEF BitsAre, Spread
<1>4. CASE x = 3
  <2>1. c = 12675
    BY <1>4 DEF CrcTable
  <2>2. BitsAre(12675, Bits(12675)) /\ BitsAre(3, Bits(3))
    BY BitsIs
  <2>. QED
    BY <1>4, <2>1, <2>2 DEF BitsAre, Spread
<1>5. CASE x = 4
  <2>1. c = 16900
    BY <1>5 DEF CrcTable
  <2>2. BitsAre(16900, Bits(16900)) /\ BitsAre(4, Bits(4))
    BY BitsIs
  <2>. QED
    BY <1>5, <2>1, <2>2 DEF BitsAre, Spread
<1>6. CASE x = 5
  <2>1. c = 21125
    BY <1>6 DEF CrcTable
  <2>2. BitsAre(21125, Bits(21125)) /\ BitsAre(5, Bits(5))
    BY BitsIs
  <2>. QED
    BY <1>6, <2>1, <2>2 DEF BitsAre, Spread
<1>7. CASE x = 6
  <2>1. c = 25350
    BY <1>7 DEF CrcTable
  <2>2. BitsAre(25350, Bits(25350)) /\ BitsAre(6, Bits(6))
    BY BitsIs
  <2>. QED
    BY <1>7, <2>1, <2>2 DEF BitsAre, Spread
<1>8. CASE x = 7
  <2>1. c = 29575
    BY <1>8 DEF CrcTable
  <2>2. BitsAre(29575, Bits(29575)) /\ BitsAre(7, Bits(7))
    BY BitsIs
  <2>. QED
    BY <1>8, <2>1, <2>2 DEF BitsAre, Spread
<1>9. CASE x = 8
  <2>1. c = 33800
    BY <1>9 DEF CrcTable
  <2>2. BitsAre(33800, Bits(33800)) /\ BitsAre(8, Bits(8))
    BY BitsIs
  <2>. QED
    BY <1>9, <2>1, <2>2 DEF BitsAre, Spread
<1>10. CASE x = 9
  <2>1. c = 38025
    BY <1>10 DEF CrcTable
  <2>2. BitsAre(38025, Bits(38025)) /\ BitsAre(9, Bits(9))
    BY BitsIs
  <2>. QED
    BY <1>10, <2>1, <2>2 DEF BitsAre, Spread
<1>11. CASE x = 10
  <2>1. c = 42250
    BY <1>11 DEF CrcTable
  <2>2. BitsAre(42250, Bits(42250)) /\ BitsAre(10, Bits(10))
    BY BitsIs
  <2>. QED
    BY <1>11, <2>1, <2>2 DEF BitsAre, Spread
<1>12. CASE x = 11
  <2>1. c = 46475
    BY <1>12 DEF CrcTable
  <2>2. BitsAre(46475, Bits(46475)) /\ BitsAre(11, Bits(11))
    BY BitsIs
  <2>. QED
    BY <1>12, <2>1, <2>2 DEF BitsAre, Spread
<1>13. CASE x = 12
  <2>1. c = 50700
    BY <1>13 DEF CrcTable
  <2>2. BitsAre(50700, Bits(50700)) /\ BitsAre(12, Bits(12))
    BY BitsIs
  <2>. QED
    BY <1>13, <2>1, <2>2 DEF BitsAre, Spread
<1>14. CASE x = 13
  <2>1. c = 54925
    BY <1>14 DEF CrcTable
  <2>2. BitsAre(54925, Bits(54925)) /\ BitsAre(13, Bits(13))
    BY BitsIs
  <2>. QED
    BY <1>14, <2>1, <2>2 DEF BitsAre, Spread
<1>15. CASE x = 14
  <2>1. c = 59150
    BY <1>15 DEF CrcTable
  <2>2. BitsAre(59150, Bits(59150)) /\ BitsAre(14, Bits(14))
    BY BitsIs
  <2>. QED
    BY <1>15, <2>1, <2>2 DEF BitsAre, Spread
<1>16. CASE x = 15
  <2>1. c = 63375
    BY <1>16 DEF CrcTable
  <2>2. BitsAre(63375, Bits(63375)) /\ BitsAre(15, Bits(15))
    BY BitsIs
  <2>. QED
    BY <1>16, <2>1, <2>2 DEF BitsAre, Spread
<1>. QED
  BY <1>1, <1>2, <1>3, <1>4, <1>5, <1>6, <1>7, <1>8, <1>9, <1>10, <1>11, <1>12, <1>13, <1>14, <1>15, <1>16

(* One bit of the register, least significant bit first.                   *)
Step(r, byte, n) ==
  Xor({k - 1 : k \in r \ {0}}, IF (0 \in r) # (n \in Bits(byte)) THEN {3, 10, 15} ELSE {})

LEMMA StepIs ==
  ASSUME NEW r \in SUBSET (0..15), NEW byte, NEW n
  PROVE  /\ Step(r, byte, n) \in SUBSET (0..15)
         /\ \A k \in 0..15 : k \in Step(r, byte, n) <=>
              ~((k + 1 \in r) <=> (~(0 \in r <=> n \in Bits(byte)) /\ k \in {3, 10, 15}))
<1>. DEFINE A == {k - 1 : k \in r \ {0}}
            F == IF (0 \in r) # (n \in Bits(byte)) THEN {3, 10, 15} ELSE {}
<1>1. A \in SUBSET (0..15) /\ \A k \in 0..15 : k \in A <=> k + 1 \in r
  OBVIOUS
<1>2. F \in SUBSET (0..15)
      /\ \A k : k \in F <=> ~(0 \in r <=> n \in Bits(byte)) /\ k \in {3, 10, 15}
  OBVIOUS
<1>3. Step(r, byte, n) = (A \cup F) \ (A \cap F)
  BY DEF Step, Xor
<1>. HIDE DEF A, F
<1>. QED
  BY <1>1, <1>2, <1>3

(* The same, bit by bit.                                                   *)
LEMMA StepBits ==
  ASSUME NEW r \in SUBSET (0..15), NEW byte, NEW n, NEW t, t = Step(r, byte, n)
  PROVE  /\ 0 \in t <=> 1 \in r
         /\ 1 \in t <=> 2 \in r
         /\ 2 \in t <=> 3 \in r
         /\ 3 \in t <=> (4 \in r <=> (0 \in r <=> n \in Bits(byte)))
         /\ 4 \in t <=> 5 \in r
         /\ 5 \in t <=> 6 \in r
         /\ 6 \in t <=> 7 \in r
         /\ 7 \in t <=> 8 \in r
         /\ 8 \in t <=> 9 \in r
         /\ 9 \in t <=> 10 \in r
         /\ 10 \in t <=> (11 \in r <=> (0 \in r <=> n \in Bits(byte)))
         /\ 11 \in t <=> 12 \in r
         /\ 12 \in t <=> 13 \in r
         /\ 13 \in t <=> 14 \in r
         /\ 14 \in t <=> 15 \in r
         /\ 15 \in t <=> ~(0 \in r <=> n \in Bits(byte))
<1>1. 16 \notin r
  OBVIOUS
<1>2. 0 \in t <=> 1 \in r
  <2>1. 0 \in 0..15 /\ 0 + 1 = 1 /\ 0 \notin {3, 10, 15}
    OBVIOUS
  <2>. QED
    BY <2>1, StepIs
<1>3. 1 \in t <=> 2 \in r
  <2>1. 1 \in 0..15 /\ 1 + 1 = 2 /\ 1 \notin {3, 10, 15}
    OBVIOUS
  <2>. QED
    BY <2>1, StepIs
<1>4. 2 \in t <=> 3 \in r
  <2>1. 2 \in 0..15 /\ 2 + 1 = 3 /\ 2 \notin {3, 10, 15}
    OBVIOUS
  <2>. QED
    BY <2>1, StepIs
<1>5. 3 \in t <=> (4 \in r <=> (0 \in r <=> n \in Bits(byte)))
  <2>1. 3 \in 0..15 /\ 3 + 1 = 4 /\ 3 \in {3, 10, 15}
    OBVIOUS
  <2>. QED
    BY <2>1, StepIs
<1>6. 4 \in t <=> 5 \in r
  <2>1. 4 \in 0..15 /\ 4 + 1 = 5 /\ 4 \notin {3, 10, 15}
    OBVIOUS
  <2>. QED
    BY <2>1, StepIs
<1>7. 5 \in t <=> 6 \in r
  <2>1. 5 \in 0..15 /\ 5 + 1 = 6 /\ 5 \notin {3, 10, 15}
    OBVIOUS
  <2>. QED
    BY <2>1, StepIs
<1>8. 6 \in t <=> 7 \in r
  <2>1. 6 \in 0..15 /\ 6 + 1 = 7 /\ 6 \notin {3, 10, 15}
    OBVIOUS
  <2>. QED
    BY <2>1, StepIs
<1>9. 7 \in t <=> 8 \in r
  <2>1. 7 \in 0..15 /\ 7 + 1 = 8 /\ 7 \notin {3, 10, 15}
    OBVIOUS
  <2>. QED
    BY <2>1, StepIs
<1>10. 8 \in t <=> 9 \in r
  <2>1. 8 \in 0..15 /\ 8 + 1 = 9 /\ 8 \notin {3, 10, 15}
    OBVIOUS
  <2>. QED
    BY <2>1, StepIs
<1>11. 9 \in t <=> 10 \in r
  <2>1. 9 \in 0..15 /\ 9 + 1 = 10 /\ 9 \notin {3, 10, 15}
    OBVIOUS
  <2>. QED
    BY <2>1, StepIs
<1>12. 10 \in t <=> (11 \in r <=> (0 \in r <=> n \in Bits(byte)))
  <2>1. 10 \in 0..15 /\ 10 + 1 = 11 /\ 10 \in {3, 10, 15}
    OBVIOUS
  <2>. QED
    BY <2>1, StepIs
<1>13. 11 \in t <=> 12 \in r
  <2>1. 11 \in 0..15 /\ 11 + 1 = 12 /\ 11 \notin {3, 10, 15}
    OBVIOUS
  <2>. QED
    BY <2>1, StepIs
<1>14. 12 \in t <=> 13 \in r
  <2>1. 12 \in 0..15 /\ 12 + 1 = 13 /\ 12 \notin {3, 10, 15}
    OBVIOUS
  <2>. QED
    BY <2>1, StepIs
<1>15. 13 \in t <=> 14 \in r
  <2>1. 13 \in 0..15 /\ 13 + 1 = 14 /\ 13 \notin {3, 10, 15}
    OBVIOUS
  <2>. QED
    BY <2>1, StepIs
<1>16. 14 \in t <=> 15 \in r
  <2>1. 14 \in 0..15 /\ 14 + 1 = 15 /\ 14 \notin {3, 10, 15}
    OBVIOUS
  <2>. QED
    BY <2>1, StepIs
<1>17. 15 \in t <=> ~(0 \in r <=> n \in Bits(byte))
  <2>1. 15 \in 0..15 /\ 15 + 1 = 16 /\ 15 \in {3, 10, 15}
    OBVIOUS
  <2>. QED
    BY <1>1, <2>1, StepIs
<1>. QED
  BY <1>2, <1>3, <1>4, <1>5, <1>6, <1>7, <1>8, <1>9, <1>10, <1>11, <1>12, <1>13, <1>14, <1>15, <1>16, <1>17

(* Four bits at a time are one step of the table.                          *)
LEMMA NibbleIs ==
  ASSUME NEW r \in SUBSET (0..15), NEW d \in Nat
  PROVE  /\ CrcNibble(r, d) \in SUBSET (0..15)
         /\ CrcNibble(r, d) = Step(Step(Step(Step(r, d, 0), d, 1), d, 2), d, 3)
<1>. DEFINE D == Bits(d)
            N == Xor(r, D) \cap 0..3
            x == Byte(N)
            C == Bits(CrcTable[x + 1])
            H == {n - 4 : n \in r \ 0..3}
            t == CrcNibble(r, d)
            t1 == Step(r, d, 0)
            t2 == Step(t1, d, 1)
            t3 == Step(t2, d, 2)
            t4 == Step(t3, d, 3)
<1>1. N \in SUBSET (0..7) /\ (\A n \in 0..3 : n \in N <=> ~(n \in r <=> n \in D))
      /\ (\A n \in 4..7 : n \notin N)
  BY DEF Xor
<1>. HIDE DEF N
<1>2. x \in 0..255 /\ Bits(x) = N
  BY <1>1, ByteIs
<1>. HIDE DEF x
<1>3. x \in 0..15
  <2>1. 4 \notin N /\ 5 \notin N /\ 6 \notin N /\ 7 \notin N
    BY <1>1
  <2>2. BitsAre(x, N)
    BY <1>2, BitsIs
  <2>. QED
    BY <1>2, <2>1, <2>2 DEF BitsAre
<1>4. C \in SUBSET (0..15) /\ Spread(C, N)
  BY <1>2, <1>3, TableIs, BitsIs
<1>. HIDE DEF C
<1>5. H \in SUBSET (0..15) /\ \A k \in 0..15 : k \in H <=> k + 4 \in r
  OBVIOUS
<1>. HIDE DEF H
<1>6. t \in SUBSET (0..15) /\ \A k \in 0..15 : k \in t <=> ~(k + 4 \in r <=> k \in C)
  <2>1. t = (H \cup C) \ (H \cap C)
    BY DEF CrcNibble, Xor, H, C, x, N, D
  <2>. HIDE DEF t
  <2>. QED
    BY <1>4, <1>5, <2>1
<1>. HIDE DEF t
<1>7. /\ t1 \in SUBSET (0..15) /\ t2 \in SUBSET (0..15)
      /\ t3 \in SUBSET (0..15) /\ t4 \in SUBSET (0..15)
  BY StepIs
<1>. HIDE DEF t4
<1>8. Sixteen(t, t4)
  <2>1. /\ 0 \in t1 <=> 1 \in r
        /\ 1 \in t1 <=> 2 \in r
        /\ 2 \in t1 <=> 3 \in r
        /\ 3 \in t1 <=> (4 \in r <=> (0 \in r <=> 0 \in D))
        /\ 4 \in t1 <=> 5 \in r
        /\ 5 \in t1 <=> 6 \in r
        /\ 6 \in t1 <=> 7 \in r
        /\ 7 \in t1 <=> 8 \in r
        /\ 8 \in t1 <=> 9 \in r
        /\ 9 \in t1 <=> 10 \in r
        /\ 10 \in t1 <=> (11 \in r <=> (0 \in r <=> 0 \in D))
        /\ 11 \in t1 <=> 12 \in r
        /\ 12 \in t1 <=> 13 \in r
        /\ 13 \in t1 <=> 14 \in r
        /\ 14 \in t1 <=> 15 \in r
        /\ 15 \in t1 <=> ~(0 \in r <=> 0 \in D)
    BY <1>7, StepBits
  <2>2. /\ 0 \in t2 <=> 1 \in t1
        /\ 1 \in t2 <=> 2 \in t1
        /\ 2 \in t2 <=> 3 \in t1
        /\ 3 \in t2 <=> (4 \in t1 <=> (0 \in t1 <=> 1 \in D))
        /\ 4 \in t2 <=> 5 \in t1
        /\ 5 \in t2 <=> 6 \in t1
        /\ 6 \in t2 <=> 7 \in t1
        /\ 7 \in t2 <=> 8 \in t1
        /\ 8 \in t2 <=> 9 \in t1
        /\ 9 \in t2 <=> 10 \in t1
        /\ 10 \in t2 <=> (11 \in t1 <=> (0 \in t1 <=> 1 \in D))
        /\ 11 \in t2 <=> 12 \in t1
        /\ 12 \in t2 <=> 13 \in t1
        /\ 13 \in t2 <=> 14 \in t1
        /\ 14 \in t2 <=> 15 \in t1
        /\ 15 \in t2 <=> ~(0 \in t1 <=> 1 \in D)
    BY <1>7, StepBits
  <2>3. /\ 0 \in t3 <=> 1 \in t2
        /\ 1 \in t3 <=> 2 \in t2
        /\ 2 \in t3 <=> 3 \in t2
        /\ 3 \in t3 <=> (4 \in t2 <=> (0 \in t2 <=> 2 \in D))
        /\ 4 \in t3 <=> 5 \in t2
        /\ 5 \in t3 <=> 6 \in t2
        /\ 6 \in t3 <=> 7 \in t2
        /\ 7 \in t3 <=> 8 \in t2
        /\ 8 \in t3 <=> 9 \in t2
        /\ 9 \in t3 <=> 10 \in t2
        /\ 10 \in t3 <=> (11 \in t2 <=> (0 \in t2 <=> 2 \in D))
        /\ 11 \in t3 <=> 12 \in t2
        /\ 12 \in t3 <=> 13 \in t2
        /\ 13 \in t3 <=> 14 \in t2
        /\ 14 \in t3 <=> 15 \in t2
        /\ 15 \in t3 <=> ~(0 \in t2 <=> 2 \in D)
    BY <1>7, StepBits
  <2>4. /\ 0 \in t4 <=> 1 \in t3
        /\ 1 \in t4 <=> 2 \in t3
        /\ 2 \in t4 <=> 3 \in t3
        /\ 3 \in t4 <=> (4 \in t3 <=> (0 \in t3 <=> 3 \in D))
        /\ 4 \in t4 <=> 5 \in t3
        /\ 5 \in t4 <=> 6 \in t3
        /\ 6 \in t4 <=> 7 \in t3
        /\ 7 \in t4 <=> 8 \in t3
        /\ 8 \in t4 <=> 9 \in t3
        /\ 9 \in t4 <=> 10 \in t3
        /\ 10 \in t4 <=> (11 \in t3 <=> (0 \in t3 <=> 3 \in D))
        /\ 11 \in t4 <=> 12 \in t3
        /\ 12 \in t4 <=> 13 \in t3
        /\ 13 \in t4 <=> 14 \in t3
        /\ 14 \in t4 <=> 15 \in t3
        /\ 15 \in t4 <=> ~(0 \in t3 <=> 3 \in D)
    BY <1>7, StepBits DEF t4
  <2>. HIDE DEF t1, t2, t3, t4, D
  <2>5. /\ 0 \in N <=> ~(0 \in r <=> 0 \in D)
        /\ 1 \in N <=> ~(1 \in r <=> 1 \in D)
        /\ 2 \in N <=> ~(2 \in r <=> 2 \in D)
        /\ 3 \in N <=> ~(3 \in r <=> 3 \in D)
    BY <1>1
  <2>6. /\ 0 \in t <=> ~(4 \in r <=> 0 \in C)
        /\ 1 \in t <=> ~(5 \in r <=> 1 \in C)
        /\ 2 \in t <=> ~(6 \in r <=> 2 \in C)
        /\ 3 \in t <=> ~(7 \in r <=> 3 \in C)
        /\ 4 \in t <=> ~(8 \in r <=> 4 \in C)
        /\ 5 \in t <=> ~(9 \in r <=> 5 \in C)
        /\ 6 \in t <=> ~(10 \in r <=> 6 \in C)
        /\ 7 \in t <=> ~(11 \in r <=> 7 \in C)
        /\ 8 \in t <=> ~(12 \in r <=> 8 \in C)
        /\ 9 \in t <=> ~(13 \in r <=> 9 \in C)
        /\ 10 \in t <=> ~(14 \in r <=> 10 \in C)
        /\ 11 \in t <=> ~(15 \in r <=> 11 \in C)
        /\ 12 \in t <=> 12 \in C
        /\ 13 \in t <=> 13 \in C
        /\ 14 \in t <=> 14 \in C
        /\ 15 \in t <=> 15 \in C
    <3>1. 16 \notin r /\ 17 \notin r /\ 18 \notin r /\ 19 \notin r
      OBVIOUS
    <3>. QED
      BY <1>6, <3>1
  <2>. QED
    BY <1>4, <2>1, <2>2, <2>3, <2>4, <2>5, <2>6 DEF Spread, Sixteen
<1>9. t = t4
  BY <1>6, <1>7, <1>8, SameBits
<1>. QED
  BY <1>6, <1>9 DEF t, t4

(* The two registers are mirror images of each other.                      *)
LEMMA StepMirrored ==
  ASSUME NEW r \in SUBSET (0..15), NEW d, NEW n
  PROVE  /\ Bitrev16(r) \in SUBSET (0..15)
         /\ Bitrev16(Step(r, d, n)) = Crc16Shift(Bitrev16(r), d, n)
<1>. DEFINE m == Bitrev16(r)
            t == Step(r, d, n)
            P == {k + 1 : k \in m \ {15}}
            G == IF (15 \in m) # (n \in Bits(d)) THEN Bits(4129) ELSE {}
            u == Crc16Shift(m, d, n)
<1>1. m \in SUBSET (0..15) /\ \A k \in 0..15 : k \in m <=> 15 - k \in r
  BY DEF Bitrev16
<1>2. t \in SUBSET (0..15) /\ \A k \in 0..15 : k \in t <=>
              ~((k + 1 \in r) <=> (~(0 \in r <=> n \in Bits(d)) /\ k \in {3, 10, 15}))
  BY StepIs
<1>. HIDE DEF m, t
<1>3. Bits(4129) = {0, 5, 12}
  <2>1. Bits(4129) \in SUBSET (0..15) /\ BitsAre(4129, Bits(4129))
    BY BitsIs
  <2>2. Sixteen(Bits(4129), {0, 5, 12})
    BY <2>1 DEF BitsAre, Sixteen
  <2>. QED
    BY <2>1, <2>2, SameBits
<1>4. P \in SUBSET (0..15) /\ \A k \in 0..15 : k \in P <=> k # 0 /\ k - 1 \in m
  BY <1>1
<1>5. 15 \in m <=> 0 \in r
  BY <1>1
<1>6. G \in SUBSET (0..15)
      /\ \A k : k \in G <=> ~(0 \in r <=> n \in Bits(d)) /\ k \in {0, 5, 12}
  BY <1>3, <1>5
<1>. HIDE DEF P, G
<1>7. u \in SUBSET (0..15) /\ \A k \in 0..15 : k \in u <=> ~(k \in P <=> k \in G)
  <2>1. u = (P \cup G) \ (P \cap G)
    BY DEF Crc16Shift, Xor, P, G
  <2>. HIDE DEF u
  <2>. QED
    BY <1>4, <1>6, <2>1
<1>8. Bitrev16(t) \in SUBSET (0..15) /\ \A k \in 0..15 : k \in Bitrev16(t) <=> 15 - k \in t
  BY <1>2 DEF Bitrev16
<1>. HIDE DEF u
<1>9. ASSUME NEW k \in 0..15 PROVE k \in Bitrev16(t) <=> k \in u
  <2>. DEFINE F == ~(0 \in r <=> n \in Bits(d))
  <2>1. k \in u <=> ~(k # 0 /\ k - 1 \in m <=> F /\ k \in {0, 5, 12})
    BY <1>4, <1>6, <1>7
  <2>2. k \in Bitrev16(t) <=> ~(16 - k \in r <=> F /\ 15 - k \in {3, 10, 15})
    <3>1. 15 - k \in 0..15 /\ (15 - k) + 1 = 16 - k
      OBVIOUS
    <3>. QED
      BY <1>2, <1>8, <3>1
  <2>3. k # 0 /\ k - 1 \in m <=> 16 - k \in r
    <3>1. CASE k = 0
      BY <3>1
    <3>2. CASE k # 0
      <4>1. k - 1 \in 0..15 /\ 15 - (k - 1) = 16 - k
        BY <3>2
      <4>. QED
        BY <1>1, <3>2, <4>1
    <3>. QED
      BY <3>1, <3>2
  <2>4. k \in {0, 5, 12} <=> 15 - k \in {3, 10, 15}
    OBVIOUS
  <2>. HIDE DEF F
  <2>. QED
    BY <2>1, <2>2, <2>3, <2>4
<1>10. Bitrev16(t) = u
  BY <1>7, <1>8, <1>9
<1>. QED
  BY <1>1, <1>10 DEF m, t, u

LEMMA MirrorStep ==
  ASSUME NEW r \in SUBSET (0..15), NEW d, NEW n, NEW q, q = Bitrev16(r)
  PROVE  Step(r, d, n) \in SUBSET (0..15) /\ Crc16Shift(q, d, n) = Bitrev16(Step(r, d, n))
BY StepIs, StepMirrored

LEMMA CrcUpdateIs ==
  ASSUME NEW r \in SUBSET (0..15), NEW d \in Nat
  PROVE  /\ CrcUpdate(r, d) \in SUBSET (0..15)
         /\ CrcUpdate(r, d) =
              Step(Step(Step(Step(Step(Step(Step(Step(r, d, 0), d, 1), d, 2), d, 3), d, 4), d, 5), d, 6), d, 7)
<1>. DEFINE e == d \div 16
            t == CrcNibble(r, d)
            u == CrcNibble(t, e)
<1>1. e \in Nat /\ t \in SUBSET (0..15) /\ t = Step(Step(Step(Step(r, d, 0), d, 1), d, 2), d, 3)
  BY NibbleIs
<1>2. u \in SUBSET (0..15) /\ u = Step(Step(Step(Step(t, e, 0), e, 1), e, 2), e, 3)
  <2>. HIDE DEF e, t
  <2>. QED
    BY <1>1, NibbleIs
<1>3. CrcUpdate(r, d) = u
  BY DEF CrcUpdate
<1>4. /\ 0 \in Bits(e) <=> 4 \in Bits(d)
      /\ 1 \in Bits(e) <=> 5 \in Bits(d)
      /\ 2 \in Bits(e) <=> 6 \in Bits(d)
      /\ 3 \in Bits(e) <=> 7 \in Bits(d)
  <2>1. BitsAre(e, Bits(e)) /\ BitsAre(d, Bits(d))
    BY <1>1, BitsIs
  <2>2. /\ e % 2 = (d \div 16) % 2 /\ (e \div 2) % 2 = (d \div 32) % 2
        /\ (e \div 4) % 2 = (d \div 64) % 2 /\ (e \div 8) % 2 = (d \div 128) % 2
    OBVIOUS
  <2>. HIDE DEF e
  <2>. QED
    BY <2>1, <2>2 DEF BitsAre
<1>. HIDE DEF e, u, t
<1>5. \A q : /\ Step(q, e, 0) = Step(q, d, 4) /\ Step(q, e, 1) = Step(q, d, 5)
             /\ Step(q, e, 2) = Step(q, d, 6) /\ Step(q, e, 3) = Step(q, d, 7)
  BY <1>4 DEF Step
<1>6. u = Step(Step(Step(Step(t, d, 4), d, 5), d, 6), d, 7)
  BY <1>2, <1>5
<1>. QED
  BY <1>1, <1>2, <1>3, <1>6

(* For every sequence of bytes, the CRC of the program with its bits       *)
(* reversed, which send_le sends, is the one that BCSP defines.            *)
THEOREM CrcCorrect ==
  ASSUME NEW bytes \in Seq(Nat)
  PROVE  Crc(bytes) \in SUBSET (0..15) /\ Crc16(bytes) = Bitrev16(Crc(bytes))
<1>. DEFINE L == Len(bytes)
<1>1. L \in Nat /\ 8 * L \in Nat /\ \A k \in 1..L : bytes[k] \in Nat
  BY LenProperties
<1>2. PICK w : CrcAfter(w, bytes, L) /\ Crc(bytes) = w[L]
  <2>. DEFINE w == CHOOSE f : CrcAfter(f, bytes, L)
  <2>1. CrcAfter(w, bytes, L)
    BY <1>1, CrcAfterDefined
  <2>2. Crc(bytes) = w[L]
    BY DEF Crc, CrcAfter
  <2>. QED
    BY <2>1, <2>2
<1>3. PICK g : Crc16After(g, bytes, 8 * L) /\ Crc16(bytes) = g[8 * L]
  <2>. DEFINE g == CHOOSE f : Crc16After(f, bytes, 8 * L)
  <2>1. Crc16After(g, bytes, 8 * L)
    BY <1>1, Crc16AfterDefined
  <2>2. Crc16(bytes) = g[8 * L]
    BY DEF Crc16, Crc16After, Shifted
  <2>. QED
    BY <2>1, <2>2
<1>. HIDE DEF L
<1>. DEFINE T == {k \in 0..L : w[k] \in SUBSET (0..15) /\ g[8 * k] = Bitrev16(w[k])}
<1>4. 0 \in T
  <2>1. w[0] = 0..15
    BY <1>1, <1>2 DEF CrcAfter
  <2>2. g[0] = 0..15
    BY <1>1, <1>3 DEF Crc16After
  <2>3. Bitrev16(0..15) = 0..15
    <3>1. \A n \in 0..15 : 15 - n \in 0..15 /\ n = 15 - (15 - n)
      OBVIOUS
    <3>2. \A n : n \in Bitrev16(0..15) <=> n \in 0..15
      BY <3>1, Zenon DEF Bitrev16
    <3>3. Bitrev16(0..15) \in SUBSET (0..15) /\ 0..15 \in SUBSET Bitrev16(0..15)
      BY <3>2
    <3>. QED
      BY <3>3
  <2>4. 8 * 0 = 0 /\ 0 \in 0..L
    BY <1>1
  <2>. QED
    BY <2>1, <2>2, <2>3, <2>4
<1>5. ASSUME NEW k \in 0..(L - 1), k \in T PROVE k + 1 \in T
  <2>. DEFINE d == bytes[k + 1]
              r0 == w[k]
              r1 == Step(r0, d, 0)
              r2 == Step(r1, d, 1)
              r3 == Step(r2, d, 2)
              r4 == Step(r3, d, 3)
              r5 == Step(r4, d, 4)
              r6 == Step(r5, d, 5)
              r7 == Step(r6, d, 6)
              r8 == Step(r7, d, 7)
              m == 8 * k
  <2>1. /\ k + 1 \in 0..L /\ k + 1 # 0 /\ (k + 1) - 1 = k /\ k + 1 \in 1..L /\ d \in Nat
        /\ k \in Nat /\ m \in Nat /\ 8 * (k + 1) = m + 8
    BY <1>1
  <2>2. w[k + 1] = CrcUpdate(r0, d)
    BY <1>2, <2>1 DEF CrcAfter
  <2>3. r0 \in SUBSET (0..15) /\ g[m] = Bitrev16(r0)
    BY <1>5
  <2>4. w[k + 1] \in SUBSET (0..15) /\ w[k + 1] = r8
    BY <2>1, <2>2, <2>3, CrcUpdateIs
  <2>5. ASSUME NEW n \in 0..7
        PROVE  g[(m + n) + 1] = Crc16Shift(g[m + n], d, n)
    <3>1. /\ (m + n) + 1 \in 0..(8 * L) /\ (m + n) + 1 # 0 /\ ((m + n) + 1) - 1 = m + n
          /\ (m + n) \div 8 = k /\ (m + n) % 8 = n
      BY <1>1, <2>1
    <3>2. g[(m + n) + 1] = Shifted(g[m + n], bytes, (m + n) + 1)
      BY <1>3, <3>1 DEF Crc16After
    <3>. HIDE DEF m
    <3>. QED
      BY <3>1, <3>2 DEF Shifted
  <2>. HIDE DEF d, m
  <2>6. /\ g[m + 1] = Crc16Shift(g[m], d, 0) /\ g[m + 2] = Crc16Shift(g[m + 1], d, 1)
        /\ g[m + 3] = Crc16Shift(g[m + 2], d, 2) /\ g[m + 4] = Crc16Shift(g[m + 3], d, 3)
        /\ g[m + 5] = Crc16Shift(g[m + 4], d, 4) /\ g[m + 6] = Crc16Shift(g[m + 5], d, 5)
        /\ g[m + 7] = Crc16Shift(g[m + 6], d, 6) /\ g[m + 8] = Crc16Shift(g[m + 7], d, 7)
    <3>1. /\ m + 0 = m /\ (m + 0) + 1 = m + 1 /\ (m + 1) + 1 = m + 2 /\ (m + 2) + 1 = m + 3
          /\ (m + 3) + 1 = m + 4 /\ (m + 4) + 1 = m + 5 /\ (m + 5) + 1 = m + 6
          /\ (m + 6) + 1 = m + 7 /\ (m + 7) + 1 = m + 8
      BY <2>1
    <3>2. /\ 0 \in 0..7 /\ 1 \in 0..7 /\ 2 \in 0..7 /\ 3 \in 0..7
          /\ 4 \in 0..7 /\ 5 \in 0..7 /\ 6 \in 0..7 /\ 7 \in 0..7
      OBVIOUS
    <3>. QED
      BY <2>5, <3>1, <3>2
  <2>7. r1 \in SUBSET (0..15) /\ g[m + 1] = Bitrev16(r1)
    <3>1. g[m] = Bitrev16(r0) /\ r0 \in SUBSET (0..15) /\ g[m + 1] = Crc16Shift(g[m], d, 0)
      BY <2>3, <2>6
    <3>2. Step(r0, d, 0) \in SUBSET (0..15) /\ Crc16Shift(g[m], d, 0) = Bitrev16(Step(r0, d, 0))
      BY <3>1, MirrorStep
    <3>. QED
      BY <3>1, <3>2
  <2>. HIDE DEF r1
  <2>8. r2 \in SUBSET (0..15) /\ g[m + 2] = Bitrev16(r2)
    <3>1. g[m + 1] = Bitrev16(r1) /\ r1 \in SUBSET (0..15) /\ g[m + 2] = Crc16Shift(g[m + 1], d, 1)
      BY <2>7, <2>6
    <3>2. Step(r1, d, 1) \in SUBSET (0..15) /\ Crc16Shift(g[m + 1], d, 1) = Bitrev16(Step(r1, d, 1))
      <4>. HIDE DEF r1
      <4>. QED
        BY <3>1, MirrorStep
    <3>. QED
      BY <3>1, <3>2
  <2>. HIDE DEF r2
  <2>9. r3 \in SUBSET (0..15) /\ g[m + 3] = Bitrev16(r3)
    <3>1. g[m + 2] = Bitrev16(r2) /\ r2 \in SUBSET (0..15) /\ g[m + 3] = Crc16Shift(g[m + 2], d, 2)
      BY <2>8, <2>6
    <3>2. Step(r2, d, 2) \in SUBSET (0..15) /\ Crc16Shift(g[m + 2], d, 2) = Bitrev16(Step(r2, d, 2))
      <4>. HIDE DEF r2
      <4>. QED
        BY <3>1, MirrorStep
    <3>. QED
      BY <3>1, <3>2
  <2>. HIDE DEF r3
  <2>10. r4 \in SUBSET (0..15) /\ g[m + 4] = Bitrev16(r4)
    <3>1. g[m + 3] = Bitrev16(r3) /\ r3 \in SUBSET (0..15) /\ g[m + 4] = Crc16Shift(g[m + 3], d, 3)
      BY <2>9, <2>6
    <3>2. Step(r3, d, 3) \in SUBSET (0..15) /\ Crc16Shift(g[m + 3], d, 3) = Bitrev16(Step(r3, d, 3))
      <4>. HIDE DEF r3
      <4>. QED
        BY <3>1, MirrorStep
    <3>. QED
      BY <3>1, <3>2
  <2>. HIDE DEF r4
  <2>11. r5 \in SUBSET (0..15) /\ g[m + 5] = Bitrev16(r5)
    <3>1. g[m + 4] = Bitrev16(r4) /\ r4 \in SUBSET (0..15) /\ g[m + 5] = Crc16Shift(g[m + 4], d, 4)
      BY <2>10, <2>6
    <3>2. Step(r4, d, 4) \in SUBSET (0..15) /\ Crc16Shift(g[m + 4], d, 4) = Bitrev16(Step(r4, d, 4))
      <4>. HIDE DEF r4
      <4>. QED
        BY <3>1, MirrorStep
    <3>. QED
      BY <3>1, <3>2
  <2>. HIDE DEF r5
  <2>12. r6 \in SUBSET (0..15) /\ g[m + 6] = Bitrev16(r6)
    <3>1. g[m + 5] = Bitrev16(r5) /\ r5 \in SUBSET (0..15) /\ g[m + 6] = Crc16Shift(g[m + 5], d, 5)
      BY <2>11, <2>6
    <3>2. Step(r5, d, 5) \in SUBSET (0..15) /\ Crc16Shift(g[m + 5], d, 5) = Bitrev16(Step(r5, d, 5))
      <4>. HIDE DEF r5
      <4>. QED
        BY <3>1, MirrorStep
    <3>. QED
      BY <3>1, <3>2
  <2>. HIDE DEF r6
  <2>13. r7 \in SUBSET (0..15) /\ g[m + 7] = Bitrev16(r7)
    <3>1. g[m + 6] = Bitrev16(r6) /\ r6 \in SUBSET (0..15) /\ g[m + 7] = Crc16Shift(g[m + 6], d, 6)
      BY <2>12, <2>6
    <3>2. Step(r6, d, 6) \in SUBSET (0..15) /\ Crc16Shift(g[m + 6], d, 6) = Bitrev16(Step(r6, d, 6))
      <4>. HIDE DEF r6
      <4>. QED
        BY <3>1, MirrorStep
    <3>. QED
      BY <3>1, <3>2
  <2>. HIDE DEF r7
  <2>14. r8 \in SUBSET (0..15) /\ g[m + 8] = Bitrev16(r8)
    <3>1. g[m + 7] = Bitrev16(r7) /\ r7 \in SUBSET (0..15) /\ g[m + 8] = Crc16Shift(g[m + 7], d, 7)
      BY <2>13, <2>6
    <3>2. Step(r7, d, 7) \in SUBSET (0..15) /\ Crc16Shift(g[m + 7], d, 7) = Bitrev16(Step(r7, d, 7))
      <4>. HIDE DEF r7
      <4>. QED
        BY <3>1, MirrorStep
    <3>. QED
      BY <3>1, <3>2
  <2>. HIDE DEF r8
  <2>. QED
    BY <2>1, <2>4, <2>14 DEF m
<1>6. \A k \in 0..L : k \in T
  <2>. HIDE DEF T
  <2>. QED
    BY <1>1, <1>4, <1>5, UpTo
<1>. QED
  BY <1>1, <1>2, <1>3, <1>6

-----------------------------------------------------------------------------
(* The packets have different payloads.                                    *)
LEMMA PacketSet == Packets = {"sync", "sync_resp", "conf", "conf_resp", "data"}
BY DEF Packets, Payloads

LEMMA PayloadsDiffer ==
  /\ \A p \in Packets : Payloads[p] \in Seq(Nat) /\ Len(Payloads[p]) = 4
  /\ \A p, q \in Packets : Payloads[p] = Payloads[q] => p = q
<1>1. \A p \in Packets : Payloads[p] \in Seq(Nat) /\ Len(Payloads[p]) = 4
  <2>1. Payloads.sync \in Seq(Nat) /\ Len(Payloads.sync) = 4
    BY DEF Payloads
  <2>2. Payloads.sync_resp \in Seq(Nat) /\ Len(Payloads.sync_resp) = 4
    BY DEF Payloads
  <2>3. Payloads.conf \in Seq(Nat) /\ Len(Payloads.conf) = 4
    BY DEF Payloads
  <2>4. Payloads.conf_resp \in Seq(Nat) /\ Len(Payloads.conf_resp) = 4
    BY DEF Payloads
  <2>5. Payloads.data \in Seq(Nat) /\ Len(Payloads.data) = 4
    BY DEF Payloads
  <2>. QED
    BY <2>1, <2>2, <2>3, <2>4, <2>5, PacketSet
<1>2. /\ Payloads.sync[1] = 218 /\ Payloads.sync_resp[1] = 172 /\ Payloads.conf[1] = 173
      /\ Payloads.conf_resp[1] = 222 /\ Payloads.data[1] = 192
  BY DEF Payloads
<1>3. \A p, q \in Packets : Payloads[p][1] = Payloads[q][1] => p = q
  BY <1>2, PacketSet
<1>. QED
  BY <1>1, <1>3

(* What the receiver makes of a frame with the right header, a known       *)
(* payload and the right CRC, if there is one.                             *)
Proper(u, p, crc) ==
  /\ Len(u) = (IF crc THEN 10 ELSE 8) /\ SubSeq(u, 5, 8) = Payloads[p]
  /\ u[1] = (IF crc THEN 64 ELSE 0) /\ u[2] = 65 /\ u[3] = 0 /\ u[4] = (IF crc THEN 126 ELSE 190)
  /\ crc => Crc16(SubSeq(u, 1, 8)) = Bits(u[9] * 256 + u[10])

LEMMA DecodeIs ==
  ASSUME NEW bytes, NEW p \in Packets, NEW crc \in BOOLEAN, Proper(Unslip(bytes), p, crc)
  PROVE  Decode(bytes) = p
<1>. DEFINE u == Unslip(bytes)
            ps == {q \in Packets : Len(u) \in {8, 10} /\ Payloads[q] = SubSeq(u, 5, 8)}
<1>1. p \in ps /\ \A q \in ps : q = p
  <2>1. Len(u) \in {8, 10} /\ SubSeq(u, 5, 8) = Payloads[p]
    BY DEF Proper
  <2>. HIDE DEF u
  <2>2. p \in ps
    BY <2>1
  <2>3. ASSUME NEW q \in ps PROVE q = p
    <3>1. q \in Packets /\ Payloads[q] = Payloads[p]
      BY <2>1
    <3>. QED
      BY <3>1, PayloadsDiffer
  <2>. QED
    BY <2>2, <2>3
<1>. HIDE DEF ps
<1>2. (CHOOSE q \in ps : TRUE) = p
  BY <1>1
<1>3. /\ (u[1] + u[2] + u[3] + u[4]) % 256 = 255 /\ u[2] = 65 /\ u[3] = 0
      /\ \/ u[1] = 0 /\ Len(u) = 8
         \/ u[1] = 64 /\ Len(u) = 10 /\ Crc16(SubSeq(u, 1, 8)) = Bits(u[9] * 256 + u[10])
  BY DEF Proper
<1>. QED
  BY <1>1, <1>2, <1>3 DEF Decode, ps

(* Between the two ENDs of a frame.                                        *)
LEMMA InsideIs ==
  ASSUME NEW S, END \in S, NEW s \in Seq(S)
  PROVE  Inside(<<END>> \o s \o <<END>>) = s
<1>. DEFINE one == <<END>>
            a == one \o s
            f == a \o one
            n == Len(s)
<1>1. one \in Seq(S) /\ Len(one) = 1
  OBVIOUS
<1>. HIDE DEF one
<1>2. /\ a \in Seq(S) /\ n \in Nat /\ Len(a) = n + 1
      /\ \A k \in 1..n : a[k + 1] = s[k]
  <2>1. /\ a \in Seq(S) /\ Len(a) = Len(one) + Len(s)
        /\ \A k \in 1..(Len(one) + Len(s)) : a[k] = IF k <= Len(one) THEN one[k] ELSE s[k - Len(one)]
    BY <1>1, ConcatProperties
  <2>2. Len(s) \in Nat
    BY LenProperties
  <2>3. ASSUME NEW k \in 1..Len(s) PROVE a[k + 1] = s[k]
    <3>1. k + 1 \in 1..(Len(one) + Len(s)) /\ ~(k + 1 <= Len(one)) /\ (k + 1) - Len(one) = k
      BY <1>1, <2>2
    <3>. QED
      BY <2>1, <3>1
  <2>. QED
    BY <1>1, <2>1, <2>2, <2>3
<1>. HIDE DEF a
<1>3. /\ f \in Seq(S) /\ Len(f) = n + 2
      /\ \A k \in 1..n : f[k + 1] = s[k]
  <2>1. /\ f \in Seq(S) /\ Len(f) = Len(a) + Len(one)
        /\ \A k \in 1..(Len(a) + Len(one)) : f[k] = IF k <= Len(a) THEN a[k] ELSE one[k - Len(a)]
    BY <1>1, <1>2, ConcatProperties
  <2>2. ASSUME NEW k \in 1..n PROVE f[k + 1] = s[k]
    <3>1. k + 1 \in 1..(Len(a) + Len(one)) /\ k + 1 <= Len(a)
      BY <1>1, <1>2
    <3>. QED
      BY <1>2, <2>1, <3>1
  <2>. QED
    BY <1>1, <1>2, <2>1, <2>2
<1>. HIDE DEF f
<1>. DEFINE m == SubSeq(f, 2, n + 1)
<1>4. m \in Seq(S) /\ Len(m) = n /\ \A i \in 1..n : m[i] = s[i]
  <2>1. \A i \in 2..(n + 1) : f[i] \in S
    BY <1>2, <1>3, LenProperties
  <2>2. /\ m \in Seq(S) /\ Len(m) = (IF 2 <= n + 1 THEN (n + 1) - 2 + 1 ELSE 0)
        /\ \A i \in 1..((n + 1) - 2 + 1) : m[i] = f[2 + i - 1]
    <3>1. 2 \in Int /\ n + 1 \in Int
      BY <1>2
    <3>. QED
      BY <2>1, <3>1, SubSeqProperties
  <2>3. Len(m) = n
    BY <1>2, <2>2
  <2>4. ASSUME NEW i \in 1..n PROVE m[i] = s[i]
    <3>1. i \in 1..((n + 1) - 2 + 1) /\ 2 + i - 1 = i + 1
      BY <1>2
    <3>. QED
      BY <1>3, <2>2, <3>1
  <2>. QED
    BY <2>2, <2>3, <2>4
<1>. HIDE DEF m
<1>5. m = s
  BY <1>2, <1>4, SeqEqual
<1>6. Inside(f) = m
  BY <1>2, <1>3 DEF Inside, m
<1>. QED
  BY <1>5, <1>6 DEF f, a, one

LEMMA ConcatIs ==
  ASSUME NEW S, NEW s \in Seq(S), NEW t \in Seq(S)
  PROVE  /\ s \o t \in Seq(S) /\ Len(s) \in Nat /\ Len(t) \in Nat
         /\ Len(s \o t) = Len(s) + Len(t)
         /\ DOMAIN s = 1..Len(s) /\ DOMAIN t = 1..Len(t) /\ DOMAIN (s \o t) = 1..(Len(s) + Len(t))
         /\ \A i \in 1..Len(s) : (s \o t)[i] = s[i]
         /\ \A i \in 1..Len(t) : (s \o t)[Len(s) + i] = t[i]
<1>1. /\ s \o t \in Seq(S) /\ Len(s) \in Nat /\ Len(t) \in Nat
      /\ Len(s \o t) = Len(s) + Len(t)
      /\ \A i \in 1..(Len(s) + Len(t)) : (s \o t)[i] = IF i <= Len(s) THEN s[i] ELSE t[i - Len(s)]
  BY ConcatProperties, LenProperties
<1>2. DOMAIN s = 1..Len(s) /\ DOMAIN t = 1..Len(t) /\ DOMAIN (s \o t) = 1..(Len(s) + Len(t))
  BY <1>1, LenProperties
<1>. DEFINE st == s \o t
<1>. HIDE DEF st
<1>3. ASSUME NEW i \in 1..Len(s) PROVE st[i] = s[i]
  <2>1. i \in 1..(Len(s) + Len(t)) /\ i <= Len(s)
    BY <1>1
  <2>. QED
    BY <1>1, <2>1 DEF st
<1>4. ASSUME NEW i \in 1..Len(t) PROVE st[Len(s) + i] = t[i]
  <2>1. Len(s) + i \in 1..(Len(s) + Len(t)) /\ ~(Len(s) + i <= Len(s)) /\ (Len(s) + i) - Len(s) = i
    BY <1>1
  <2>. QED
    BY <1>1, <2>1 DEF st
<1>. QED
  BY <1>1, <1>2, <1>3, <1>4 DEF st

(* The bits of a number of two bytes.                                      *)
HighLow(x, hi, lo) ==
  /\ x % 2 = lo % 2
  /\ (x \div 2) % 2 = (lo \div 2) % 2
  /\ (x \div 4) % 2 = (lo \div 4) % 2
  /\ (x \div 8) % 2 = (lo \div 8) % 2
  /\ (x \div 16) % 2 = (lo \div 16) % 2
  /\ (x \div 32) % 2 = (lo \div 32) % 2
  /\ (x \div 64) % 2 = (lo \div 64) % 2
  /\ (x \div 128) % 2 = (lo \div 128) % 2
  /\ (x \div 256) % 2 = hi % 2
  /\ (x \div 512) % 2 = (hi \div 2) % 2
  /\ (x \div 1024) % 2 = (hi \div 4) % 2
  /\ (x \div 2048) % 2 = (hi \div 8) % 2
  /\ (x \div 4096) % 2 = (hi \div 16) % 2
  /\ (x \div 8192) % 2 = (hi \div 32) % 2
  /\ (x \div 16384) % 2 = (hi \div 64) % 2
  /\ (x \div 32768) % 2 = (hi \div 128) % 2

LEMMA HighAndLow ==
  ASSUME NEW hi \in 0..255, NEW lo \in 0..255, NEW x, x = hi * 256 + lo
  PROVE  HighLow(x, hi, lo)
<1>1. x % 2 = lo % 2
  OBVIOUS
<1>2. (x \div 2) % 2 = (lo \div 2) % 2
  OBVIOUS
<1>3. (x \div 4) % 2 = (lo \div 4) % 2
  OBVIOUS
<1>4. (x \div 8) % 2 = (lo \div 8) % 2
  OBVIOUS
<1>5. (x \div 16) % 2 = (lo \div 16) % 2
  OBVIOUS
<1>6. (x \div 32) % 2 = (lo \div 32) % 2
  OBVIOUS
<1>7. (x \div 64) % 2 = (lo \div 64) % 2
  OBVIOUS
<1>8. (x \div 128) % 2 = (lo \div 128) % 2
  OBVIOUS
<1>9. (x \div 256) % 2 = hi % 2
  OBVIOUS
<1>10. (x \div 512) % 2 = (hi \div 2) % 2
  OBVIOUS
<1>11. (x \div 1024) % 2 = (hi \div 4) % 2
  OBVIOUS
<1>12. (x \div 2048) % 2 = (hi \div 8) % 2
  OBVIOUS
<1>13. (x \div 4096) % 2 = (hi \div 16) % 2
  OBVIOUS
<1>14. (x \div 8192) % 2 = (hi \div 32) % 2
  OBVIOUS
<1>15. (x \div 16384) % 2 = (hi \div 64) % 2
  OBVIOUS
<1>16. (x \div 32768) % 2 = (hi \div 128) % 2
  OBVIOUS
<1>. QED
  BY <1>1, <1>2, <1>3, <1>4, <1>5, <1>6, <1>7, <1>8, <1>9, <1>10, <1>11, <1>12, <1>13, <1>14, <1>15, <1>16 DEF HighLow

(* The two bytes of a CRC are its bits.                                    *)
LEMMA WordIs ==
  ASSUME NEW W \in SUBSET (0..15), NEW hi, NEW lo,
         hi = Byte({n - 8 : n \in W \ 0..7}), lo = Byte(W \cap 0..7)
  PROVE  hi \in 0..255 /\ lo \in 0..255 /\ Bits(hi * 256 + lo) = W
<1>. DEFINE H == {n - 8 : n \in W \ 0..7}
            O == W \cap 0..7
            x == hi * 256 + lo
<1>1. H \in SUBSET (0..7) /\ \A n \in 0..7 : n \in H <=> n + 8 \in W
  <2>1. ASSUME NEW n \in W \ 0..7 PROVE n - 8 \in 0..7
    OBVIOUS
  <2>2. ASSUME NEW n \in 0..7, n + 8 \in W PROVE n \in H
    <3>1. n + 8 \in W \ 0..7 /\ (n + 8) - 8 = n
      BY <2>2
    <3>. QED
      BY <3>1
  <2>3. ASSUME NEW n \in 0..7, n \in H PROVE n + 8 \in W
    <3>1. PICK m \in W \ 0..7 : n = m - 8
      BY <2>3
    <3>2. n + 8 = m
      BY <3>1
    <3>. QED
      BY <3>2
  <2>. QED
    BY <2>1, <2>2, <2>3
<1>2. O \in SUBSET (0..7) /\ \A n \in 0..7 : n \in O <=> n \in W
  OBVIOUS
<1>. HIDE DEF H, O
<1>3. hi \in 0..255 /\ lo \in 0..255 /\ Bits(hi) = H /\ Bits(lo) = O
  BY <1>1, <1>2, ByteIs DEF H, O
<1>4. hi \in 0..255 /\ lo \in 0..255 /\ x = hi * 256 + lo
  BY <1>3
<1>5. x \in Nat
  BY <1>3
<1>. HIDE DEF x
<1>6. HighLow(x, hi, lo)
  BY <1>4, HighAndLow
<1>7. /\ Bits(x) \in SUBSET (0..15) /\ BitsAre(x, Bits(x))
      /\ BitsAre(hi, H) /\ BitsAre(lo, O)
  BY <1>3, <1>5, BitsIs
<1>8. /\ 0 \in O <=> 0 \in W
      /\ 1 \in O <=> 1 \in W
      /\ 2 \in O <=> 2 \in W
      /\ 3 \in O <=> 3 \in W
      /\ 4 \in O <=> 4 \in W
      /\ 5 \in O <=> 5 \in W
      /\ 6 \in O <=> 6 \in W
      /\ 7 \in O <=> 7 \in W
  BY <1>2
<1>9. /\ 0 \in H <=> 8 \in W
      /\ 1 \in H <=> 9 \in W
      /\ 2 \in H <=> 10 \in W
      /\ 3 \in H <=> 11 \in W
      /\ 4 \in H <=> 12 \in W
      /\ 5 \in H <=> 13 \in W
      /\ 6 \in H <=> 14 \in W
      /\ 7 \in H <=> 15 \in W
  BY <1>1
<1>10. Sixteen(Bits(x), W)
  BY <1>6, <1>7, <1>8, <1>9 DEF HighLow, BitsAre, Sixteen
<1>11. Bits(x) = W
  BY <1>7, <1>10, SameBits
<1>. QED
  BY <1>3, <1>11 DEF x

(* What is in a frame of the program: header, payload and CRC.             *)
LEMMA ContentsIs ==
  ASSUME NEW p \in Packets, NEW crc \in BOOLEAN
  PROVE  /\ Contents(Payloads[p], crc) \in Seq(Nat)
         /\ Proper(Contents(Payloads[p], crc), p, crc)
<1>. DEFINE flags == IF crc THEN 64 ELSE 0
            head  == <<flags, 65, 0, 255 - ((flags + 65) % 256)>>
            pay   == Payloads[p]
            body  == head \o pay
            check == Bitrev16(Crc(body))
            x == Byte({n - 8 : n \in check \ 0..7})
            y == Byte(check \cap 0..7)
            xy == <<x, y>>
            c == Contents(pay, crc)
<1>1. c = IF crc THEN body \o xy ELSE body
  BY DEF Contents
<1>2. /\ head \in Seq(Nat) /\ Len(head) = 4
      /\ head[1] = flags /\ head[2] = 65 /\ head[3] = 0 /\ head[4] = (IF crc THEN 126 ELSE 190)
  OBVIOUS
<1>3. pay \in Seq(Nat) /\ Len(pay) = 4
  BY PayloadsDiffer
<1>. HIDE DEF head, pay
<1>4. /\ body \in Seq(Nat) /\ Len(body) = 8
      /\ \A k \in 1..4 : body[k] = head[k]
      /\ \A k \in 1..4 : body[4 + k] = pay[k]
  <2>1. body \in Seq(Nat) /\ Len(body) = Len(head) + Len(pay)
        /\ \A k \in 1..(Len(head) + Len(pay)) :
             body[k] = IF k <= Len(head) THEN head[k] ELSE pay[k - Len(head)]
    <3>1. head \in Seq(Nat) /\ pay \in Seq(Nat)
      BY <1>2, <1>3
    <3>. QED
      BY <3>1, ConcatProperties
  <2>2. Len(body) = 8
    BY <1>2, <1>3, <2>1
  <2>3. ASSUME NEW k \in 1..4 PROVE body[4 + k] = pay[k]
    <3>1. 4 + k \in 1..(Len(head) + Len(pay)) /\ ~(4 + k <= Len(head)) /\ (4 + k) - Len(head) = k
      BY <1>2, <1>3
    <3>. QED
      BY <2>1, <3>1
  <2>4. ASSUME NEW k \in 1..4 PROVE body[k] = head[k]
    <3>1. k \in 1..(Len(head) + Len(pay)) /\ k <= Len(head)
      BY <1>2, <1>3
    <3>. QED
      BY <2>1, <3>1
  <2>. QED
    BY <2>1, <2>2, <2>3, <2>4
<1>. HIDE DEF body
<1>5. check \in SUBSET (0..15) /\ Crc16(body) = check
  <2>1. Crc(body) \in SUBSET (0..15) /\ Crc16(body) = check
    BY <1>4, CrcCorrect
  <2>2. ASSUME NEW B \in SUBSET (0..15) PROVE Bitrev16(B) \in SUBSET (0..15)
    BY DEF Bitrev16
  <2>. QED
    BY <2>1, <2>2
<1>. HIDE DEF check
<1>6. x \in 0..255 /\ y \in 0..255 /\ Bits(x * 256 + y) = check
  <2>1. x = Byte({n - 8 : n \in check \ 0..7}) /\ y = Byte(check \cap 0..7)
    OBVIOUS
  <2>. HIDE DEF x, y
  <2>. QED
    BY <1>5, <2>1, WordIs
<1>. HIDE DEF x, y
<1>7. xy \in Seq(Nat) /\ Len(xy) = 2 /\ xy[1] = x /\ xy[2] = y
  BY <1>6
<1>. HIDE DEF xy
<1>8. /\ c \in Seq(Nat) /\ Len(c) = (IF crc THEN 10 ELSE 8)
      /\ \A k \in 1..8 : c[k] = body[k]
      /\ crc => c[9] = x /\ c[10] = y
  <2>1. CASE ~crc
    BY <1>1, <1>4, <2>1
  <2>2. CASE crc
    <3>1. /\ body \o xy \in Seq(Nat) /\ Len(body \o xy) = Len(body) + Len(xy)
          /\ \A i \in 1..Len(body) : (body \o xy)[i] = body[i]
          /\ \A i \in 1..Len(xy) : (body \o xy)[Len(body) + i] = xy[i]
      <4>1. body \in Seq(Nat) /\ xy \in Seq(Nat)
        BY <1>4, <1>7
      <4>. QED
        BY <4>1, ConcatIs
    <3>2. c = body \o xy
      BY <1>1, <2>2
    <3>. HIDE DEF c
    <3>3. c[8 + 1] = xy[1] /\ c[8 + 2] = xy[2] /\ Len(c) = 8 + 2
      <4>1. 1 \in 1..Len(xy) /\ 2 \in 1..Len(xy)
        BY <1>7
      <4>. QED
        BY <1>4, <1>7, <3>1, <3>2, <4>1
    <3>4. \A k \in 1..8 : c[k] = body[k]
      BY <1>4, <3>1, <3>2
    <3>5. c \in Seq(Nat)
      BY <3>1, <3>2
    <3>6. c[9] = x /\ c[10] = y /\ Len(c) = 10
      <4>1. 8 + 1 = 9 /\ 8 + 2 = 10
        OBVIOUS
      <4>. QED
        BY <1>7, <3>3, <4>1
    <3>. QED
      BY <2>2, <3>4, <3>5, <3>6
  <2>. QED
    BY <2>1, <2>2
<1>. HIDE DEF c
<1>9. \A i \in 1..8 : c[i] \in Nat
  <2>1. \A i \in 1..8 : body[i] \in Nat
    BY <1>4, LenProperties
  <2>. QED
    BY <1>8, <2>1
<1>10. SubSeq(c, 5, 8) = pay
  <2>1. /\ SubSeq(c, 5, 8) \in Seq(Nat) /\ Len(SubSeq(c, 5, 8)) = 4
        /\ \A i \in 1..4 : SubSeq(c, 5, 8)[i] = c[5 + i - 1]
    <3>1. \A i \in 5..8 : c[i] \in Nat
      BY <1>9
    <3>2. /\ SubSeq(c, 5, 8) \in Seq(Nat) /\ Len(SubSeq(c, 5, 8)) = (IF 5 <= 8 THEN 8 - 5 + 1 ELSE 0)
          /\ \A i \in 1..(8 - 5 + 1) : SubSeq(c, 5, 8)[i] = c[5 + i - 1]
      BY <3>1, SubSeqProperties
    <3>. QED
      BY <3>2
  <2>2. \A i \in 1..4 : SubSeq(c, 5, 8)[i] = pay[i]
    <3>1. \A i \in 1..4 : 5 + i - 1 = 4 + i /\ 4 + i \in 1..8
      OBVIOUS
    <3>2. ASSUME NEW i \in 1..4 PROVE SubSeq(c, 5, 8)[i] = pay[i]
      <4>1. SubSeq(c, 5, 8)[i] = c[4 + i]
        BY <2>1, <3>1
      <4>2. c[4 + i] = body[4 + i]
        BY <1>8, <3>1
      <4>. QED
        BY <1>4, <4>1, <4>2
    <3>. QED
      BY <3>2
  <2>. QED
    <3>1. SubSeq(c, 5, 8) \in Seq(Nat) /\ pay \in Seq(Nat) /\ Len(SubSeq(c, 5, 8)) = Len(pay)
      BY <1>3, <2>1
    <3>2. \A i \in 1..Len(SubSeq(c, 5, 8)) : SubSeq(c, 5, 8)[i] = pay[i]
      BY <2>1, <2>2
    <3>. QED
      BY <3>1, <3>2, SeqEqual
<1>11. SubSeq(c, 1, 8) = body
  <2>1. /\ SubSeq(c, 1, 8) \in Seq(Nat) /\ Len(SubSeq(c, 1, 8)) = 8
        /\ \A i \in 1..8 : SubSeq(c, 1, 8)[i] = c[1 + i - 1]
    <3>1. /\ SubSeq(c, 1, 8) \in Seq(Nat) /\ Len(SubSeq(c, 1, 8)) = (IF 1 <= 8 THEN 8 - 1 + 1 ELSE 0)
          /\ \A i \in 1..(8 - 1 + 1) : SubSeq(c, 1, 8)[i] = c[1 + i - 1]
      BY <1>9, SubSeqProperties
    <3>. QED
      BY <3>1
  <2>2. \A i \in 1..8 : SubSeq(c, 1, 8)[i] = body[i]
    <3>1. \A i \in 1..8 : 1 + i - 1 = i
      OBVIOUS
    <3>. QED
      BY <1>8, <2>1, <3>1
  <2>. QED
    <3>1. SubSeq(c, 1, 8) \in Seq(Nat) /\ body \in Seq(Nat) /\ Len(SubSeq(c, 1, 8)) = Len(body)
      BY <1>4, <2>1
    <3>2. \A i \in 1..Len(SubSeq(c, 1, 8)) : SubSeq(c, 1, 8)[i] = body[i]
      BY <2>1, <2>2
    <3>. QED
      BY <3>1, <3>2, SeqEqual
<1>12. c[1] = flags /\ c[2] = 65 /\ c[3] = 0 /\ c[4] = (IF crc THEN 126 ELSE 190)
  <2>1. c[1] = head[1] /\ c[2] = head[2] /\ c[3] = head[3] /\ c[4] = head[4]
    <3>1. \A k \in 1..4 : k \in 1..8
      OBVIOUS
    <3>2. \A k \in 1..4 : c[k] = head[k]
      BY <1>4, <1>8, <3>1
    <3>. QED
      BY <3>2
  <2>. QED
    BY <1>2, <2>1
<1>13. crc => Crc16(SubSeq(c, 1, 8)) = Bits(c[9] * 256 + c[10])
  BY <1>5, <1>6, <1>8, <1>11
<1>. QED
  BY <1>8, <1>10, <1>12, <1>13 DEF Proper, c, pay

(* So the chip understands every packet as what it is.                     *)
LEMMA UnderstoodIs ==
  /\ Understood.sync = "sync" /\ Understood.sync_resp = "sync_resp"
  /\ Understood.conf = "conf" /\ Understood.conf_resp = "conf_resp"
<1>1. ASSUME NEW p \in Packets PROVE Sent(p) = p
  <2>. DEFINE c == Contents(Payloads[p], UseCrc)
              f == FrameOf(Payloads[p], UseCrc)
  <2>1. {END, ESC, 220, 221} \subseteq Nat /\ c \in Seq(Nat) /\ Proper(c, p, UseCrc)
    BY ContentsIs, BoundsAssumption DEF END, ESC
  <2>2. Slip(c) \in Seq(Nat) /\ Unslip(Slip(c)) = c
    <3>. HIDE DEF c
    <3>. QED
      BY <2>1, UnslipSlip
  <2>3. f = <<END>> \o Slip(c) \o <<END>>
    BY DEF FrameOf
  <2>. HIDE DEF c, f
  <2>4. Inside(f) = Slip(c)
    BY <2>1, <2>2, <2>3, InsideIs
  <2>5. Decode(Inside(f)) = p
    BY <2>1, <2>2, <2>4, DecodeIs, BoundsAssumption
  <2>. QED
    BY <2>5 DEF Sent, f
<1>2. {"sync", "sync_resp", "conf", "conf_resp"} \subseteq Packets
  BY PacketSet
<1>. QED
  BY <1>1, <1>2 DEF Understood

-----------------------------------------------------------------------------
(* The decoder and the handshake keep their types.                         *)
LeState == [in : BOOLEAN, esc : BOOLEAN, buf : Seq(Nat)]
Replies == {"sync_resp", "conf_resp"}
Handshake == [le : LeState, state : {0, 1}, replies : Seq(Replies), active : BOOLEAN,
              heard : [Packets -> Nat]]

(* One byte makes the buffer empty, leaves it or is added to it.           *)
LEMMA LeFeedIs ==
  ASSUME NEW l \in LeState, NEW b \in Nat
  PROVE  /\ LeFeed(l, b) \in LeState
         /\ \/ LeFeed(l, b).buf = <<>>
            \/ LeFeed(l, b).buf = l.buf
            \/ /\ b # END /\ Len(l.buf) # BufSize
               /\ LeFeed(l, b).buf = Append(l.buf, IF l.esc THEN Unescaped(b) ELSE b)
<1>1. Unescaped(b) \in Nat
  BY DEF Unescaped, END, ESC
<1>2. CASE b = END
  BY <1>2 DEF LeFeed, LeState
<1>3. CASE b # END /\ (~l.in \/ (~l.esc /\ b = ESC))
  BY <1>3 DEF LeFeed, LeState
<1>4. CASE b # END /\ l.in /\ ~(~l.esc /\ b = ESC)
  <2>1. LeFeed(l, b) = [l EXCEPT !.esc = FALSE,
                          !.buf = IF Len(@) = BufSize THEN @
                                  ELSE Append(@, IF l.esc THEN Unescaped(b) ELSE b)]
    BY <1>4 DEF LeFeed
  <2>2. (IF l.esc THEN Unescaped(b) ELSE b) \in Nat
    BY <1>1
  <2>3. LeFeed(l, b).buf = IF Len(l.buf) = BufSize THEN l.buf
                           ELSE Append(l.buf, IF l.esc THEN Unescaped(b) ELSE b)
    BY <2>1 DEF LeState
  <2>4. LeFeed(l, b) \in LeState
    <3>. DEFINE x == IF l.esc THEN Unescaped(b) ELSE b
                grown == IF Len(l.buf) = BufSize THEN l.buf ELSE Append(l.buf, x)
    <3>1. l.buf \in Seq(Nat)
      BY DEF LeState
    <3>2. grown \in Seq(Nat)
      <4>. HIDE DEF x
      <4>. QED
        BY <2>2, <3>1 DEF x
    <3>3. LeFeed(l, b) = [l EXCEPT !.esc = FALSE, !.buf = grown]
      BY <2>1
    <3>. HIDE DEF grown
    <3>. QED
      BY <3>2, <3>3 DEF LeState
  <2>. QED
    BY <1>4, <2>3, <2>4
<1>. QED
  BY <1>2, <1>3, <1>4

LEMMA AnswerIs ==
  ASSUME NEW h \in Handshake, NEW p
  PROVE  /\ Answer(h, p) \in Handshake
         /\ Answer(h, p).le = h.le /\ Answer(h, p).heard = h.heard
         /\ h.state = 1 => Answer(h, p).state = 1
         /\ Answer(h, p).active => h.active \/ p = Payloads.conf_resp
<1>0. \A q, r \in {"sync", "sync_resp", "conf", "conf_resp"} : Payloads[q] = Payloads[r] => q = r
  BY PayloadsDiffer, PacketSet
<1>1. CASE p = Payloads.sync
  <2>1. Answer(h, p) = [h EXCEPT !.replies = Append(@, "sync_resp")]
    BY <1>1, <1>0 DEF Answer
  <2>2. Append(h.replies, "sync_resp") \in Seq(Replies)
    BY DEF Handshake, Replies
  <2>. QED
    BY <2>1, <2>2 DEF Handshake
<1>2. CASE p # Payloads.sync /\ p = Payloads.sync_resp
  <2>1. Answer(h, p) = [h EXCEPT !.state = 1]
    BY <1>2, <1>0 DEF Answer
  <2>. QED
    BY <2>1 DEF Handshake
<1>3. CASE p # Payloads.sync /\ p # Payloads.sync_resp /\ p = Payloads.conf
  <2>1. Answer(h, p) = [h EXCEPT !.replies = Append(@, "conf_resp")]
    BY <1>3, <1>0 DEF Answer
  <2>2. Append(h.replies, "conf_resp") \in Seq(Replies)
    BY DEF Handshake, Replies
  <2>. QED
    BY <2>1, <2>2 DEF Handshake
<1>4. CASE p # Payloads.sync /\ p # Payloads.sync_resp /\ p # Payloads.conf /\ p = Payloads.conf_resp
  <2>1. Answer(h, p) = [h EXCEPT !.active = TRUE]
    BY <1>4, <1>0 DEF Answer
  <2>. QED
    BY <1>4, <2>1 DEF Handshake
<1>5. CASE /\ p # Payloads.sync /\ p # Payloads.sync_resp
           /\ p # Payloads.conf /\ p # Payloads.conf_resp
  <2>1. Answer(h, p) = h
    BY <1>5 DEF Answer
  <2>. QED
    BY <2>1
<1>. QED
  BY <1>1, <1>2, <1>3, <1>4, <1>5

(* What a packet that is heard adds to the count.                          *)
HeardPacket(p, packet) == IF Payloads[p] = packet THEN 1 ELSE 0

LEMMA TakeByteIs ==
  ASSUME NEW h \in Handshake, NEW b \in Nat
  PROVE  /\ TakeByte(h, b) \in Handshake
         /\ h.active => TakeByte(h, b) = h
         /\ ~h.active => TakeByte(h, b).le = LeFeed(h.le, b)
         /\ h.state = 1 => TakeByte(h, b).state = 1
         /\ TakeByte(h, b).active =>
              \/ h.active
              \/ Completed(h.le, b) /\ Packet(h.le) = Payloads.conf_resp
         /\ ~h.active => \A p \in Packets : TakeByte(h, b).heard[p] =
              h.heard[p] + IF Completed(h.le, b) THEN HeardPacket(p, Packet(h.le)) ELSE 0
<1>. DEFINE fed == [h EXCEPT !.le = LeFeed(@, b)]
            count == [p \in Packets |-> h.heard[p] + IF Payloads[p] = Packet(h.le) THEN 1 ELSE 0]
            told == [fed EXCEPT !.heard = [p \in Packets |-> @[p] + IF Payloads[p] = Packet(h.le) THEN 1 ELSE 0]]
<1>1. /\ fed \in Handshake /\ fed.le = LeFeed(h.le, b) /\ fed.heard = h.heard
      /\ fed.state = h.state /\ fed.active = h.active
  BY LeFeedIs DEF Handshake
<1>. HIDE DEF fed
<1>2. count \in [Packets -> Nat]
  BY DEF Handshake
<1>3. told = [fed EXCEPT !.heard = count]
  BY <1>1
<1>4. \A p \in Packets : count[p] = h.heard[p] + HeardPacket(p, Packet(h.le))
  BY DEF HeardPacket
<1>. HIDE DEF count
<1>5. /\ told \in Handshake /\ told.le = LeFeed(h.le, b) /\ told.heard = count
      /\ told.state = h.state /\ told.active = h.active
  <2>. HIDE DEF told
  <2>. QED
    BY <1>1, <1>2, <1>3 DEF Handshake
<1>6. TakeByte(h, b) = IF h.active THEN h
                       ELSE IF Completed(h.le, b) THEN Answer(told, Packet(h.le)) ELSE fed
  BY DEF TakeByte, fed
<1>. HIDE DEF told
<1>7. CASE h.active
  BY <1>6, <1>7
<1>8. CASE ~h.active /\ Completed(h.le, b)
  <2>1. TakeByte(h, b) = Answer(told, Packet(h.le))
    BY <1>6, <1>8
  <2>2. /\ Answer(told, Packet(h.le)) \in Handshake
        /\ Answer(told, Packet(h.le)).le = told.le
        /\ Answer(told, Packet(h.le)).heard = told.heard
        /\ told.state = 1 => Answer(told, Packet(h.le)).state = 1
        /\ Answer(told, Packet(h.le)).active => told.active \/ Packet(h.le) = Payloads.conf_resp
    BY <1>5, AnswerIs
  <2>. QED
    BY <1>4, <1>5, <1>8, <2>1, <2>2
<1>9. CASE ~h.active /\ ~Completed(h.le, b)
  <2>1. TakeByte(h, b) = fed
    BY <1>6, <1>9
  <2>2. \A p \in Packets : h.heard[p] \in Nat
    BY DEF Handshake
  <2>. QED
    BY <1>1, <1>9, <2>1, <2>2
<1>. QED
  BY <1>7, <1>8, <1>9

-----------------------------------------------------------------------------
(* What a sequence holds.                                                  *)
Has(s, x) == \E i \in DOMAIN s : s[i] = x

LEMMA HasAppend ==
  ASSUME NEW S, NEW s \in Seq(S), NEW y \in S, NEW x, Has(Append(s, y), x)
  PROVE  Has(s, x) \/ x = y
<1>1. PICK i \in DOMAIN Append(s, y) : Append(s, y)[i] = x
  BY DEF Has
<1>2. /\ Len(s) \in Nat /\ DOMAIN s = 1..Len(s) /\ DOMAIN Append(s, y) = 1..(Len(s) + 1)
      /\ \A k \in 1..Len(s) : Append(s, y)[k] = s[k]
      /\ Append(s, y)[Len(s) + 1] = y
  BY AppendProperties, LenProperties
<1>. QED
  BY <1>1, <1>2 DEF Has

LEMMA HasConcat ==
  ASSUME NEW S, NEW s \in Seq(S), NEW t \in Seq(S), NEW x, Has(s \o t, x)
  PROVE  Has(s, x) \/ Has(t, x)
<1>1. PICK i \in DOMAIN (s \o t) : (s \o t)[i] = x
  BY DEF Has
<1>2. CASE i \in 1..Len(s)
  BY <1>1, <1>2, ConcatIs DEF Has
<1>3. CASE i \notin 1..Len(s)
  <2>1. i - Len(s) \in 1..Len(t) /\ Len(s) + (i - Len(s)) = i
    BY <1>1, <1>3, ConcatIs
  <2>2. t[i - Len(s)] = x
    BY <1>1, <2>1, ConcatIs
  <2>. QED
    BY <2>1, <2>2, ConcatIs DEF Has
<1>. QED
  BY <1>2, <1>3

(* What is left behind n elements.                                         *)
LEMMA RestIs ==
  ASSUME NEW S, NEW s \in Seq(S), NEW n \in 0..Len(s)
  PROVE  /\ Len(s) \in Nat /\ DOMAIN s = 1..Len(s)
         /\ SubSeq(s, n + 1, Len(s)) \in Seq(S)
         /\ Len(SubSeq(s, n + 1, Len(s))) = Len(s) - n
         /\ DOMAIN SubSeq(s, n + 1, Len(s)) = 1..(Len(s) - n)
         /\ \A k \in 1..(Len(s) - n) : SubSeq(s, n + 1, Len(s))[k] = s[n + k]
<1>. DEFINE m == Len(s)
            r == SubSeq(s, n + 1, m)
<1>1. m \in Nat /\ n \in 0..m /\ DOMAIN s = 1..m /\ \A j \in 1..m : s[j] \in S
  BY LenProperties
<1>. HIDE DEF m
<1>2. /\ r \in Seq(S) /\ Len(r) = (IF n + 1 <= m THEN m - (n + 1) + 1 ELSE 0)
      /\ \A j \in 1..(m - (n + 1) + 1) : r[j] = s[(n + 1) + j - 1]
  <2>1. n + 1 \in Int /\ m \in Int /\ \A j \in (n + 1)..m : s[j] \in S
    BY <1>1
  <2>. QED
    BY <2>1, SubSeqProperties
<1>. HIDE DEF r
<1>3. Len(r) = m - n
  BY <1>1, <1>2
<1>4. ASSUME NEW k \in 1..(m - n) PROVE r[k] = s[n + k]
  <2>1. k \in 1..(m - (n + 1) + 1) /\ (n + 1) + k - 1 = n + k
    BY <1>1
  <2>. QED
    BY <1>2, <2>1
<1>5. DOMAIN r = 1..(m - n)
  BY <1>2, <1>3, LenProperties
<1>. QED
  BY <1>1, <1>2, <1>3, <1>4, <1>5 DEF r, m

LEMMA HasRest ==
  ASSUME NEW S, NEW s \in Seq(S), NEW n \in 0..Len(s), NEW x, Has(SubSeq(s, n + 1, Len(s)), x)
  PROVE  Has(s, x)
<1>1. PICK i \in 1..(Len(s) - n) : SubSeq(s, n + 1, Len(s))[i] = x
  BY RestIs DEF Has
<1>2. n + i \in 1..Len(s) /\ s[n + i] = x
  BY <1>1, RestIs
<1>. QED
  BY <1>2, RestIs DEF Has

(* A byte that is missing leaves the others in their order.                *)
LEMMA RemoveAtIs ==
  ASSUME NEW S, NEW s \in Seq(S), NEW n \in DOMAIN s
  PROVE  /\ RemoveAt(s, n) \in Seq(S) /\ Len(s) \in Nat /\ n \in 1..Len(s)
         /\ Len(RemoveAt(s, n)) = Len(s) - 1
         /\ \A k \in 1..(Len(s) - 1) : RemoveAt(s, n)[k] = IF k < n THEN s[k] ELSE s[k + 1]
<1>. DEFINE m == Len(s)
            a == SubSeq(s, 1, n - 1)
            z == SubSeq(s, n + 1, m)
<1>1. m \in Nat /\ n \in 1..m /\ \A j \in 1..m : s[j] \in S
  BY LenProperties
<1>2. /\ z \in Seq(S) /\ Len(z) = m - n /\ \A k \in 1..(m - n) : z[k] = s[n + k]
  <2>1. n \in 0..m
    BY <1>1
  <2>. QED
    BY <2>1, RestIs
<1>. HIDE DEF m
<1>3. /\ a \in Seq(S) /\ Len(a) = n - 1 /\ \A k \in 1..(n - 1) : a[k] = s[k]
  <2>1. n - 1 \in Int /\ \A j \in 1..(n - 1) : s[j] \in S
    BY <1>1
  <2>2. /\ a \in Seq(S) /\ Len(a) = (IF 1 <= n - 1 THEN (n - 1) - 1 + 1 ELSE 0)
        /\ \A j \in 1..((n - 1) - 1 + 1) : a[j] = s[1 + j - 1]
    BY <2>1, SubSeqProperties
  <2>3. Len(a) = n - 1
    BY <1>1, <2>2
  <2>4. ASSUME NEW k \in 1..(n - 1) PROVE a[k] = s[k]
    <3>1. k \in 1..((n - 1) - 1 + 1) /\ 1 + k - 1 = k
      BY <1>1
    <3>. QED
      BY <2>2, <3>1
  <2>. QED
    BY <2>2, <2>3, <2>4
<1>4. RemoveAt(s, n) = a \o z
  BY DEF RemoveAt, m
<1>. HIDE DEF a, z
<1>0. a \in Seq(S) /\ z \in Seq(S)
  BY <1>2, <1>3
<1>5. /\ a \o z \in Seq(S) /\ Len(a \o z) = Len(a) + Len(z)
      /\ (\A i \in 1..Len(a) : (a \o z)[i] = a[i]) /\ \A i \in 1..Len(z) : (a \o z)[Len(a) + i] = z[i]
  BY <1>0, ConcatIs
<1>6. (n - 1) + (m - n) = m - 1
  BY <1>1
<1>7. ASSUME NEW k \in 1..(m - 1) PROVE (a \o z)[k] = IF k < n THEN s[k] ELSE s[k + 1]
  <2>1. CASE k < n
    <3>1. k \in 1..(n - 1)
      BY <1>1, <2>1
    <3>. QED
      BY <1>3, <1>5, <2>1, <3>1
  <2>2. CASE ~(k < n)
    <3>1. k - (n - 1) \in 1..(m - n) /\ (n - 1) + (k - (n - 1)) = k /\ n + (k - (n - 1)) = k + 1
      BY <1>1, <2>2
    <3>2. (a \o z)[(n - 1) + (k - (n - 1))] = z[k - (n - 1)]
      BY <1>2, <1>3, <1>5, <3>1
    <3>3. z[k - (n - 1)] = s[n + (k - (n - 1))]
      BY <1>2, <3>1
    <3>. QED
      BY <2>2, <3>1, <3>2, <3>3
  <2>. QED
    BY <2>1, <2>2
<1>. QED
  BY <1>1, <1>2, <1>3, <1>4, <1>5, <1>6, <1>7 DEF m

LEMMA HasRemoveAt ==
  ASSUME NEW S, NEW s \in Seq(S), NEW n \in DOMAIN s, NEW x, Has(RemoveAt(s, n), x)
  PROVE  Has(s, x)
<1>1. PICK i \in 1..(Len(s) - 1) : RemoveAt(s, n)[i] = x
  <2>1. DOMAIN RemoveAt(s, n) = 1..(Len(s) - 1)
    BY RemoveAtIs, LenProperties
  <2>. QED
    BY <2>1 DEF Has
<1>2. Len(s) \in Nat /\ DOMAIN s = 1..Len(s)
  BY LenProperties
<1>3. s[i] = x \/ s[i + 1] = x
  BY <1>1, RemoveAtIs
<1>4. i \in 1..Len(s) /\ i + 1 \in 1..Len(s)
  BY <1>2
<1>. QED
  BY <1>2, <1>3, <1>4 DEF Has

(* However many bytes are missing from a frame, it holds no others.        *)
LEMMA LossyHas ==
  ASSUME NEW S, NEW frame \in Seq(S), NEW bytes \in Lossy(frame)
  PROVE  bytes \in Seq(S) /\ \A x : Has(bytes, x) => Has(frame, x)
<1>1. PICK g : Less(g, frame, MaxMissing) /\ Lossy(frame) = g[MaxMissing]
  BY LossyIs
<1>2. MaxMissing \in Nat
  BY BoundsAssumption
<1>. DEFINE Part(b) == b \in Seq(S) /\ \A x : Has(b, x) => Has(frame, x)
            T == {k \in 0..MaxMissing : \A b \in g[k] : Part(b)}
<1>3. 0 \in T
  <2>1. g[0] = {frame}
    BY <1>1, <1>2 DEF Less
  <2>. QED
    BY <1>2, <2>1
<1>4. ASSUME NEW k \in 0..(MaxMissing - 1), k \in T PROVE k + 1 \in T
  <2>1. k + 1 \in 0..MaxMissing /\ k + 1 # 0 /\ (k + 1) - 1 = k
    BY <1>2
  <2>2. g[k + 1] = Shorter(g[k])
    BY <1>1, <2>1 DEF Less
  <2>3. ASSUME NEW b \in g[k + 1] PROVE Part(b)
    <3>1. CASE b \in g[k]
      BY <1>4, <3>1
    <3>2. CASE b \notin g[k]
      <4>1. PICK c \in g[k] : \E n \in DOMAIN c : b = RemoveAt(c, n)
        BY <2>2, <3>2 DEF Shorter
      <4>2. PICK n \in DOMAIN c : b = RemoveAt(c, n)
        BY <4>1
      <4>3. Part(c)
        BY <1>4
      <4>. QED
        BY <4>2, <4>3, RemoveAtIs, HasRemoveAt
    <3>. QED
      BY <3>1, <3>2
  <2>. HIDE DEF Part
  <2>. QED
    BY <2>1, <2>3
<1>5. \A k \in 0..MaxMissing : k \in T
  <2>. HIDE DEF T
  <2>. QED
    BY <1>2, <1>3, <1>4, UpTo
<1>. QED
  BY <1>1, <1>2, <1>5

(* Of the frames of the chip only the CONF RESP holds the byte that the    *)
(* payload of a CONF RESP begins with.                                     *)
Mark == 222

LEMMA FramesMark ==
  /\ \A p \in Packets : ChipFrame[p] \in Seq(Nat)
  /\ \A p \in Packets : Has(ChipFrame[p], Mark) => p = "conf_resp"
  /\ Payloads.conf_resp[1] = Mark
<1>1. ChipFrame.sync \in Seq(Nat) /\ ~Has(ChipFrame.sync, Mark)
  BY DEF ChipFrame, END, Has, Mark
<1>2. ChipFrame.sync_resp \in Seq(Nat) /\ ~Has(ChipFrame.sync_resp, Mark)
  BY DEF ChipFrame, END, Has, Mark
<1>3. ChipFrame.conf \in Seq(Nat) /\ ~Has(ChipFrame.conf, Mark)
  BY DEF ChipFrame, END, Has, Mark
<1>4. ChipFrame.conf_resp \in Seq(Nat)
  BY DEF ChipFrame, END
<1>5. ChipFrame.data \in Seq(Nat) /\ ~Has(ChipFrame.data, Mark)
  BY DEF ChipFrame, END, ESC, Has, Mark
<1>6. Payloads.conf_resp[1] = Mark
  BY DEF Payloads, Mark
<1>. QED
  BY <1>1, <1>2, <1>3, <1>4, <1>5, <1>6, PacketSet

LEMMA ArrivalsMark ==
  ASSUME NEW p \in Packets, NEW bytes \in Arrivals[p]
  PROVE  bytes \in Seq(Nat) /\ (Has(bytes, Mark) => p = "conf_resp")
<1>1. Arrivals[p] = Lossy(ChipFrame[p])
  BY PacketSet DEF Arrivals
<1>. QED
  BY <1>1, FramesMark, LossyHas

-----------------------------------------------------------------------------
(* The inductive invariant of LinkAgreed.  Until the chip answers a CONF,  *)
(* the byte Mark is nowhere on its line; when it does, no SYNC of ours is  *)
(* on the way to it any more and none will be, because a CONF is sent only *)
(* after the last SYNC.                                                    *)
LinkTypes ==
  /\ phase \in {"send", "read", "relay", "failed", "stopped"}
  /\ state \in {0, 1} /\ linked \in BOOLEAN /\ le \in LeState
  /\ chip \in {"shy", "curious", "garrulous"}
  /\ toChip \in Seq(Packets) /\ toHost \in Seq(Nat)
  /\ kernel \in [in : Seq(Nat), out : Seq({"conf_resp"})]
  /\ unheard \in [Packets -> Int]

Confirmed ==
  /\ chip # "shy" /\ ~Has(toChip, "sync")
  /\ phase \in {"send", "read"} => state = 1

SyncsBeforeConfs ==
  \A i, j \in DOMAIN toChip : toChip[i] = "conf" /\ toChip[j] = "sync" => j < i

LinkInv ==
  /\ LinkTypes
  /\ linked => phase \in {"relay", "stopped"}
  /\ state = 0 => ~Has(toChip, "conf")
  /\ SyncsBeforeConfs
  /\ linked \/ Has(le.buf, Mark) \/ Has(toHost, Mark) => Confirmed

LEMMA InitLink ==
  ASSUME Init
  PROVE  LinkInv
<1>1. /\ toChip = <<>> /\ toHost = <<>> /\ le.buf = <<>> /\ state = 0 /\ linked = FALSE
      /\ phase \in {"send", "relay"} /\ chip \in {"shy", "curious", "garrulous"}
      /\ le = [in |-> FALSE, esc |-> FALSE, buf |-> <<>>]
      /\ kernel = [in |-> <<>>, out |-> <<>>] /\ unheard = [p \in Packets |-> 0]
  BY DEF Init
<1>2. \A x : ~Has(<<>>, x)
  BY DEF Has
<1>3. le \in LeState
  BY <1>1 DEF LeState
<1>4. kernel \in [in : Seq(Nat), out : Seq({"conf_resp"})]
  BY <1>1
<1>5. unheard \in [Packets -> Int]
  BY <1>1
<1>6. toChip \in Seq(Packets) /\ toHost \in Seq(Nat)
  BY <1>1
<1>7. LinkTypes
  BY <1>1, <1>3, <1>4, <1>5, <1>6 DEF LinkTypes
<1>. QED
  BY <1>1, <1>2, <1>7 DEF LinkInv, SyncsBeforeConfs

(* What is taken from the queue to the chip keeps the order of the rest.   *)
LEMMA QueueTail ==
  ASSUME LinkInv, toChip # <<>>, toChip' = Tail(toChip)
  PROVE  /\ toChip' \in Seq(Packets) /\ Head(toChip) \in Packets
         /\ Has(toChip, Head(toChip))
         /\ \A x : Has(toChip', x) => Has(toChip, x)
         /\ SyncsBeforeConfs'
         /\ Head(toChip) = "conf" => ~Has(toChip', "sync")
<1>1. /\ toChip \in Seq(Packets) /\ Len(toChip) \in Nat /\ 1 \in DOMAIN toChip
      /\ DOMAIN toChip = 1..Len(toChip) /\ Head(toChip) = toChip[1]
      /\ toChip[1] \in Packets
  BY EmptySeq, LenProperties, HeadTailProperties DEF LinkInv, LinkTypes
<1>2. /\ toChip' \in Seq(Packets) /\ DOMAIN toChip' = 1..(Len(toChip) - 1)
      /\ \A k \in 1..(Len(toChip) - 1) : toChip'[k] = toChip[k + 1]
  <2>1. /\ Tail(toChip) \in Seq(Packets) /\ Len(Tail(toChip)) = Len(toChip) - 1
        /\ \A k \in 1..(Len(toChip) - 1) : Tail(toChip)[k] = toChip[k + 1]
    BY <1>1, HeadTailProperties
  <2>2. DOMAIN Tail(toChip) = 1..(Len(toChip) - 1)
    BY <2>1, LenProperties
  <2>. QED
    BY <2>1, <2>2
<1>3. \A k \in DOMAIN toChip' : k + 1 \in DOMAIN toChip /\ toChip'[k] = toChip[k + 1] /\ k \in Nat
  BY <1>1, <1>2
<1>4. ASSUME NEW i \in DOMAIN toChip', NEW j \in DOMAIN toChip',
             toChip'[i] = "conf", toChip'[j] = "sync"
      PROVE  j < i
  <2>1. j + 1 < i + 1
    BY <1>3, <1>4 DEF LinkInv, SyncsBeforeConfs
  <2>. QED
    BY <1>3, <2>1
<1>5. ASSUME Head(toChip) = "conf", NEW j \in DOMAIN toChip', toChip'[j] = "sync"
      PROVE  FALSE
  <2>1. j + 1 < 1
    BY <1>1, <1>3, <1>5 DEF LinkInv, SyncsBeforeConfs
  <2>. QED
    BY <1>3, <2>1
<1>. QED
  BY <1>1, <1>2, <1>3, <1>4, <1>5 DEF Has, SyncsBeforeConfs

(* What is added to it: no SYNC behind a CONF.                             *)
LEMMA QueueAdds ==
  ASSUME LinkInv, NEW more \in Seq(Packets), toChip' = toChip \o more,
         Has(more, "sync") => ~Has(toChip, "conf") /\ ~Has(more, "conf")
  PROVE  /\ toChip' \in Seq(Packets)
         /\ \A x : Has(toChip', x) => Has(toChip, x) \/ Has(more, x)
         /\ SyncsBeforeConfs'
<1>1. toChip \in Seq(Packets)
  BY DEF LinkInv, LinkTypes
<1>2. ASSUME NEW x, Has(toChip', x)
      PROVE  Has(toChip, x) \/ Has(more, x)
  BY <1>1, <1>2, HasConcat
<1>. DEFINE m == Len(toChip)
<1>3. /\ toChip' \in Seq(Packets) /\ m \in Nat /\ DOMAIN toChip = 1..m
      /\ DOMAIN more = 1..Len(more) /\ Len(more) \in Nat /\ DOMAIN toChip' = 1..(m + Len(more))
      /\ (\A i \in 1..m : toChip'[i] = toChip[i])
      /\ \A i \in 1..Len(more) : toChip'[m + i] = more[i]
  BY <1>1, ConcatIs
<1>. HIDE DEF m
<1>4. ASSUME NEW i \in DOMAIN toChip', NEW j \in DOMAIN toChip',
             toChip'[i] = "conf", toChip'[j] = "sync"
      PROVE  j < i
  <2>1. CASE j \in 1..m /\ i \in 1..m
    BY <1>3, <1>4, <2>1 DEF LinkInv, SyncsBeforeConfs
  <2>2. CASE j \in 1..m /\ i \notin 1..m
    BY <1>3, <2>2
  <2>3. CASE j \notin 1..m
    <3>1. j - m \in 1..Len(more) /\ m + (j - m) = j
      BY <1>3, <2>3
    <3>2. more[j - m] = "sync"
      BY <1>3, <1>4, <3>1
    <3>3. Has(more, "sync")
      BY <1>3, <3>1, <3>2 DEF Has
    <3>4. Has(toChip, "conf") \/ Has(more, "conf")
      BY <1>2, <1>4 DEF Has
    <3>. QED
      BY <3>3, <3>4
  <2>. QED
    BY <2>1, <2>2, <2>3
<1>. QED
  BY <1>2, <1>3, <1>4 DEF SyncsBeforeConfs

(* What the chip says.                                                     *)
LEMMA EmitIs ==
  ASSUME LinkInv, NEW p \in Packets, Emit(p)
  PROVE  /\ toHost' \in Seq(Nat) /\ unheard' \in [Packets -> Int]
         /\ Has(toHost', Mark) => Has(toHost, Mark) \/ p = "conf_resp"
<1>1. PICK bytes \in Arrivals[p] : toHost' = toHost \o bytes
  BY DEF Emit
<1>2. bytes \in Seq(Nat) /\ (Has(bytes, Mark) => p = "conf_resp") /\ toHost \in Seq(Nat)
  BY ArrivalsMark DEF LinkInv, LinkTypes
<1>3. toHost' \in Seq(Nat) /\ (Has(toHost', Mark) => Has(toHost, Mark) \/ Has(bytes, Mark))
  BY <1>1, <1>2, HasConcat, ConcatIs
<1>4. unheard' \in [Packets -> Int]
  BY DEF Emit, LinkInv, LinkTypes
<1>. QED
  BY <1>2, <1>3, <1>4

LEMMA ChipHearLink ==
  ASSUME LinkInv, ChipHear
  PROVE  LinkInv'
<1>. DEFINE p == Head(toChip)
<1>1. /\ toChip # <<>> /\ toChip' = Tail(toChip)
      /\ UNCHANGED <<phase, state, ticks, le, linked, kernel>>
  BY DEF ChipHear, host
<1>2. /\ toChip' \in Seq(Packets) /\ p \in Packets /\ Has(toChip, p)
      /\ \A x : Has(toChip', x) => Has(toChip, x)
      /\ SyncsBeforeConfs'
      /\ p = "conf" => ~Has(toChip', "sync")
  BY <1>1, QueueTail
<1>. HIDE DEF p
<1>3. /\ chip' \in {"shy", "curious", "garrulous"}
      /\ chip # "shy" /\ p # "sync" => chip' # "shy"
      /\ \/ Silent
         \/ Emit("sync_resp")
         \/ p = "conf" /\ chip # "shy" /\ Emit("conf_resp")
  BY DEF ChipHear, p, LinkInv, LinkTypes
<1>4. /\ toHost' \in Seq(Nat) /\ unheard' \in [Packets -> Int]
      /\ Has(toHost', Mark) => Has(toHost, Mark) \/ (p = "conf" /\ chip # "shy")
  <2>1. CASE Silent
    BY <2>1 DEF Silent, LinkInv, LinkTypes
  <2>2. CASE Emit("sync_resp")
    BY <2>2, EmitIs, PacketSet
  <2>3. CASE p = "conf" /\ chip # "shy" /\ Emit("conf_resp")
    BY <2>3, EmitIs, PacketSet
  <2>. QED
    BY <1>3, <2>1, <2>2, <2>3
<1>5. LinkTypes'
  BY <1>1, <1>2, <1>3, <1>4 DEF LinkInv, LinkTypes
<1>6. Confirmed => Confirmed'
  BY <1>1, <1>2, <1>3 DEF Confirmed
<1>7. p = "conf" /\ chip # "shy" => Confirmed'
  <2>1. p = "conf" => state = 1
    BY <1>2 DEF LinkInv, LinkTypes
  <2>. QED
    BY <1>1, <1>2, <1>3, <2>1 DEF Confirmed
<1>. QED
  BY <1>1, <1>2, <1>4, <1>5, <1>6, <1>7 DEF LinkInv

LEMMA ChipTimerLink ==
  ASSUME LinkInv, ChipTimer
  PROVE  LinkInv'
<1>1. UNCHANGED <<phase, state, ticks, le, linked, kernel, chip, toChip>>
  BY DEF ChipTimer, host
<1>2. Emit("sync") \/ Emit("conf") \/ Emit("data")
  BY DEF ChipTimer
<1>3. /\ toHost' \in Seq(Nat) /\ unheard' \in [Packets -> Int]
      /\ Has(toHost', Mark) => Has(toHost, Mark)
  BY <1>2, EmitIs, PacketSet
<1>. QED
  BY <1>1, <1>3 DEF LinkInv, LinkTypes, Confirmed, SyncsBeforeConfs

LEMMA LoseFrameLink ==
  ASSUME LinkInv, LoseFrame
  PROVE  LinkInv'
<1>1. /\ toChip # <<>> /\ toChip' = Tail(toChip)
      /\ UNCHANGED <<phase, state, ticks, le, linked, kernel, chip, toHost, unheard>>
  BY DEF LoseFrame, host
<1>2. /\ toChip' \in Seq(Packets) /\ (\A x : Has(toChip', x) => Has(toChip, x))
      /\ SyncsBeforeConfs'
  BY <1>1, QueueTail
<1>. QED
  BY <1>1, <1>2 DEF LinkInv, LinkTypes, Confirmed

LEMMA SendLink ==
  ASSUME LinkInv, Send
  PROVE  LinkInv'
<1>. DEFINE m == IF state = 0 THEN Understood.sync ELSE Understood.conf
            more == <<m>>
<1>1. /\ phase = "send" /\ toChip' = Append(toChip, m) /\ phase' = "read"
      /\ UNCHANGED <<state, ticks, le, linked, unheard, chip, toHost, kernel>>
  BY DEF Send
<1>2. /\ m \in {"sync", "conf"}
      /\ m = "sync" => state = 0
      /\ m = "conf" => state # 0
  BY UnderstoodIs
<1>. HIDE DEF m
<1>3. more \in Seq(Packets) /\ \A x : Has(more, x) => x = m
  <2>1. m \in Packets
    BY <1>2, PacketSet
  <2>. QED
    BY <2>1 DEF Has
<1>4. toChip' = toChip \o more
  BY <1>1 DEF LinkInv, LinkTypes
<1>. HIDE DEF more
<1>5. /\ toChip' \in Seq(Packets)
      /\ \A x : Has(toChip', x) => Has(toChip, x) \/ x = m
      /\ SyncsBeforeConfs'
  BY <1>2, <1>3, <1>4, QueueAdds DEF LinkInv
<1>6. Confirmed => Confirmed'
  BY <1>1, <1>2, <1>5 DEF Confirmed
<1>. QED
  BY <1>1, <1>2, <1>5, <1>6 DEF LinkInv, LinkTypes

LEMMA QuietLink ==
  ASSUME LinkInv, Quiet
  PROVE  LinkInv'
BY DEF Quiet, LinkInv, LinkTypes, Confirmed, SyncsBeforeConfs

LEMMA TimedOutLink ==
  ASSUME LinkInv, TimedOut
  PROVE  LinkInv'
BY DEF TimedOut, LinkInv, LinkTypes, Confirmed, SyncsBeforeConfs

LEMMA EndLink ==
  ASSUME LinkInv, WriteFails \/ Signal
  PROVE  LinkInv'
BY DEF WriteFails, Signal, LinkInv, LinkTypes, Confirmed, SyncsBeforeConfs

LEMMA RelayDownLink ==
  ASSUME LinkInv, RelayDown
  PROVE  LinkInv'
<1>. DEFINE m == Head(kernel.out)
            more == <<m>>
            rest == Tail(kernel.out)
<1>1. /\ kernel.out # <<>> /\ toChip' = Append(toChip, m) /\ kernel' = [kernel EXCEPT !.out = rest]
      /\ UNCHANGED <<phase, state, ticks, le, linked, unheard, chip, toHost>>
  BY DEF RelayDown, host
<1>2. m = "conf_resp" /\ rest \in Seq({"conf_resp"})
  <2>1. kernel.out \in Seq({"conf_resp"})
    BY DEF LinkInv, LinkTypes
  <2>2. m \in {"conf_resp"} /\ rest \in Seq({"conf_resp"})
    BY <1>1, <2>1, HeadTailProperties
  <2>. QED
    BY <2>2
<1>. HIDE DEF m, rest
<1>3. more \in Seq(Packets) /\ \A x : Has(more, x) => x = m
  BY <1>2, PacketSet DEF Has
<1>4. toChip' = toChip \o more
  BY <1>1 DEF LinkInv, LinkTypes
<1>. HIDE DEF more
<1>5. /\ toChip' \in Seq(Packets)
      /\ \A x : Has(toChip', x) => Has(toChip, x) \/ x = m
      /\ SyncsBeforeConfs'
  BY <1>2, <1>3, <1>4, QueueAdds DEF LinkInv
<1>6. Confirmed => Confirmed'
  BY <1>1, <1>2, <1>5 DEF Confirmed
<1>7. kernel' \in [in : Seq(Nat), out : Seq({"conf_resp"})]
  BY <1>1, <1>2 DEF LinkInv, LinkTypes
<1>. QED
  BY <1>1, <1>2, <1>5, <1>6, <1>7 DEF LinkInv, LinkTypes

(* Mark gets into the decoder only from the line, and a CONF RESP is heard *)
(* only with it.                                                           *)
LEMMA FeedMark ==
  ASSUME NEW l \in LeState, NEW b \in Nat, Has(LeFeed(l, b).buf, Mark)
  PROVE  Has(l.buf, Mark) \/ b = Mark
<1>. DEFINE x == IF l.esc THEN Unescaped(b) ELSE b
<1>1. x \in Nat /\ (x = Mark => b = Mark)
  BY DEF Unescaped, END, ESC, Mark
<1>2. l.buf \in Seq(Nat)
  BY DEF LeState
<1>. HIDE DEF x
<1>3. CASE LeFeed(l, b).buf = <<>>
  BY <1>3 DEF Has
<1>4. CASE LeFeed(l, b).buf = l.buf
  BY <1>4
<1>5. CASE LeFeed(l, b).buf = Append(l.buf, x)
  BY <1>1, <1>2, <1>5, HasAppend
<1>. QED
  BY <1>3, <1>4, <1>5, LeFeedIs DEF x

LEMMA PacketIs ==
  ASSUME NEW l \in LeState, NEW b, Completed(l, b)
  PROVE  /\ Len(l.buf) \in Nat /\ Len(l.buf) >= 8 /\ DOMAIN l.buf = 1..Len(l.buf)
         /\ \A k \in 1..4 : Packet(l)[k] = l.buf[4 + k]
<1>1. l.buf \in Seq(Nat) /\ Len(l.buf) >= 8
  BY DEF LeState, Completed
<1>. DEFINE s == l.buf
<1>2. Len(s) \in Nat /\ DOMAIN s = 1..Len(s) /\ \A i \in 1..Len(s) : s[i] \in Nat
  BY <1>1, LenProperties
<1>. HIDE DEF s
<1>3. \A i \in 5..8 : s[i] \in Nat
  BY <1>1, <1>2 DEF s
<1>4. \A i \in 1..(8 - 5 + 1) : SubSeq(s, 5, 8)[i] = s[5 + i - 1]
  BY <1>3, SubSeqProperties
<1>5. ASSUME NEW k \in 1..4 PROVE SubSeq(s, 5, 8)[k] = s[4 + k]
  <2>1. k \in 1..(8 - 5 + 1) /\ 5 + k - 1 = 4 + k
    OBVIOUS
  <2>. QED
    BY <1>4, <2>1
<1>. QED
  BY <1>1, <1>2, <1>5 DEF Packet, s

LEMMA HeardMark ==
  ASSUME NEW l \in LeState, NEW b, Completed(l, b), Packet(l) = Payloads.conf_resp
  PROVE  Has(l.buf, Mark)
<1>1. Packet(l)[1] = Mark
  BY FramesMark
<1>2. 5 \in DOMAIN l.buf /\ Packet(l)[1] = l.buf[5]
  BY PacketIs
<1>. QED
  BY <1>1, <1>2 DEF Has

(* Whatever a read takes, the handshake only goes forward.                 *)
LEMMA ReadKeeps ==
  ASSUME LinkInv, NEW n \in 0..Len(toHost), NEW g, AfterBytes(g, AtRead, toHost, n), NEW h \in g[n]
  PROVE  /\ h \in Handshake
         /\ state = 1 => h.state = 1
         /\ Has(h.le.buf, Mark) \/ h.active => Has(le.buf, Mark) \/ Has(toHost, Mark)
<1>1. /\ toHost \in Seq(Nat) /\ Len(toHost) \in Nat /\ DOMAIN toHost = 1..Len(toHost)
      /\ \A k \in 1..Len(toHost) : toHost[k] \in Nat
  BY LenProperties DEF LinkInv, LinkTypes
<1>2. n \in Nat
  BY <1>1
<1>. DEFINE Seen == Has(le.buf, Mark) \/ Has(toHost, Mark)
            Good(r) == /\ r \in Handshake
                       /\ state = 1 => r.state = 1
                       /\ Has(r.le.buf, Mark) \/ r.active => Seen
            T == {k \in 0..n : \A r \in g[k] : Good(r)}
<1>3. 0 \in T
  <2>1. g[0] = {AtRead}
    BY <1>2 DEF AfterBytes
  <2>2. AtRead \in Handshake
    <3>1. <<>> \in Seq(Replies) /\ [p \in Packets |-> 0] \in [Packets -> Nat]
      OBVIOUS
    <3>. QED
      BY <3>1 DEF AtRead, Handshake, LinkInv, LinkTypes
  <2>3. AtRead.state = state /\ AtRead.le = le /\ AtRead.active = FALSE
    BY DEF AtRead
  <2>. QED
    BY <1>2, <2>1, <2>2, <2>3
<1>4. ASSUME NEW k \in 0..(n - 1), k \in T PROVE k + 1 \in T
  <2>1. /\ k + 1 \in 0..n /\ k + 1 # 0 /\ (k + 1) - 1 = k
        /\ k + 1 \in DOMAIN toHost /\ toHost[k + 1] \in Nat
    BY <1>1, <1>2
  <2>. DEFINE b == toHost[k + 1]
  <2>2. g[k + 1] = Taken(g[k], b)
    BY <2>1 DEF AfterBytes
  <2>3. b \in Nat /\ (b = Mark => Seen)
    BY <2>1 DEF Has
  <2>. HIDE DEF b, Seen
  <2>4. ASSUME NEW r \in g[k + 1] PROVE Good(r)
    <3>1. PICK q \in g[k] : r = TakeByte(q, b)
      BY <2>2 DEF Taken
    <3>2. Good(q)
      BY <1>4
    <3>3. q.le \in LeState
      BY <3>2 DEF Handshake
    <3>4. /\ r \in Handshake
          /\ q.active => r = q
          /\ ~q.active => r.le = LeFeed(q.le, b)
          /\ q.state = 1 => r.state = 1
          /\ r.active => \/ q.active
                         \/ Completed(q.le, b) /\ Packet(q.le) = Payloads.conf_resp
      BY <2>3, <3>1, <3>2, TakeByteIs
    <3>5. r.active => Seen
      BY <3>2, <3>3, <3>4, HeardMark
    <3>6. Has(r.le.buf, Mark) => Seen
      BY <2>3, <3>2, <3>3, <3>4, FeedMark
    <3>. QED
      BY <3>2, <3>4, <3>5, <3>6
  <2>. HIDE DEF Good
  <2>. QED
    BY <2>1, <2>4
<1>5. \A k \in 0..n : k \in T
  <2>. HIDE DEF T
  <2>. QED
    BY <1>2, <1>3, <1>4, UpTo
<1>. QED
  BY <1>2, <1>5

(* The answers of a read go to the chip as they are understood.            *)
LEMMA RepliesIs ==
  ASSUME NEW replies \in Seq(Replies)
  PROVE  /\ [i \in DOMAIN replies |-> Understood[replies[i]]] \in Seq(Packets)
         /\ ~Has([i \in DOMAIN replies |-> Understood[replies[i]]], "sync")
         /\ ~Has([i \in DOMAIN replies |-> Understood[replies[i]]], "conf")
<1>1. Len(replies) \in Nat /\ DOMAIN replies = 1..Len(replies)
      /\ \A i \in 1..Len(replies) : replies[i] \in Replies
  BY LenProperties
<1>2. \A r \in Replies : Understood[r] \in Packets /\ Understood[r] \notin {"sync", "conf"}
  BY UnderstoodIs, PacketSet DEF Replies
<1>. DEFINE t == [i \in 1..Len(replies) |-> Understood[replies[i]]]
<1>3. t \in [1..Len(replies) -> Packets] /\ \A i \in 1..Len(replies) : t[i] \notin {"sync", "conf"}
  BY <1>1, <1>2
<1>4. t \in Seq(Packets) /\ DOMAIN t = 1..Len(replies)
  BY <1>1, <1>3
<1>. HIDE DEF t
<1>5. ~Has(t, "sync") /\ ~Has(t, "conf")
  BY <1>3, <1>4 DEF Has
<1>. QED
  BY <1>1, <1>4, <1>5 DEF t

LEMMA ReadLink ==
  ASSUME LinkInv, Read
  PROVE  LinkInv'
<1>1. PICK n \in Available : \E g : AfterBytes(g, AtRead, toHost, n) /\ \E h \in g[n] :
           /\ le' = h.le /\ state' = h.state
           /\ toChip' = toChip \o [i \in DOMAIN h.replies |-> Understood[h.replies[i]]]
           /\ linked' = h.active
           /\ phase' = IF h.active THEN "relay" ELSE "send"
           /\ unheard' = [p \in Packets |-> unheard[p] - h.heard[p]]
           /\ toHost' = SubSeq(toHost, n + 1, Len(toHost))
  BY ReadIs
<1>2. PICK g : AfterBytes(g, AtRead, toHost, n) /\ \E h \in g[n] :
           /\ le' = h.le /\ state' = h.state
           /\ toChip' = toChip \o [i \in DOMAIN h.replies |-> Understood[h.replies[i]]]
           /\ linked' = h.active
           /\ phase' = IF h.active THEN "relay" ELSE "send"
           /\ unheard' = [p \in Packets |-> unheard[p] - h.heard[p]]
           /\ toHost' = SubSeq(toHost, n + 1, Len(toHost))
  BY <1>1
<1>3. PICK h \in g[n] :
           /\ le' = h.le /\ state' = h.state
           /\ toChip' = toChip \o [i \in DOMAIN h.replies |-> Understood[h.replies[i]]]
           /\ linked' = h.active
           /\ phase' = IF h.active THEN "relay" ELSE "send"
           /\ unheard' = [p \in Packets |-> unheard[p] - h.heard[p]]
           /\ toHost' = SubSeq(toHost, n + 1, Len(toHost))
  BY <1>2
<1>4. phase = "read" /\ UNCHANGED <<chip, kernel>>
  BY DEF Read
<1>5. toHost \in Seq(Nat) /\ n \in 0..Len(toHost)
  BY DEF Available, LinkInv, LinkTypes
<1>6. /\ h \in Handshake
      /\ state = 1 => h.state = 1
      /\ Has(h.le.buf, Mark) \/ h.active => Has(le.buf, Mark) \/ Has(toHost, Mark)
  BY <1>2, <1>5, ReadKeeps
<1>7. /\ h.le \in LeState /\ h.state \in {0, 1} /\ h.replies \in Seq(Replies)
      /\ h.active \in BOOLEAN /\ h.heard \in [Packets -> Nat]
  BY <1>6 DEF Handshake
<1>8. toHost' \in Seq(Nat) /\ (Has(toHost', Mark) => Has(toHost, Mark))
  BY <1>3, <1>5, RestIs, HasRest
<1>. DEFINE more == [i \in DOMAIN h.replies |-> Understood[h.replies[i]]]
<1>9. more \in Seq(Packets) /\ ~Has(more, "sync") /\ ~Has(more, "conf")
  BY <1>7, RepliesIs
<1>10. toChip' = toChip \o more
  BY <1>3
<1>. HIDE DEF more
<1>11. /\ toChip' \in Seq(Packets)
       /\ \A x : Has(toChip', x) => Has(toChip, x) \/ Has(more, x)
       /\ SyncsBeforeConfs'
  BY <1>9, <1>10, QueueAdds
<1>12. unheard' \in [Packets -> Int]
  <2>1. \A p \in Packets : unheard[p] - h.heard[p] \in Int
    BY <1>7 DEF LinkInv, LinkTypes
  <2>. QED
    BY <1>3, <2>1
<1>13. Confirmed => Confirmed'
  BY <1>3, <1>4, <1>6, <1>9, <1>11 DEF Confirmed
<1>14. linked' \/ Has(le'.buf, Mark) \/ Has(toHost', Mark) => Confirmed'
  BY <1>3, <1>6, <1>8, <1>13 DEF LinkInv
<1>15. state' = 0 => ~Has(toChip', "conf")
  BY <1>3, <1>6, <1>7, <1>9, <1>11 DEF LinkInv, LinkTypes
<1>16. LinkTypes'
  BY <1>3, <1>4, <1>7, <1>8, <1>11, <1>12 DEF LinkInv, LinkTypes
<1>. QED
  BY <1>3, <1>11, <1>14, <1>15, <1>16 DEF LinkInv

LEMMA RelayUpLink ==
  ASSUME LinkInv, RelayUp
  PROVE  LinkInv'
<1>1. PICK n \in Available : \E g :
           /\ KernelAfter(g, kernel, toHost, n) /\ kernel' \in g[n]
           /\ toHost' = SubSeq(toHost, n + 1, Len(toHost))
  BY RelayUpIs
<1>2. PICK g : /\ KernelAfter(g, kernel, toHost, n) /\ kernel' \in g[n]
               /\ toHost' = SubSeq(toHost, n + 1, Len(toHost))
  BY <1>1
<1>3. UNCHANGED <<phase, state, ticks, le, linked, unheard, chip, toChip>>
  BY DEF RelayUp, host
<1>4. /\ toHost \in Seq(Nat) /\ Len(toHost) \in Nat /\ n \in 0..Len(toHost) /\ n \in Nat
      /\ \A k \in 1..Len(toHost) : toHost[k] \in Nat
  BY LenProperties DEF Available, LinkInv, LinkTypes
<1>5. toHost' \in Seq(Nat) /\ (Has(toHost', Mark) => Has(toHost, Mark))
  BY <1>2, <1>4, RestIs, HasRest
<1>. DEFINE K == [in : Seq(Nat), out : Seq({"conf_resp"})]
            T == {k \in 0..n : g[k] \subseteq K}
<1>6. 0 \in T
  BY <1>2, <1>4 DEF KernelAfter, LinkInv, LinkTypes
<1>7. ASSUME NEW k \in 0..(n - 1), k \in T PROVE k + 1 \in T
  <2>1. /\ k + 1 \in 0..n /\ k + 1 # 0 /\ (k + 1) - 1 = k /\ toHost[k + 1] \in Nat
    BY <1>4
  <2>2. g[k + 1] = Heard(g[k], toHost[k + 1])
    BY <1>2, <2>1 DEF KernelAfter
  <2>3. ASSUME NEW s \in K, NEW b \in Nat PROVE KernelHear(s, b) \in K
    <3>1. s.in \in Seq(Nat) /\ s.out \in Seq({"conf_resp"})
      OBVIOUS
    <3>2. CASE b # END
      <4>1. KernelHear(s, b) = [s EXCEPT !.in = Append(@, b)]
        BY <3>2 DEF KernelHear
      <4>2. Append(s.in, b) \in Seq(Nat)
        BY <3>1
      <4>. QED
        BY <4>1, <4>2
    <3>3. CASE b = END
      <4>. DEFINE out == IF s.in = Inside(ChipFrame.conf) THEN Append(s.out, "conf_resp") ELSE s.out
      <4>1. out \in Seq({"conf_resp"})
        BY <3>1
      <4>2. KernelHear(s, b) = [in |-> <<>>, out |-> out]
        BY <3>3 DEF KernelHear
      <4>3. <<>> \in Seq(Nat)
        OBVIOUS
      <4>. HIDE DEF out
      <4>. QED
        BY <4>1, <4>2, <4>3
    <3>. QED
      BY <3>2, <3>3
  <2>. HIDE DEF K
  <2>. QED
    BY <1>7, <2>1, <2>2, <2>3 DEF Heard
<1>8. \A k \in 0..n : k \in T
  <2>. HIDE DEF T
  <2>. QED
    BY <1>4, <1>6, <1>7, UpTo
<1>9. kernel' \in K
  BY <1>2, <1>4, <1>8
<1>. QED
  BY <1>3, <1>5, <1>9 DEF LinkInv, LinkTypes, Confirmed, SyncsBeforeConfs

(* LinkInv holds in every state.                                           *)
THEOREM LinkInvariant == Spec => []LinkInv
<1>1. Init => LinkInv
  BY InitLink
<1>2. LinkInv /\ [Next]_vars => LinkInv'
  <2>. SUFFICES ASSUME LinkInv, [Next]_vars PROVE LinkInv'
    OBVIOUS
  <2>1. CASE UNCHANGED vars
    BY <2>1 DEF vars, host, LinkInv, LinkTypes, Confirmed, SyncsBeforeConfs
  <2>. QED
    BY <2>1, ChipHearLink, ChipTimerLink, LoseFrameLink, SendLink, ReadLink, QuietLink,
       TimedOutLink, RelayUpLink, RelayDownLink, EndLink DEF Next
<1>. QED
  BY <1>1, <1>2, PTL DEF Spec

(* A handshake that succeeded leaves a chip that has our answer to its own *)
(* SYNC, whatever the line loses: bytes of any frame of the chip, frames   *)
(* of the program, and wherever a read ends.                               *)
THEOREM LinkCorrect == Spec => []LinkAgreed
<1>1. LinkInv => LinkAgreed
  BY DEF LinkInv, Confirmed, LinkAgreed
<1>. QED
  BY <1>1, LinkInvariant, PTL

(* Every frame the program sends is one that BCSP allows the chip to       *)
(* accept: checksum, escapes and CRC are those of the definition.          *)
THEOREM FramesCorrect == Spec => []FramesUnderstood
<1>1. LinkInv => FramesUnderstood
  <2>. SUFFICES ASSUME LinkInv, NEW n \in DOMAIN toChip PROVE toChip[n] # "bad"
    BY DEF FramesUnderstood
  <2>1. toChip[n] \in Packets
    BY LenProperties DEF LinkInv, LinkTypes
  <2>. QED
    BY <2>1, PacketSet
<1>. QED
  BY <1>1, LinkInvariant, PTL

-----------------------------------------------------------------------------
(* HeardWhatWasSent.  Each packet has two bytes that follow each other in  *)
(* its payload and in no other frame, even one with bytes missing.         *)
(* The packet is heard only when they are in the decoder's buffer, and     *)
(* they are on the line or in the buffer once for each packet that was     *)
(* sent and not heard.                                                     *)
Lead   == [sync |-> 218, sync_resp |-> 172, conf |-> 173, conf_resp |-> 222, data |-> 14]
Follow == [sync |-> 220, sync_resp |-> 175, conf |-> 239, conf_resp |-> 173, data |-> 4]

PairAt(s, i, p) == s[i] = Lead[p] /\ s[i + 1] = Follow[p]

(* The pairs of the line that are not yet taken from it, ...               *)
PairsFrom(s, k, p) == {i \in (k + 1)..(Len(s) - 1) : PairAt(s, i, p)}

(* ... and the one that is in the buffer or about to be.                   *)
Holds(l, p) == \E i \in 1..(Len(l.buf) - 1) : PairAt(l.buf, i, p)
Led(l, p) == l.buf # <<>> /\ Len(l.buf) # BufSize /\ l.buf[Len(l.buf)] = Lead[p]
Begun(l, s, k, p) == Holds(l, p) \/ (Led(l, p) /\ k < Len(s) /\ s[k + 1] = Follow[p])

Owed(l, s, k, p) == Cardinality(PairsFrom(s, k, p)) + IF Begun(l, s, k, p) THEN 1 ELSE 0

(* No escape comes between the two.                                        *)
Unescapable(s, p) == \A i \in 1..(Len(s) - 1) : s[i] = Lead[p] => s[i + 1] # ESC
Direct(l, s, k, p) == /\ ~l.in => l.buf = <<>>
                      /\ Led(l, p) /\ k < Len(s) => s[k + 1] # ESC

LEMMA MarksAre ==
  ASSUME NEW p \in Packets
  PROVE  /\ Lead[p] \in Nat /\ Follow[p] \in Nat /\ Lead[p] # Follow[p]
         /\ Lead[p] \notin {END, ESC} /\ Follow[p] \notin {END, ESC}
         /\ \E j \in 1..3 : Payloads[p][j] = Lead[p] /\ Payloads[p][j + 1] = Follow[p]
<1>1. /\ Payloads.sync[1] = 218 /\ Payloads.sync[2] = 220
      /\ Payloads.sync_resp[1] = 172 /\ Payloads.sync_resp[2] = 175
      /\ Payloads.conf[1] = 173 /\ Payloads.conf[2] = 239
      /\ Payloads.conf_resp[1] = 222 /\ Payloads.conf_resp[2] = 173
      /\ Payloads.data[3] = 14 /\ Payloads.data[4] = 4
  BY DEF Payloads
<1>2. \E j \in 1..3 : Payloads[p][j] = Lead[p] /\ Payloads[p][j + 1] = Follow[p]
  <2>1. CASE p = "data"
    <3>1. Payloads[p][3] = Lead[p] /\ Payloads[p][3 + 1] = Follow[p]
      BY <1>1, <2>1 DEF Lead, Follow
    <3>. QED
      BY <3>1
  <2>2. CASE p # "data"
    <3>1. Payloads[p][1] = Lead[p] /\ Payloads[p][1 + 1] = Follow[p]
      BY <1>1, <2>2, PacketSet DEF Lead, Follow
    <3>. QED
      BY <3>1
  <2>. QED
    BY <2>1, <2>2
<1>3. /\ Lead[p] \in {218, 172, 173, 222, 14} /\ Follow[p] \in {220, 175, 239, 173, 4}
      /\ Lead[p] # Follow[p]
  BY PacketSet DEF Lead, Follow
<1>. QED
  BY <1>2, <1>3 DEF END, ESC

LEMMA PairsFinite ==
  ASSUME NEW s \in Seq(Nat), NEW k \in Nat, NEW p
  PROVE  IsFiniteSet(PairsFrom(s, k, p)) /\ Cardinality(PairsFrom(s, k, p)) \in Nat
<1>1. Len(s) \in Nat
  BY LenProperties
<1>2. IsFiniteSet((k + 1)..(Len(s) - 1))
  BY <1>1, FS_Interval
<1>3. PairsFrom(s, k, p) \in SUBSET ((k + 1)..(Len(s) - 1))
  BY DEF PairsFrom
<1>4. IsFiniteSet(PairsFrom(s, k, p))
  BY <1>2, <1>3, FS_Subset
<1>. QED
  BY <1>4, FS_CardinalityType

(* What one byte of the line does to the buffer.                           *)
LEMMA LeFeedCases ==
  ASSUME NEW l \in LeState, NEW b \in Nat, ~l.in => l.buf = <<>>
  PROVE  /\ ~LeFeed(l, b).in => LeFeed(l, b).buf = <<>>
         /\ \/ LeFeed(l, b).buf = <<>>
            \/ b # END /\ LeFeed(l, b).buf = l.buf /\ (b = ESC \/ Len(l.buf) = BufSize)
            \/ /\ b # END /\ Len(l.buf) # BufSize
               /\ LeFeed(l, b).buf = Append(l.buf, IF l.esc THEN Unescaped(b) ELSE b)
<1>1. CASE b = END
  BY <1>1 DEF LeFeed
<1>2. CASE b # END /\ ~l.in
  BY <1>2 DEF LeFeed
<1>3. CASE b # END /\ l.in /\ ~l.esc /\ b = ESC
  <2>1. LeFeed(l, b) = [l EXCEPT !.esc = TRUE]
    BY <1>3 DEF LeFeed
  <2>2. LeFeed(l, b).in = l.in /\ LeFeed(l, b).buf = l.buf
    BY <2>1 DEF LeState
  <2>. QED
    BY <1>3, <2>2
<1>4. CASE b # END /\ l.in /\ ~(~l.esc /\ b = ESC)
  <2>. DEFINE grown == IF Len(l.buf) = BufSize THEN l.buf
                       ELSE Append(l.buf, IF l.esc THEN Unescaped(b) ELSE b)
  <2>1. LeFeed(l, b) = [l EXCEPT !.esc = FALSE, !.buf = grown]
    BY <1>4 DEF LeFeed
  <2>. HIDE DEF grown
  <2>2. LeFeed(l, b).in = l.in /\ LeFeed(l, b).buf = grown
    BY <2>1 DEF LeState
  <2>. QED
    BY <1>4, <2>2 DEF grown
<1>. QED
  BY <1>1, <1>2, <1>3, <1>4

LEMMA HeardHolds ==
  ASSUME NEW l \in LeState, NEW b, NEW p \in Packets, Completed(l, b), Packet(l) = Payloads[p]
  PROVE  Holds(l, p)
<1>1. PICK j \in 1..3 : Packet(l)[j] = Lead[p] /\ Packet(l)[j + 1] = Follow[p]
  BY MarksAre
<1>2. /\ Len(l.buf) \in Nat /\ Len(l.buf) >= 8
      /\ \A k \in 1..4 : Packet(l)[k] = l.buf[4 + k]
  BY PacketIs
<1>3. j \in 1..4 /\ j + 1 \in 1..4 /\ 4 + (j + 1) = (4 + j) + 1 /\ 4 + j \in 1..(Len(l.buf) - 1)
  BY <1>2
<1>4. l.buf[4 + j] = Lead[p] /\ l.buf[(4 + j) + 1] = Follow[p]
  BY <1>1, <1>2, <1>3
<1>. QED
  BY <1>3, <1>4 DEF Holds, PairAt

(* One byte from the line to the decoder.                                  *)
LEMMA OweStep ==
  ASSUME NEW l \in LeState, NEW s \in Seq(Nat), NEW k \in 0..(Len(s) - 1), NEW p \in Packets,
         Unescapable(s, p), Direct(l, s, k, p)
  PROVE  /\ Direct(LeFeed(l, s[k + 1]), s, k + 1, p)
         /\ Owed(LeFeed(l, s[k + 1]), s, k + 1, p) \in Nat /\ Owed(l, s, k, p) \in Nat
         /\ Owed(LeFeed(l, s[k + 1]), s, k + 1, p) <= Owed(l, s, k, p)
         /\ Completed(l, s[k + 1]) /\ Packet(l) = Payloads[p] =>
              Owed(LeFeed(l, s[k + 1]), s, k + 1, p) + 1 <= Owed(l, s, k, p)
<1>. DEFINE x == s[k + 1]
            z == IF l.esc THEN Unescaped(x) ELSE x
            l2 == LeFeed(l, x)
            new == k + 1 \in 1..(Len(s) - 1) /\ PairAt(s, k + 1, p)
            c == Cardinality(PairsFrom(s, k, p))
            c2 == Cardinality(PairsFrom(s, k + 1, p))
            a == Lead[p]
            b == Follow[p]
            len == Len(l.buf)
<1>1. Len(s) \in Nat /\ k \in Nat /\ k + 1 \in Nat /\ k + 1 \in 1..Len(s) /\ x \in Nat
  BY LenProperties
<1>2. a \notin {END, ESC} /\ b \notin {END, ESC} /\ a # b
  BY MarksAre
<1>3. z \in {a, b} => z = x
  BY <1>2 DEF Unescaped
<1>4. c \in Nat /\ c2 \in Nat /\ c = c2 + IF new THEN 1 ELSE 0
  <2>1. IsFiniteSet(PairsFrom(s, k + 1, p)) /\ c2 \in Nat /\ c \in Nat
    BY <1>1, PairsFinite
  <2>2. k + 1 \notin PairsFrom(s, k + 1, p)
    BY <1>1 DEF PairsFrom
  <2>3. CASE new
    <3>1. PairsFrom(s, k, p) = PairsFrom(s, k + 1, p) \cup {k + 1}
      BY <1>1, <2>3 DEF PairsFrom
    <3>. QED
      BY <2>1, <2>2, <2>3, <3>1, FS_AddElement
  <2>4. CASE ~new
    <3>1. PairsFrom(s, k, p) = PairsFrom(s, k + 1, p)
      BY <1>1, <2>4 DEF PairsFrom
    <3>. QED
      BY <2>1, <2>4, <3>1
  <2>. QED
    BY <2>3, <2>4
<1>5. l.buf \in Seq(Nat) /\ len \in Nat
  BY LenProperties DEF LeState
<1>6. /\ ~l2.in => l2.buf = <<>>
      /\ \/ l2.buf = <<>>
         \/ x # END /\ l2.buf = l.buf /\ (x = ESC \/ len = BufSize)
         \/ x # END /\ len # BufSize /\ l2.buf = Append(l.buf, z)
  BY <1>1, LeFeedCases DEF Direct
<1>7. Led(l, p) => x # ESC
  BY <1>1 DEF Direct
<1>8. Owed(l, s, k, p) = c + (IF Begun(l, s, k, p) THEN 1 ELSE 0)
      /\ Owed(l2, s, k + 1, p) = c2 + (IF Begun(l2, s, k + 1, p) THEN 1 ELSE 0)
  BY DEF Owed
<1>9. Begun(l, s, k, p) <=> Holds(l, p) \/ (Led(l, p) /\ x = b)
  BY <1>1 DEF Begun
<1>10. Begun(l2, s, k + 1, p) <=>
         Holds(l2, p) \/ (Led(l2, p) /\ k + 1 < Len(s) /\ s[(k + 1) + 1] = b)
  BY DEF Begun
<1>11. x = a /\ k + 1 < Len(s) => s[(k + 1) + 1] # ESC
  BY <1>1 DEF Unescapable
<1>12. x = a /\ k + 1 < Len(s) /\ s[(k + 1) + 1] = b => new
  BY <1>1 DEF PairAt
<1>. HIDE DEF x, z, l2, new, c, c2, a, b
<1>13. CASE l2.buf = <<>>
  <2>1. ~Holds(l2, p) /\ ~Led(l2, p)
    BY <1>13 DEF Holds, Led
  <2>. QED
    BY <1>4, <1>6, <1>8, <1>10, <2>1, HeardHolds, <1>9 DEF Direct, x, l2
<1>14. CASE x # END /\ l2.buf = l.buf /\ (x = ESC \/ len = BufSize)
  <2>1. ~Led(l2, p)
    BY <1>7, <1>14 DEF Led
  <2>2. Holds(l2, p) <=> Holds(l, p)
    BY <1>14 DEF Holds
  <2>3. ~Completed(l, x)
    BY <1>14 DEF Completed
  <2>. QED
    BY <1>4, <1>6, <1>8, <1>9, <1>10, <2>1, <2>2, <2>3 DEF Direct, x, l2
<1>15. CASE x # END /\ len # BufSize /\ l2.buf = Append(l.buf, z)
  <2>1. /\ Len(l2.buf) = len + 1 /\ l2.buf[len + 1] = z
        /\ \A i \in 1..len : l2.buf[i] = l.buf[i]
    BY <1>5, <1>15 DEF len
  <2>2. Led(l2, p) => x = a
    BY <1>3, <1>5, <2>1 DEF Led, a
  <2>3. Holds(l2, p) => Holds(l, p) \/ (Led(l, p) /\ x = b)
    <3>. SUFFICES ASSUME NEW i \in 1..(Len(l2.buf) - 1), PairAt(l2.buf, i, p)
                  PROVE  Holds(l, p) \/ (Led(l, p) /\ x = b)
      BY DEF Holds
    <3>1. i \in 1..len /\ l2.buf[i] = a /\ l2.buf[i + 1] = b
      BY <1>5, <2>1 DEF PairAt, a, b
    <3>2. CASE i = len
      <4>1. l.buf[len] = a /\ z = b /\ len # 0
        BY <2>1, <3>1, <3>2
      <4>2. l.buf # <<>>
        BY <4>1
      <4>. QED
        BY <1>3, <1>15, <4>1, <4>2 DEF Led, a
    <3>3. CASE i # len
      <4>1. i \in 1..(len - 1) /\ i + 1 \in 1..len
        BY <1>5, <3>1, <3>3
      <4>2. l.buf[i] = a /\ l.buf[i + 1] = b
        BY <2>1, <3>1, <4>1
      <4>. QED
        BY <4>1, <4>2 DEF Holds, PairAt, a, b
    <3>. QED
      BY <3>2, <3>3
  <2>4. ~Completed(l, x)
    BY <1>15 DEF Completed
  <2>5. Led(l2, p) /\ k + 1 < Len(s) => s[(k + 1) + 1] # ESC
    BY <1>11, <2>2
  <2>6. Begun(l2, s, k + 1, p) => Begun(l, s, k, p) \/ new
    BY <1>9, <1>10, <1>12, <2>2, <2>3
  <2>. QED
    BY <1>4, <1>6, <1>8, <2>4, <2>5, <2>6 DEF Direct, x, l2
<1>. QED
  BY <1>6, <1>13, <1>14, <1>15

LEMMA OwedType ==
  ASSUME NEW l, NEW s \in Seq(Nat), NEW k \in Nat, NEW p
  PROVE  Owed(l, s, k, p) \in Nat
BY PairsFinite DEF Owed

(* What is left on the line behind the n bytes of a read.                  *)
LEMMA OweRest ==
  ASSUME NEW l, NEW s \in Seq(Nat), NEW n \in 0..Len(s), NEW p,
         Unescapable(s, p), Direct(l, s, n, p)
  PROVE  /\ Unescapable(SubSeq(s, n + 1, Len(s)), p)
         /\ Direct(l, SubSeq(s, n + 1, Len(s)), 0, p)
         /\ Owed(l, SubSeq(s, n + 1, Len(s)), 0, p) <= Owed(l, s, n, p)
<1>. DEFINE r == SubSeq(s, n + 1, Len(s))
            A == PairsFrom(r, 0, p)
            B == PairsFrom(s, n, p)
            f == [i \in A |-> i + n]
<1>1. /\ Len(s) \in Nat /\ n \in Nat /\ r \in Seq(Nat) /\ Len(r) = Len(s) - n
      /\ \A k \in 1..(Len(s) - n) : r[k] = s[n + k]
  <2>1. /\ Len(s) \in Nat /\ r \in Seq(Nat) /\ Len(r) = Len(s) - n
        /\ \A k \in 1..(Len(s) - n) : r[k] = s[n + k]
    BY RestIs
  <2>2. n \in Nat
    BY <2>1
  <2>. QED
    BY <2>1, <2>2
<1>. HIDE DEF r
<1>2. \A i \in 1..(Len(r) - 1) : /\ n + i \in 1..(Len(s) - 1) /\ n + i \in (n + 1)..(Len(s) - 1)
                                 /\ r[i] = s[n + i] /\ r[i + 1] = s[(n + i) + 1]
  <2>. TAKE i \in 1..(Len(r) - 1)
  <2>1. /\ i \in 1..(Len(s) - n) /\ i + 1 \in 1..(Len(s) - n) /\ n + (i + 1) = (n + i) + 1
        /\ n + i \in 1..(Len(s) - 1) /\ n + i \in (n + 1)..(Len(s) - 1)
    BY <1>1
  <2>2. r[i] = s[n + i] /\ r[i + 1] = s[n + (i + 1)]
    BY <1>1, <2>1
  <2>. QED
    BY <2>1, <2>2
<1>3. Unescapable(r, p)
  BY <1>2 DEF Unescapable
<1>4. /\ 0 < Len(r) <=> n < Len(s)
      /\ 0 < Len(r) => r[0 + 1] = s[n + 1]
  <2>1. 0 < Len(r) <=> n < Len(s)
    BY <1>1
  <2>2. 0 < Len(r) => 1 \in 1..(Len(s) - n)
    BY <1>1
  <2>. QED
    BY <1>1, <2>1, <2>2
<1>5. Direct(l, r, 0, p) /\ (Begun(l, r, 0, p) <=> Begun(l, s, n, p))
  BY <1>4 DEF Direct, Begun
<1>6. f \in Injection(A, B)
  <2>1. \A i \in A : i \in 1..(Len(r) - 1) /\ i + n \in B /\ i \in Int
    <3>. TAKE i \in A
    <3>1. i \in 1..(Len(r) - 1) /\ PairAt(r, i, p)
      BY <1>1 DEF PairsFrom
    <3>2. n + i \in (n + 1)..(Len(s) - 1) /\ PairAt(s, n + i, p) /\ i + n = n + i /\ i \in Int
      BY <1>1, <1>2, <3>1 DEF PairAt
    <3>. QED
      BY <3>1, <3>2 DEF PairsFrom
  <2>2. f \in [A -> B] /\ \A i \in A : f[i] = i + n
    BY <2>1
  <2>3. \A i, j \in A : f[i] = f[j] => i = j
    BY <1>1, <2>1, <2>2
  <2>. HIDE DEF f
  <2>. QED
    BY <2>2, <2>3 DEF Injection, IsInjective
<1>7. IsFiniteSet(B) /\ Cardinality(B) \in Nat /\ Cardinality(A) \in Nat
  BY <1>1, PairsFinite
<1>8. Cardinality(A) <= Cardinality(B)
  <2>. HIDE DEF A, B, f
  <2>. QED
    BY <1>6, <1>7, FS_Injection
<1>9. Owed(l, r, 0, p) <= Owed(l, s, n, p)
  BY <1>5, <1>7, <1>8 DEF Owed
<1>. QED
  BY <1>3, <1>5, <1>9 DEF r

(* In a frame of the chip, what comes behind the first byte of a pair is   *)
(* no escape, and is the second byte only in the frame of the pair's own   *)
(* packet, where the first occurs once.  The END and the header before     *)
(* them hold neither.                                                      *)
Header == {END, 64, 65, 0, 126}

Ordered(f, m, q) ==
  /\ \A p \in Packets : \A i, j \in 1..m :
       f[i] = Lead[p] /\ i < j => f[j] # ESC /\ (f[j] = Follow[p] => p = q)
  /\ \A i, j \in 1..m : f[i] = Lead[q] /\ f[j] = Lead[q] => i = j

(* So it is with k bytes missing.                                          *)
Marked(f, q, k) ==
  /\ f \in Seq(Nat) /\ Len(f) >= 12 - k
  /\ Ordered(f, Len(f), q)
  /\ \A i \in 1..(5 - k) : f[i] \in Header

LEMMA MarkValues ==
  ASSUME NEW p \in Packets
  PROVE  \/ p = "sync" /\ Lead[p] = 218 /\ Follow[p] = 220
         \/ p = "sync_resp" /\ Lead[p] = 172 /\ Follow[p] = 175
         \/ p = "conf" /\ Lead[p] = 173 /\ Follow[p] = 239
         \/ p = "conf_resp" /\ Lead[p] = 222 /\ Follow[p] = 173
         \/ p = "data" /\ Lead[p] = 14 /\ Follow[p] = 4
BY PacketSet DEF Lead, Follow

LEMMA HeaderFirst ==
  ASSUME NEW f, f[1] = 192, f[2] = 64, f[3] = 65, f[4] = 0, f[5] = 126
  PROVE  \A i \in 1..5 : f[i] \in Header
BY DEF Header, END

LEMMA HeaderHasNone ==
  ASSUME NEW p \in Packets
  PROVE  ESC \notin Header /\ Follow[p] \notin Header
BY MarkValues DEF Header, END, ESC

LEMMA SyncFrame ==
  ASSUME NEW f, f[1] = 192, f[2] = 64, f[3] = 65, f[4] = 0, f[5] = 126,
         f[6] = 218, f[7] = 220, f[8] = 237, f[9] = 237, f[10] = 169,
         f[11] = 122, f[12] = 192
  PROVE  Ordered(f, 12, "sync")
<1>1. ASSUME NEW i \in 1..12, f[i] \in {218, 172, 173, 222, 14}
      PROVE  i = 6
  BY <1>1
<1>2. ASSUME NEW p \in Packets, NEW i \in 1..12, NEW j \in 1..12, f[i] = Lead[p], i < j
      PROVE  f[j] # 219 /\ (f[j] = Follow[p] => p = "sync")
  <2>1. i = 6
    BY <1>1, <1>2, MarkValues
  <2>2. i = 6 /\ j \in 7..12
    BY <1>2, <2>1
  <2>. QED
    BY <1>2, <2>2, MarkValues
<1>3. ASSUME NEW i \in 1..12, f[i] = Lead["sync"]
      PROVE  i = 6
  <2>1. Lead["sync"] = 218
    BY DEF Lead
  <2>2. i = 6
    BY <1>1, <1>3, <2>1
  <2>. QED
    BY <1>3, <2>1, <2>2
<1>. QED
  BY <1>2, <1>3 DEF Ordered, ESC

LEMMA SyncRespFrame ==
  ASSUME NEW f, f[1] = 192, f[2] = 64, f[3] = 65, f[4] = 0, f[5] = 126,
         f[6] = 172, f[7] = 175, f[8] = 239, f[9] = 238, f[10] = 187,
         f[11] = 132, f[12] = 192
  PROVE  Ordered(f, 12, "sync_resp")
<1>1. ASSUME NEW i \in 1..12, f[i] \in {218, 172, 173, 222, 14}
      PROVE  i = 6
  BY <1>1
<1>2. ASSUME NEW p \in Packets, NEW i \in 1..12, NEW j \in 1..12, f[i] = Lead[p], i < j
      PROVE  f[j] # 219 /\ (f[j] = Follow[p] => p = "sync_resp")
  <2>1. i = 6
    BY <1>1, <1>2, MarkValues
  <2>2. i = 6 /\ j \in 7..12
    BY <1>2, <2>1
  <2>. QED
    BY <1>2, <2>2, MarkValues
<1>3. ASSUME NEW i \in 1..12, f[i] = Lead["sync_resp"]
      PROVE  i = 6
  <2>1. Lead["sync_resp"] = 172
    BY DEF Lead
  <2>2. i = 6
    BY <1>1, <1>3, <2>1
  <2>. QED
    BY <1>3, <2>1, <2>2
<1>. QED
  BY <1>2, <1>3 DEF Ordered, ESC

LEMMA ConfFrame ==
  ASSUME NEW f, f[1] = 192, f[2] = 64, f[3] = 65, f[4] = 0, f[5] = 126,
         f[6] = 173, f[7] = 239, f[8] = 172, f[9] = 237, f[10] = 161,
         f[11] = 166, f[12] = 192
  PROVE  Ordered(f, 12, "conf")
<1>1. ASSUME NEW i \in 1..12, f[i] \in {218, 172, 173, 222, 14}
      PROVE  i = 6 \/ i = 8
  BY <1>1
<1>2. ASSUME NEW p \in Packets, NEW i \in 1..12, NEW j \in 1..12, f[i] = Lead[p], i < j
      PROVE  f[j] # 219 /\ (f[j] = Follow[p] => p = "conf")
  <2>1. i = 6 \/ i = 8
    BY <1>1, <1>2, MarkValues
  <2>2. (i = 6 /\ j \in 7..12) \/ (i = 8 /\ j \in 9..12)
    BY <1>2, <2>1
  <2>. QED
    BY <1>2, <2>2, MarkValues
<1>3. ASSUME NEW i \in 1..12, f[i] = Lead["conf"]
      PROVE  i = 6
  <2>1. Lead["conf"] = 173
    BY DEF Lead
  <2>2. i = 6 \/ i = 8
    BY <1>1, <1>3, <2>1
  <2>. QED
    BY <1>3, <2>1, <2>2
<1>. QED
  BY <1>2, <1>3 DEF Ordered, ESC

LEMMA ConfRespFrame ==
  ASSUME NEW f, f[1] = 192, f[2] = 64, f[3] = 65, f[4] = 0, f[5] = 126,
         f[6] = 222, f[7] = 173, f[8] = 208, f[9] = 208, f[10] = 131,
         f[11] = 88, f[12] = 192
  PROVE  Ordered(f, 12, "conf_resp")
<1>1. ASSUME NEW i \in 1..12, f[i] \in {218, 172, 173, 222, 14}
      PROVE  i = 6 \/ i = 7
  BY <1>1
<1>2. ASSUME NEW p \in Packets, NEW i \in 1..12, NEW j \in 1..12, f[i] = Lead[p], i < j
      PROVE  f[j] # 219 /\ (f[j] = Follow[p] => p = "conf_resp")
  <2>1. i = 6 \/ i = 7
    BY <1>1, <1>2, MarkValues
  <2>2. (i = 6 /\ j \in 7..12) \/ (i = 7 /\ j \in 8..12)
    BY <1>2, <2>1
  <2>. QED
    BY <1>2, <2>2, MarkValues
<1>3. ASSUME NEW i \in 1..12, f[i] = Lead["conf_resp"]
      PROVE  i = 6
  <2>1. Lead["conf_resp"] = 222
    BY DEF Lead
  <2>2. i = 6 \/ i = 7
    BY <1>1, <1>3, <2>1
  <2>. QED
    BY <1>3, <2>1, <2>2
<1>. QED
  BY <1>2, <1>3 DEF Ordered, ESC

LEMMA DataFrame ==
  ASSUME NEW f, f[1] = 192, f[2] = 64, f[3] = 65, f[4] = 0, f[5] = 126,
         f[6] = 219, f[7] = 220, f[8] = 219, f[9] = 221, f[10] = 14,
         f[11] = 4, f[12] = 133, f[13] = 46, f[14] = 192
  PROVE  Ordered(f, 14, "data")
<1>1. ASSUME NEW i \in 1..14, f[i] \in {218, 172, 173, 222, 14}
      PROVE  i = 10
  BY <1>1
<1>2. ASSUME NEW p \in Packets, NEW i \in 1..14, NEW j \in 1..14, f[i] = Lead[p], i < j
      PROVE  f[j] # 219 /\ (f[j] = Follow[p] => p = "data")
  <2>1. i = 10
    BY <1>1, <1>2, MarkValues
  <2>2. i = 10 /\ j \in 11..14
    BY <1>2, <2>1
  <2>. QED
    BY <1>2, <2>2, MarkValues
<1>3. ASSUME NEW i \in 1..14, f[i] = Lead["data"]
      PROVE  i = 10
  <2>1. Lead["data"] = 14
    BY DEF Lead
  <2>2. i = 10
    BY <1>1, <1>3, <2>1
  <2>. QED
    BY <1>3, <2>1, <2>2
<1>. QED
  BY <1>2, <1>3 DEF Ordered, ESC

LEMMA FrameMarked ==
  ASSUME NEW f \in Seq(Nat), NEW q \in Packets, f = ChipFrame[q]
  PROVE  Marked(f, q, 0)
<1>1. CASE q = "sync"
  <2>1. /\ Len(f) = 12 /\ f[1] = 192 /\ f[2] = 64 /\ f[3] = 65 /\ f[4] = 0
        /\ f[5] = 126 /\ f[6] = 218 /\ f[7] = 220 /\ f[8] = 237 /\ f[9] = 237
        /\ f[10] = 169 /\ f[11] = 122 /\ f[12] = 192
    BY <1>1 DEF ChipFrame, END, ESC
  <2>2. Ordered(f, 12, "sync")
    BY <2>1, Zenon, SyncFrame
  <2>3. \A i \in 1..5 : f[i] \in Header
    BY <2>1, Zenon, HeaderFirst
  <2>4. Len(f) >= 12 - 0 /\ 5 - 0 = 5
    BY <2>1
  <2>. QED
    BY <1>1, <2>1, <2>2, <2>3, <2>4 DEF Marked
<1>2. CASE q = "sync_resp"
  <2>1. /\ Len(f) = 12 /\ f[1] = 192 /\ f[2] = 64 /\ f[3] = 65 /\ f[4] = 0
        /\ f[5] = 126 /\ f[6] = 172 /\ f[7] = 175 /\ f[8] = 239 /\ f[9] = 238
        /\ f[10] = 187 /\ f[11] = 132 /\ f[12] = 192
    BY <1>2 DEF ChipFrame, END, ESC
  <2>2. Ordered(f, 12, "sync_resp")
    BY <2>1, Zenon, SyncRespFrame
  <2>3. \A i \in 1..5 : f[i] \in Header
    BY <2>1, Zenon, HeaderFirst
  <2>4. Len(f) >= 12 - 0 /\ 5 - 0 = 5
    BY <2>1
  <2>. QED
    BY <1>2, <2>1, <2>2, <2>3, <2>4 DEF Marked
<1>3. CASE q = "conf"
  <2>1. /\ Len(f) = 12 /\ f[1] = 192 /\ f[2] = 64 /\ f[3] = 65 /\ f[4] = 0
        /\ f[5] = 126 /\ f[6] = 173 /\ f[7] = 239 /\ f[8] = 172 /\ f[9] = 237
        /\ f[10] = 161 /\ f[11] = 166 /\ f[12] = 192
    BY <1>3 DEF ChipFrame, END, ESC
  <2>2. Ordered(f, 12, "conf")
    BY <2>1, Zenon, ConfFrame
  <2>3. \A i \in 1..5 : f[i] \in Header
    BY <2>1, Zenon, HeaderFirst
  <2>4. Len(f) >= 12 - 0 /\ 5 - 0 = 5
    BY <2>1
  <2>. QED
    BY <1>3, <2>1, <2>2, <2>3, <2>4 DEF Marked
<1>4. CASE q = "conf_resp"
  <2>1. /\ Len(f) = 12 /\ f[1] = 192 /\ f[2] = 64 /\ f[3] = 65 /\ f[4] = 0
        /\ f[5] = 126 /\ f[6] = 222 /\ f[7] = 173 /\ f[8] = 208 /\ f[9] = 208
        /\ f[10] = 131 /\ f[11] = 88 /\ f[12] = 192
    BY <1>4 DEF ChipFrame, END, ESC
  <2>2. Ordered(f, 12, "conf_resp")
    BY <2>1, Zenon, ConfRespFrame
  <2>3. \A i \in 1..5 : f[i] \in Header
    BY <2>1, Zenon, HeaderFirst
  <2>4. Len(f) >= 12 - 0 /\ 5 - 0 = 5
    BY <2>1
  <2>. QED
    BY <1>4, <2>1, <2>2, <2>3, <2>4 DEF Marked
<1>5. CASE q = "data"
  <2>1. /\ Len(f) = 14 /\ f[1] = 192 /\ f[2] = 64 /\ f[3] = 65 /\ f[4] = 0
        /\ f[5] = 126 /\ f[6] = 219 /\ f[7] = 220 /\ f[8] = 219 /\ f[9] = 221
        /\ f[10] = 14 /\ f[11] = 4 /\ f[12] = 133 /\ f[13] = 46 /\ f[14] = 192
    BY <1>5 DEF ChipFrame, END, ESC
  <2>2. Ordered(f, 14, "data")
    BY <2>1, Zenon, DataFrame
  <2>3. \A i \in 1..5 : f[i] \in Header
    BY <2>1, Zenon, HeaderFirst
  <2>4. Len(f) >= 12 - 0 /\ 5 - 0 = 5
    BY <2>1
  <2>. QED
    BY <1>5, <2>1, <2>2, <2>3, <2>4 DEF Marked
<1>. QED
  BY <1>1, <1>2, <1>3, <1>4, <1>5, PacketSet

LEMMA ShorterMarked ==
  ASSUME NEW f, NEW q \in Packets, NEW k \in 0..3, Marked(f, q, k), NEW n \in DOMAIN f
  PROVE  Marked(RemoveAt(f, n), q, k + 1)
<1>. DEFINE t == RemoveAt(f, n)
            m == Len(f)
            from(i) == IF i < n THEN i ELSE i + 1
<1>1. f \in Seq(Nat) /\ m \in Nat /\ m >= 12 - k
  BY LenProperties DEF Marked
<1>2. /\ t \in Seq(Nat) /\ n \in 1..m /\ Len(t) = m - 1
      /\ \A i \in 1..(m - 1) : t[i] = IF i < n THEN f[i] ELSE f[i + 1]
  BY <1>1, RemoveAtIs
<1>. HIDE DEF t, m
<1>3. ASSUME NEW i \in 1..(m - 1) PROVE from(i) \in 1..m /\ t[i] = f[from(i)]
  <2>1. from(i) \in 1..m
    BY <1>1, <1>2
  <2>2. t[i] = IF i < n THEN f[i] ELSE f[i + 1]
    BY <1>2
  <2>. QED
    BY <2>1, <2>2
<1>4. ASSUME NEW i \in 1..(m - 1), NEW j \in 1..(m - 1)
      PROVE  (i < j => from(i) < from(j)) /\ (from(i) = from(j) => i = j)
  BY <1>1, <1>2
<1>5. \A i \in 1..(5 - (k + 1)) : /\ i \in 1..(5 - k) /\ i + 1 \in 1..(5 - k)
                                 /\ i \in 1..(m - 1)
  BY <1>1
<1>6. \A i \in 1..(5 - (k + 1)) : t[i] \in Header
  BY <1>2, <1>5 DEF Marked
<1>. HIDE DEF from
<1>7. Ordered(f, m, q)
  BY DEF Marked, m
<1>8. Ordered(t, m - 1, q)
  <2>1. ASSUME NEW p \in Packets, NEW i \in 1..(m - 1), NEW j \in 1..(m - 1), t[i] = Lead[p], i < j
        PROVE  t[j] # ESC /\ (t[j] = Follow[p] => p = q)
    <3>1. /\ from(i) \in 1..m /\ t[i] = f[from(i)]
          /\ from(j) \in 1..m /\ t[j] = f[from(j)]
      BY <1>3
    <3>2. from(i) < from(j)
      BY <1>4, <2>1
    <3>. QED
      BY <1>7, <2>1, <3>1, <3>2 DEF Ordered
  <2>2. ASSUME NEW i \in 1..(m - 1), NEW j \in 1..(m - 1), t[i] = Lead[q], t[j] = Lead[q]
        PROVE  i = j
    <3>1. /\ from(i) \in 1..m /\ from(j) \in 1..m
          /\ f[from(i)] = Lead[q] /\ f[from(j)] = Lead[q]
      BY <1>3, <2>2
    <3>2. from(i) = from(j)
      BY <1>7, <3>1 DEF Ordered
    <3>. QED
      BY <1>4, <3>2
  <2>. QED
    BY <2>1, <2>2 DEF Ordered
<1>9. Len(t) >= 12 - (k + 1)
  BY <1>1, <1>2
<1>. QED
  BY <1>2, <1>6, <1>8, <1>9 DEF Marked, t

(* So a frame that arrives, with at least one byte of its header, brings   *)
(* at most one pair, that of its packet, and completes none.               *)
Brings(t, q) ==
  /\ t \in Seq(Nat) /\ Len(t) > 1 /\ t[1] \in Header
  /\ \A p \in Packets : /\ Unescapable(t, p)
                        /\ \A i \in PairsFrom(t, 0, p) : p = q
                        /\ \A i, j \in PairsFrom(t, 0, p) : i = j

LEMMA MarkedBrings ==
  ASSUME NEW f, NEW q \in Packets, NEW k \in 0..4, Marked(f, q, k)
  PROVE  Brings(f, q)
<1>1. f \in Seq(Nat) /\ Len(f) \in Nat /\ Len(f) > 1
  BY LenProperties DEF Marked
<1>2. f[1] \in Header
  <2>1. 1 \in 1..(5 - k)
    OBVIOUS
  <2>. QED
    BY <2>1 DEF Marked
<1>3. Ordered(f, Len(f), q)
  BY DEF Marked
<1>4. \A i \in 1..(Len(f) - 1) : i \in 1..Len(f) /\ i + 1 \in 1..Len(f) /\ i < i + 1
  BY <1>1
<1>5. \A p \in Packets : Unescapable(f, p)
  BY <1>3, <1>4 DEF Unescapable, Ordered
<1>6. \A p \in Packets : \A i \in PairsFrom(f, 0, p) : p = q /\ i \in 1..Len(f) /\ f[i] = Lead[q]
  <2>. TAKE p \in Packets
  <2>. TAKE i \in PairsFrom(f, 0, p)
  <2>1. i \in 1..(Len(f) - 1) /\ f[i] = Lead[p] /\ f[i + 1] = Follow[p]
    BY <1>1 DEF PairsFrom, PairAt
  <2>. QED
    BY <1>3, <1>4, <2>1 DEF Ordered
<1>7. \A p \in Packets : \A i, j \in PairsFrom(f, 0, p) : i = j
  BY <1>3, <1>6 DEF Ordered
<1>. QED
  BY <1>1, <1>2, <1>5, <1>6, <1>7 DEF Brings

LEMMA ArrivalBrings ==
  ASSUME MaxMissing < 5, NEW q \in Packets, NEW t \in Arrivals[q]
  PROVE  Brings(t, q)
<1>. DEFINE f == ChipFrame[q]
<1>1. f \in Seq(Nat)
  BY FramesMark
<1>2. Marked(f, q, 0)
  BY <1>1, FrameMarked
<1>3. Arrivals[q] = Lossy(f)
  BY PacketSet DEF Arrivals
<1>. HIDE DEF f
<1>4. PICK g : Less(g, f, MaxMissing) /\ Lossy(f) = g[MaxMissing]
  BY LossyIs
<1>5. MaxMissing \in Nat /\ MaxMissing \in 0..4
  BY BoundsAssumption
<1>. DEFINE T == {k \in 0..MaxMissing : \A b \in g[k] : Marked(b, q, k)}
<1>6. 0 \in T
  <2>1. g[0] = {f}
    BY <1>4, <1>5 DEF Less
  <2>. QED
    BY <1>2, <1>5, <2>1
<1>7. ASSUME NEW k \in 0..(MaxMissing - 1), k \in T PROVE k + 1 \in T
  <2>1. /\ k + 1 \in 0..MaxMissing /\ k + 1 # 0 /\ (k + 1) - 1 = k /\ k \in 0..3
    BY <1>5
  <2>2. g[k + 1] = Shorter(g[k])
    BY <1>4, <2>1 DEF Less
  <2>3. ASSUME NEW b \in g[k + 1] PROVE Marked(b, q, k + 1)
    <3>1. CASE b \in g[k]
      <4>1. Marked(b, q, k)
        BY <1>7, <3>1
      <4>2. Len(b) \in Nat /\ Len(b) >= 12 - (k + 1)
        BY <2>1, <4>1, LenProperties DEF Marked
      <4>3. \A i \in 1..(5 - (k + 1)) : i \in 1..(5 - k)
        BY <2>1
      <4>. QED
        BY <4>1, <4>2, <4>3 DEF Marked
    <3>2. CASE b \notin g[k]
      <4>1. PICK c \in g[k] : \E n \in DOMAIN c : b = RemoveAt(c, n)
        BY <2>2, <3>2 DEF Shorter
      <4>2. Marked(c, q, k)
        BY <1>7
      <4>. QED
        BY <2>1, <4>1, <4>2, ShorterMarked
    <3>. QED
      BY <3>1, <3>2
  <2>. QED
    BY <2>1, <2>3
<1>8. \A k \in 0..MaxMissing : k \in T
  <2>. HIDE DEF T
  <2>. QED
    BY <1>5, <1>6, <1>7, UpTo
<1>9. Marked(t, q, MaxMissing)
  BY <1>3, <1>4, <1>5, <1>8
<1>. QED
  BY <1>5, <1>9, MarkedBrings

(* What such a frame adds to the line.                                     *)
LEMMA OweEmit ==
  ASSUME NEW s \in Seq(Nat), NEW t, NEW q \in Packets, Brings(t, q), NEW l, NEW p \in Packets,
         Unescapable(s, p), Direct(l, s, 0, p)
  PROVE  /\ Unescapable(s \o t, p) /\ Direct(l, s \o t, 0, p)
         /\ p # q => Owed(l, s \o t, 0, p) <= Owed(l, s, 0, p)
         /\ Owed(l, s \o t, 0, p) <= Owed(l, s, 0, p) + 1
<1>. DEFINE c == s \o t
            L == Len(s)
            M == Len(t)
            A == PairsFrom(s, 0, p)
            B == PairsFrom(t, 0, p)
            C == PairsFrom(c, 0, p)
<1>1. /\ t \in Seq(Nat) /\ M > 1 /\ t[1] \in Header /\ Unescapable(t, p)
      /\ \A i \in B : p = q
      /\ \A i, j \in B : i = j
  BY DEF Brings
<1>2. /\ c \in Seq(Nat) /\ L \in Nat /\ M \in Nat /\ Len(c) = L + M
      /\ \A i \in 1..L : c[i] = s[i]
      /\ \A i \in 1..M : c[L + i] = t[i]
  BY <1>1, ConcatIs
<1>. HIDE DEF c, L, M
<1>3. t[1] # ESC /\ t[1] # Follow[p]
  BY <1>1, HeaderHasNone
<1>4. ASSUME NEW i \in 1..((L + M) - 1), c[i] = Lead[p]
      PROVE  /\ c[i + 1] # ESC
             /\ c[i + 1] = Follow[p] => i \in A \/ \E j \in B : i = L + j
  <2>1. CASE i < L
    <3>1. i \in 1..L /\ i + 1 \in 1..L /\ i \in 1..(L - 1) /\ i \in (0 + 1)..(L - 1)
      BY <1>2, <2>1
    <3>2. s[i] = Lead[p] /\ c[i + 1] = s[i + 1]
      BY <1>2, <1>4, <3>1
    <3>. QED
      BY <3>1, <3>2 DEF Unescapable, PairsFrom, PairAt, L
  <2>2. CASE i = L
    <3>1. 1 \in 1..M
      BY <1>1, <1>2
    <3>2. c[i + 1] = t[1]
      BY <1>2, <2>2, <3>1
    <3>. QED
      BY <1>3, <3>2
  <2>3. CASE i > L
    <3>. DEFINE j == i - L
    <3>1. j \in 1..M /\ j + 1 \in 1..M /\ j \in 1..(M - 1) /\ j \in (0 + 1)..(M - 1)
          /\ i = L + j /\ i + 1 = L + (j + 1)
      BY <1>2, <2>3
    <3>. HIDE DEF j
    <3>2. t[j] = Lead[p] /\ c[i + 1] = t[j + 1]
      BY <1>2, <1>4, <3>1
    <3>3. t[j + 1] # ESC
      BY <1>1, <3>1, <3>2 DEF Unescapable, M
    <3>4. t[j + 1] = Follow[p] => j \in B
      BY <3>1, <3>2 DEF PairsFrom, PairAt, M
    <3>. QED
      BY <3>1, <3>2, <3>3, <3>4
  <2>. QED
    BY <1>2, <2>1, <2>2, <2>3
<1>5. Unescapable(c, p)
  BY <1>2, <1>4 DEF Unescapable
<1>6. \A i \in C : i \in A \/ \E j \in B : i = L + j
  <2>. TAKE i \in C
  <2>1. i \in 1..((L + M) - 1) /\ c[i] = Lead[p] /\ c[i + 1] = Follow[p]
    BY <1>2 DEF PairsFrom, PairAt
  <2>. HIDE DEF A, B, C
  <2>. QED
    BY <1>4, <2>1
<1>7. /\ IsFiniteSet(A) /\ Cardinality(A) \in Nat
      /\ IsFiniteSet(C) /\ Cardinality(C) \in Nat
  BY <1>2, PairsFinite
<1>8. p # q => Cardinality(C) <= Cardinality(A)
  <2>. HIDE DEF A, B, C
  <2>1. p # q => C \in SUBSET A
    BY <1>1, <1>6
  <2>. QED
    BY <1>7, <2>1, FS_Subset
<1>9. Cardinality(C) <= Cardinality(A) + 1
  <2>. HIDE DEF A, B, C
  <2>1. PICK x : \A i \in C : i \in A \/ i = x
    <3>1. CASE B = {}
      BY <1>6, <3>1
    <3>2. CASE B # {}
      <4>1. PICK j \in B : TRUE
        BY <3>2
      <4>2. \A i \in C : i \in A \/ i = L + j
        BY <1>1, <1>6, <4>1
      <4>. QED
        BY <4>2
    <3>. QED
      BY <3>1, <3>2
  <2>2. C \in SUBSET (A \cup {x})
    BY <2>1
  <2>3. /\ IsFiniteSet(A \cup {x})
        /\ Cardinality(A \cup {x}) = Cardinality(A) \/ Cardinality(A \cup {x}) = Cardinality(A) + 1
    BY <1>7, FS_AddElement
  <2>4. Cardinality(C) <= Cardinality(A \cup {x})
    BY <2>2, <2>3, FS_Subset
  <2>. QED
    BY <1>7, <2>3, <2>4
<1>10. 0 < L => 0 < Len(c) /\ c[0 + 1] = s[0 + 1]
  <2>1. 0 < L => 0 < Len(c) /\ 1 \in 1..L
    BY <1>2
  <2>. QED
    BY <1>2, <2>1
<1>11. ~(0 < L) => c[0 + 1] = t[1]
  <2>1. ~(0 < L) => L = 0
    BY <1>2
  <2>2. 1 \in 1..M
    BY <1>1, <1>2
  <2>. QED
    BY <1>2, <2>1, <2>2
<1>12. Direct(l, c, 0, p)
  BY <1>3, <1>10, <1>11 DEF Direct, L
<1>13. Begun(l, c, 0, p) => Begun(l, s, 0, p)
  BY <1>3, <1>10, <1>11 DEF Begun, L
<1>14. /\ Owed(l, c, 0, p) = Cardinality(C) + (IF Begun(l, c, 0, p) THEN 1 ELSE 0)
       /\ Owed(l, s, 0, p) = Cardinality(A) + (IF Begun(l, s, 0, p) THEN 1 ELSE 0)
  BY DEF Owed
<1>. HIDE DEF A, B, C
<1>. QED
  BY <1>5, <1>7, <1>8, <1>9, <1>12, <1>13, <1>14 DEF c

-----------------------------------------------------------------------------
(* The inductive invariant of HeardWhatWasSent: in the handshake, what is  *)
(* owed of a packet has been sent and not been heard.                      *)
OwedIsSent ==
  phase \in {"send", "read"} =>
    \A p \in Packets : /\ Unescapable(toHost, p) /\ Direct(le, toHost, 0, p)
                       /\ Owed(le, toHost, 0, p) <= unheard[p]

HeardInv == HeardWhatWasSent /\ OwedIsSent

LEMMA EmitHeard ==
  ASSUME LinkInv, HeardInv, MaxMissing < 5, NEW q \in Packets, Emit(q),
         UNCHANGED <<phase, le>>
  PROVE  HeardInv'
<1>1. PICK t \in Arrivals[q] : toHost' = toHost \o t
  BY DEF Emit
<1>2. Brings(t, q)
  BY ArrivalBrings
<1>3. toHost \in Seq(Nat) /\ unheard \in [Packets -> Int]
  BY DEF LinkInv, LinkTypes
<1>4. CASE phase \in {"send", "read"}
  <2>1. unheard' = [unheard EXCEPT ![q] = @ + 1]
    BY <1>4 DEF Emit
  <2>2. ASSUME NEW p \in Packets
        PROVE  /\ unheard'[p] >= 0
               /\ Unescapable(toHost', p) /\ Direct(le', toHost', 0, p)
               /\ Owed(le', toHost', 0, p) <= unheard'[p]
    <3>1. /\ Unescapable(toHost, p) /\ Direct(le, toHost, 0, p)
          /\ Owed(le, toHost, 0, p) <= unheard[p] /\ unheard[p] >= 0 /\ unheard[p] \in Int
      BY <1>3, <1>4 DEF HeardInv, OwedIsSent, HeardWhatWasSent
    <3>2. unheard'[p] = unheard[p] + (IF p = q THEN 1 ELSE 0)
      BY <1>3, <2>1
    <3>3. /\ Unescapable(toHost \o t, p) /\ Direct(le, toHost \o t, 0, p)
          /\ p # q => Owed(le, toHost \o t, 0, p) <= Owed(le, toHost, 0, p)
          /\ Owed(le, toHost \o t, 0, p) <= Owed(le, toHost, 0, p) + 1
      BY <1>2, <1>3, <3>1, OweEmit
    <3>4. toHost \o t \in Seq(Nat)
      BY <1>2, <1>3, ConcatIs DEF Brings
    <3>5. Owed(le, toHost \o t, 0, p) \in Nat /\ Owed(le, toHost, 0, p) \in Nat
      BY <1>3, <3>4, OwedType
    <3>6. Owed(le, toHost \o t, 0, p) <= unheard'[p]
      BY <3>1, <3>2, <3>3, <3>5
    <3>. QED
      BY <1>1, <3>1, <3>2, <3>3, <3>6
  <2>. QED
    BY <2>2 DEF HeardInv, OwedIsSent, HeardWhatWasSent
<1>5. CASE phase \notin {"send", "read"}
  <2>1. \A p \in Packets : unheard'[p] >= 0
    <3>1. unheard' = unheard \/ unheard' = [unheard EXCEPT ![q] = @ + 1]
      BY DEF Emit
    <3>2. ASSUME NEW p \in Packets PROVE unheard'[p] >= 0
      <4>1. unheard[p] \in Int /\ unheard[p] >= 0
        BY <1>3 DEF HeardInv, HeardWhatWasSent
      <4>2. unheard'[p] = unheard[p] \/ unheard'[p] = unheard[p] + 1
        BY <1>3, <3>1
      <4>. QED
        BY <4>1, <4>2
    <3>. QED
      BY <3>2
  <2>. QED
    BY <1>5, <2>1 DEF HeardInv, OwedIsSent, HeardWhatWasSent
<1>. QED
  BY <1>4, <1>5

(* Until the read has heard the CONF RESP, what is owed goes down with     *)
(* each packet it hears.                                                   *)
LEMMA ReadOwes ==
  ASSUME LinkInv, HeardInv, phase = "read", NEW n \in 0..Len(toHost), NEW g,
         AfterBytes(g, AtRead, toHost, n), NEW h \in g[n], NEW p \in Packets
  PROVE  /\ h.heard[p] \in Nat /\ h.heard[p] <= unheard[p]
         /\ ~h.active => /\ Direct(h.le, toHost, n, p)
                         /\ Owed(h.le, toHost, n, p) <= unheard[p] - h.heard[p]
<1>1. /\ toHost \in Seq(Nat) /\ Len(toHost) \in Nat /\ DOMAIN toHost = 1..Len(toHost)
      /\ \A k \in 1..Len(toHost) : toHost[k] \in Nat
  BY LenProperties DEF LinkInv, LinkTypes
<1>2. n \in Nat
  BY <1>1
<1>3. /\ Unescapable(toHost, p) /\ Direct(le, toHost, 0, p)
      /\ Owed(le, toHost, 0, p) <= unheard[p] /\ unheard[p] >= 0 /\ unheard[p] \in Int
  BY DEF HeardInv, OwedIsSent, HeardWhatWasSent, LinkInv, LinkTypes
<1>. DEFINE Good(r, k) ==
              /\ r \in Handshake /\ r.heard[p] <= unheard[p]
              /\ ~r.active => /\ Direct(r.le, toHost, k, p)
                              /\ Owed(r.le, toHost, k, p) <= unheard[p] - r.heard[p]
            T == {k \in 0..n : \A r \in g[k] : Good(r, k)}
<1>4. 0 \in T
  <2>1. g[0] = {AtRead}
    BY <1>2 DEF AfterBytes
  <2>2. AtRead \in Handshake
    <3>1. <<>> \in Seq(Replies) /\ [q \in Packets |-> 0] \in [Packets -> Nat]
      OBVIOUS
    <3>. QED
      BY <3>1 DEF AtRead, Handshake, LinkInv, LinkTypes
  <2>3. AtRead.heard[p] = 0 /\ AtRead.le = le
    BY DEF AtRead
  <2>4. Owed(le, toHost, 0, p) \in Nat
    BY <1>1, OwedType
  <2>5. Good(AtRead, 0)
    BY <1>3, <2>2, <2>3, <2>4
  <2>. QED
    BY <1>2, <2>1, <2>5
<1>5. ASSUME NEW k \in 0..(n - 1), k \in T PROVE k + 1 \in T
  <2>1. /\ k + 1 \in 0..n /\ k + 1 # 0 /\ (k + 1) - 1 = k /\ k \in 0..(Len(toHost) - 1)
        /\ k + 1 \in DOMAIN toHost /\ toHost[k + 1] \in Nat
    BY <1>1, <1>2
  <2>. DEFINE b == toHost[k + 1]
  <2>2. g[k + 1] = Taken(g[k], b)
    BY <2>1 DEF AfterBytes
  <2>3. b \in Nat
    BY <2>1
  <2>4. ASSUME NEW r \in g[k + 1] PROVE Good(r, k + 1)
    <3>1. PICK u \in g[k] : r = TakeByte(u, b)
      BY <2>2 DEF Taken
    <3>2. Good(u, k)
      BY <1>5
    <3>3. u.le \in LeState /\ u.heard[p] \in Nat
      BY <3>2 DEF Handshake
    <3>4. /\ r \in Handshake
          /\ u.active => r = u
          /\ ~u.active => r.le = LeFeed(u.le, b)
          /\ ~u.active => r.heard[p] =
               u.heard[p] + IF Completed(u.le, b) THEN HeardPacket(p, Packet(u.le)) ELSE 0
      BY <2>3, <3>1, <3>2, TakeByteIs
    <3>5. CASE u.active
      BY <3>2, <3>4, <3>5
    <3>6. CASE ~u.active
      <4>. DEFINE now == Owed(LeFeed(u.le, b), toHost, k + 1, p)
                  then == Owed(u.le, toHost, k, p)
      <4>1. /\ Direct(LeFeed(u.le, b), toHost, k + 1, p)
            /\ now \in Nat /\ then \in Nat /\ now <= then
            /\ Completed(u.le, b) /\ Packet(u.le) = Payloads[p] => now + 1 <= then
        BY <1>1, <1>3, <2>1, <3>2, <3>3, <3>6, OweStep
      <4>2. then <= unheard[p] - u.heard[p]
        BY <3>2, <3>6
      <4>3. r.heard[p] = u.heard[p] + 1 \/ r.heard[p] = u.heard[p]
        BY <3>3, <3>4, <3>6 DEF HeardPacket
      <4>4. r.heard[p] # u.heard[p] => now + 1 <= then
        BY <3>3, <3>4, <3>6, <4>1 DEF HeardPacket
      <4>. HIDE DEF now, then
      <4>5. now <= unheard[p] - r.heard[p] /\ r.heard[p] <= unheard[p]
        BY <1>3, <3>3, <4>1, <4>2, <4>3, <4>4
      <4>. QED
        BY <3>4, <3>6, <4>1, <4>5 DEF now
    <3>. QED
      BY <3>5, <3>6
  <2>. HIDE DEF Good
  <2>. QED
    BY <2>1, <2>4
<1>6. \A k \in 0..n : k \in T
  <2>. HIDE DEF T
  <2>. QED
    BY <1>2, <1>4, <1>5, UpTo
<1>7. Good(h, n)
  BY <1>2, <1>6
<1>. QED
  BY <1>7 DEF Handshake

LEMMA ReadHeard ==
  ASSUME LinkInv, HeardInv, Read
  PROVE  HeardInv'
<1>1. PICK n \in Available : \E g : AfterBytes(g, AtRead, toHost, n) /\ \E h \in g[n] :
           /\ le' = h.le /\ state' = h.state
           /\ toChip' = toChip \o [i \in DOMAIN h.replies |-> Understood[h.replies[i]]]
           /\ linked' = h.active
           /\ phase' = IF h.active THEN "relay" ELSE "send"
           /\ unheard' = [p \in Packets |-> unheard[p] - h.heard[p]]
           /\ toHost' = SubSeq(toHost, n + 1, Len(toHost))
  BY ReadIs
<1>2. PICK g : AfterBytes(g, AtRead, toHost, n) /\ \E h \in g[n] :
           /\ le' = h.le
           /\ phase' = IF h.active THEN "relay" ELSE "send"
           /\ unheard' = [p \in Packets |-> unheard[p] - h.heard[p]]
           /\ toHost' = SubSeq(toHost, n + 1, Len(toHost))
  BY <1>1
<1>3. PICK h \in g[n] :
           /\ le' = h.le
           /\ phase' = IF h.active THEN "relay" ELSE "send"
           /\ unheard' = [p \in Packets |-> unheard[p] - h.heard[p]]
           /\ toHost' = SubSeq(toHost, n + 1, Len(toHost))
  BY <1>2
<1>4. phase = "read" /\ toHost \in Seq(Nat) /\ n \in 0..Len(toHost)
  BY DEF Read, Available, LinkInv, LinkTypes
<1>5. ASSUME NEW p \in Packets
      PROVE  /\ unheard'[p] >= 0
             /\ ~h.active => /\ Unescapable(toHost', p) /\ Direct(le', toHost', 0, p)
                             /\ Owed(le', toHost', 0, p) <= unheard'[p]
  <2>1. /\ h.heard[p] \in Nat /\ h.heard[p] <= unheard[p]
        /\ ~h.active => /\ Direct(h.le, toHost, n, p)
                        /\ Owed(h.le, toHost, n, p) <= unheard[p] - h.heard[p]
    BY <1>2, <1>4, ReadOwes
  <2>2. unheard[p] \in Int /\ Unescapable(toHost, p)
    BY <1>4 DEF LinkInv, LinkTypes, HeardInv, OwedIsSent
  <2>3. unheard'[p] = unheard[p] - h.heard[p]
    BY <1>3
  <2>4. ASSUME ~h.active
        PROVE  /\ Unescapable(toHost', p) /\ Direct(le', toHost', 0, p)
               /\ Owed(le', toHost', 0, p) <= unheard'[p]
    <3>1. /\ Unescapable(toHost', p) /\ Direct(le', toHost', 0, p)
          /\ Owed(le', toHost', 0, p) <= Owed(h.le, toHost, n, p)
      BY <1>3, <1>4, <2>1, <2>2, <2>4, OweRest
    <3>2. toHost' \in Seq(Nat)
      BY <1>3, <1>4, RestIs
    <3>3. n \in Nat
      BY <1>4, LenProperties
    <3>4. Owed(le', toHost', 0, p) \in Nat /\ Owed(h.le, toHost, n, p) \in Nat
      BY <1>4, <3>2, <3>3, OwedType
    <3>. QED
      BY <2>1, <2>2, <2>3, <2>4, <3>1, <3>4
  <2>. QED
    BY <2>1, <2>2, <2>3, <2>4
<1>. QED
  BY <1>3, <1>5 DEF HeardInv, HeardWhatWasSent, OwedIsSent

LEMMA InitHeard ==
  ASSUME Init
  PROVE  HeardInv
<1>1. toHost = <<>> /\ le = [in |-> FALSE, esc |-> FALSE, buf |-> <<>>]
  BY DEF Init
<1>2. \A p \in Packets : unheard[p] = 0
  BY DEF Init
<1>3. ASSUME NEW p \in Packets
      PROVE  /\ Unescapable(toHost, p) /\ Direct(le, toHost, 0, p)
             /\ Owed(le, toHost, 0, p) <= 0
  <2>1. Len(toHost) = 0 /\ le.buf = <<>> /\ Len(le.buf) = 0
    BY <1>1
  <2>2. PairsFrom(toHost, 0, p) = {} /\ ~Begun(le, toHost, 0, p)
    BY <2>1 DEF PairsFrom, Begun, Holds, Led
  <2>3. Owed(le, toHost, 0, p) <= 0
    BY <2>2, FS_EmptySet DEF Owed
  <2>. QED
    BY <2>1, <2>3 DEF Unescapable, Direct, Led
<1>. QED
  BY <1>2, <1>3 DEF HeardInv, HeardWhatWasSent, OwedIsSent

(* le_feed returns only what the chip has sent, and each packet once, if   *)
(* no frame of the chip loses its END and its whole header: then the end   *)
(* of a packet could come to follow the beginning of another one.          *)
THEOREM HeardCorrect ==
  ASSUME MaxMissing < 5
  PROVE  Spec => []HeardWhatWasSent
<1>1. Init => HeardInv
  BY InitHeard
<1>2. LinkInv /\ HeardInv /\ [Next]_vars => HeardInv'
  <2>. SUFFICES ASSUME LinkInv, HeardInv, [Next]_vars PROVE HeardInv'
    OBVIOUS
  <2>1. CASE ChipHear
    <3>1. UNCHANGED <<phase, le>>
      BY <2>1 DEF ChipHear, host
    <3>2. Silent \/ Emit("sync_resp") \/ Emit("conf_resp")
      BY <2>1 DEF ChipHear
    <3>3. CASE Silent
      BY <3>1, <3>3 DEF Silent, HeardInv, HeardWhatWasSent, OwedIsSent
    <3>. QED
      BY <3>1, <3>2, <3>3, EmitHeard, PacketSet
  <2>2. CASE ChipTimer
    <3>1. UNCHANGED <<phase, le>> /\ (Emit("sync") \/ Emit("conf") \/ Emit("data"))
      BY <2>2 DEF ChipTimer, host
    <3>. QED
      BY <3>1, EmitHeard, PacketSet
  <2>3. CASE Read
    BY <2>3, ReadHeard
  <2>4. CASE LoseFrame \/ Send \/ Quiet
    <3>1. UNCHANGED <<le, toHost, unheard>> /\ (phase' \in {"send", "read"} => phase \in {"send", "read"})
      BY <2>4 DEF LoseFrame, Send, Quiet, host
    <3>. QED
      BY <3>1 DEF HeardInv, HeardWhatWasSent, OwedIsSent
  <2>5. CASE TimedOut \/ RelayUp \/ RelayDown \/ WriteFails \/ Signal
    <3>1. unheard' = unheard /\ phase' \notin {"send", "read"}
      BY <2>5 DEF TimedOut, RelayUp, RelayDown, WriteFails, Signal, host
    <3>. QED
      BY <3>1 DEF HeardInv, HeardWhatWasSent, OwedIsSent
  <2>6. CASE UNCHANGED vars
    BY <2>6 DEF vars, host, HeardInv, HeardWhatWasSent, OwedIsSent
  <2>. QED
    BY <2>1, <2>2, <2>3, <2>4, <2>5, <2>6 DEF Next
<1>3. HeardInv => HeardWhatWasSent
  BY DEF HeardInv
<1>. QED
  BY <1>1, <1>2, <1>3, LinkInvariant, PTL DEF Spec
=============================================================================
