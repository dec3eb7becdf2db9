-------------------------- MODULE HidReports_proofs -------------------------
(***************************************************************************)
(* The report descriptor parser and the translation of reports, for any    *)
(* descriptor and any limits of the tables: every field of a report that   *)
(* the table holds, and that is shorter than the range of offsets, sits    *)
(* where the descriptor puts it, and such a report is decoded from its own *)
(* payload, however it was framed.                                         *)
(***************************************************************************)
EXTENDS HidReports, SequenceTheorems, TLAPS

(* Arithmetic of offsets.                                                  *)
LEMMA ModSmall ==
  ASSUME NEW R \in Nat \ {0}, NEW x \in Nat, x < R
  PROVE  x % R = x
OBVIOUS

LEMMA ModRange ==
  ASSUME NEW R \in Nat \ {0}, NEW x \in Nat
  PROVE  x % R \in 0..(R - 1)
OBVIOUS

LEMMA ProductNat ==
  ASSUME NEW a \in Nat, NEW b \in Nat
  PROVE  a * b \in Nat
OBVIOUS

LEMMA ProductMonotone ==
  ASSUME NEW a \in Nat, NEW b \in Nat, NEW s \in Nat, a < b
  PROVE  a * s <= s * b
<1>1. PICK d \in Nat : b = a + d
  BY b - a \in Nat, b = a + (b - a)
<1>2. s * b = a * s + s * d
  BY <1>1
<1>. QED
  BY <1>2, ProductNat

-----------------------------------------------------------------------------
GlobalState == [page : Pages \cup {"none"}, size : Sizes \cup {0}, count : Counts \cup {0},
                id : AllIds, lmin : LogicalMins \cup {0}, lmax : LogicalMaxs \cup {0}]

IdEntry == [id : AllIds, bits : 0..(OffsetRange - 1)]

ParserTypes ==
  /\ g \in GlobalState
  /\ stack \in Seq(GlobalState)
  /\ idtab \in Seq(IdEntry)
  /\ declared \in [AllIds -> Nat]
  /\ \A f \in fields : f.report_id \in AllIds

(* No report id has two entries in the table.                              *)
IdsUnique == \A m, n \in DOMAIN idtab : idtab[m].id = idtab[n].id => m = n

(* An id that is not in the table has declared nothing or came too late.   *)
LateIds ==
  /\ Len(idtab) <= MaxIds
  /\ \A i \in AllIds : ~Tracked(i) /\ Len(idtab) < MaxIds =>
       declared[i] = 0 /\ \A f \in fields : f.report_id # i

(* The table counts what is declared, as long as it can be counted.        *)
BitsCounted ==
  \A n \in DOMAIN idtab :
    declared[idtab[n].id] < OffsetRange => idtab[n].bits = declared[idtab[n].id]

ParserInv ==
  ParserTypes /\ IdsUnique /\ LateIds /\ BitsCounted /\ FieldsSitWhereDeclared

(* Every item but Input leaves the table, the fields and what was declared *)
(* alone.                                                                  *)
LEMMA ItemsKeepTable ==
  ASSUME ParserInv, g' \in GlobalState, stack' \in Seq(GlobalState),
         UNCHANGED <<idtab, fields, declared>>
  PROVE  ParserInv'
BY DEF ParserInv, ParserTypes, IdsUnique, LateIds, BitsCounted, FieldsSitWhereDeclared,
       Tracked, Entry

LEMMA OtherItems ==
  ASSUME ParserInv,
         \/ \E p \in Pages : UsagePage(p)
         \/ \E n \in Sizes : ReportSize(n)
         \/ \E n \in Counts : ReportCount(n)
         \/ \E v \in LogicalMins : LogicalMin(v)
         \/ \E v \in LogicalMaxs : LogicalMax(v)
         \/ \E i \in ReportIds : ReportId(i)
         \/ Push \/ Pop
         \/ \E u \in Usages : Usage(u)
         \/ \E u \in UsageMins : UsageMin(u)
         \/ Collection \/ OtherMain \/ Finish \/ UNCHANGED vars
  PROVE  ParserInv'
<1>. USE DEF ParserInv, ParserTypes
<1>1. UNCHANGED <<idtab, fields, declared>>
  BY DEF UsagePage, ReportSize, ReportCount, LogicalMin, LogicalMax, Global, ReportId, Push, Pop,
         Usage, UsageMin, Collection, OtherMain, Finish, vars
<1>2. stack' \in Seq(GlobalState)
  <2>1. CASE Push
    BY <2>1 DEF Push
  <2>2. CASE Pop
    <3>1. CASE stack = <<>>
      BY <2>2, <3>1 DEF Pop
    <3>2. CASE stack # <<>>
      <4>1. Len(stack) \in Nat /\ Len(stack) > 0
        BY <3>2
      <4>2. SubSeq(stack, 1, Len(stack) - 1) \in Seq(GlobalState)
        BY <4>1, SubSeqProperties
      <4>. QED
        BY <2>2, <3>2, <4>2 DEF Pop
    <3>. QED
      BY <3>1, <3>2
  <2>3. CASE UNCHANGED stack
    BY <2>3
  <2>. QED
    BY <2>1, <2>2, <2>3
    DEF UsagePage, ReportSize, ReportCount, LogicalMin, LogicalMax, Global, ReportId,
        Usage, UsageMin, Collection, OtherMain, Finish, vars
<1>3. g' \in GlobalState
  <2>1. CASE Pop
    <3>1. CASE stack = <<>>
      BY <2>1, <3>1 DEF Pop
    <3>2. CASE stack # <<>>
      <4>1. Len(stack) \in DOMAIN stack
        BY <3>2
      <4>. QED
        BY <2>1, <3>2, <4>1 DEF Pop
    <3>. QED
      BY <3>1, <3>2
  <2>2. CASE UNCHANGED g
    BY <2>2
  <2>3. ASSUME NEW i \in ReportIds, ReportId(i) PROVE g' \in GlobalState
    BY <2>3 DEF ReportId, GlobalState, AllIds
  <2>. QED
    BY <2>1, <2>2, <2>3
    DEF UsagePage, ReportSize, ReportCount, LogicalMin, LogicalMax, Global, Push,
        Usage, UsageMin, Collection, OtherMain, Finish, vars, GlobalState
<1>. QED
  BY <1>1, <1>2, <1>3, ItemsKeepTable

(* What an Input adds to the table.                                        *)
LEMMA InputInductive ==
  ASSUME ParserInv, NEW const \in BOOLEAN, NEW var \in BOOLEAN, NEW rel \in BOOLEAN,
         Input(const, var, rel)
  PROVE  ParserInv'
<1>. DEFINE R == OffsetRange
            i == g.id
            bits == g.size * g.count
<1>1. R \in Nat \ {0} /\ MaxIds \in Nat \ {0}
  BY LimitsAssumption
<1>2. i \in AllIds /\ g.size \in Nat /\ g.count \in Nat
  <2>1. g \in GlobalState
    BY DEF ParserInv, ParserTypes
  <2>2. g.id \in AllIds /\ g.size \in Sizes \cup {0} /\ g.count \in Counts \cup {0}
    BY <2>1 DEF GlobalState
  <2>3. (\A n \in Sizes \cup {0} : n \in Nat) /\ (\A n \in Counts \cup {0} : n \in Nat)
    BY ItemsAssumption
  <2>4. g.size \in Nat
    BY <2>2, <2>3
  <2>5. g.count \in Nat
    BY <2>2, <2>3
  <2>. QED
    BY <2>2, <2>4, <2>5
<1>3. bits \in Nat
  BY <1>2, ProductNat
<1>4. g' = g /\ stack' = stack /\ idtab' = Taken
  BY DEF Input
<1>5. declared' = [declared EXCEPT ![i] = @ + bits]
  BY DEF Input
<1>6. \A f \in fields' :
        \/ f \in fields
        \/ \E k \in 0..(g.count - 1) :
             /\ f.report_id = i
             /\ f.bit_offset = (Base(i) + k * g.size) % R
             /\ f.place = declared[i] + k * g.size
  BY DEF Input, NewFields, Kept, Control
<1>7. Total \in 0..(R - 1) /\ (bits < R => Total = bits)
  BY <1>1, <1>3, ModSmall, ModRange DEF Total
<1>8. /\ declared \in [AllIds -> Nat] /\ idtab \in Seq(IdEntry) /\ Len(idtab) \in Nat
      /\ \A n \in DOMAIN idtab : idtab[n] \in IdEntry
      /\ i' = i
  <2>1. idtab \in Seq(IdEntry)
    BY DEF ParserInv, ParserTypes
  <2>2. \A n \in DOMAIN idtab : idtab[n] \in IdEntry
    BY <2>1, ElementOfSeq
  <2>. QED
    BY <1>4, <2>1, <2>2 DEF ParserInv, ParserTypes
<1>. HIDE DEF R, i, bits
<1>9. /\ declared' \in [AllIds -> Nat]
      /\ declared'[i] = declared[i] + bits
      /\ \A j \in AllIds : j # i => declared'[j] = declared[j]
  BY <1>2, <1>3, <1>5, <1>8
<1>10. \A f \in fields' : f.report_id \in AllIds
  BY <1>2, <1>6 DEF ParserInv, ParserTypes
<1>11. ASSUME idtab' \in Seq(IdEntry) PROVE ParserTypes'
  BY <1>4, <1>9, <1>10, <1>11 DEF ParserInv, ParserTypes
(* A field of this item, once the table counts what was declared before it.*)
<1>12. ASSUME Base(i) = declared[i] \/ ~(declared[i] < R), NEW f \in fields',
              f \notin fields, declared'[f.report_id] < R
       PROVE  f.bit_offset = f.place
  <2>1. PICK k \in 0..(g.count - 1) :
             /\ f.report_id = i
             /\ f.bit_offset = (Base(i) + k * g.size) % R
             /\ f.place = declared[i] + k * g.size
    BY <1>6, <1>12
  <2>2. declared[i] + bits < R /\ declared[i] \in Nat
    BY <1>2, <1>8, <1>9, <1>12, <2>1
  <2>3. declared[i] < R
    BY <1>1, <1>3, <2>2
  <2>4. k \in Nat /\ k < g.count
    BY <1>2
  <2>5. (declared[i] + k * g.size) % R = declared[i] + k * g.size
    <3>. DEFINE x == k * g.size
    <3>1. x \in Nat /\ x <= bits
      BY <1>2, <2>4, ProductNat, ProductMonotone DEF bits
    <3>2. declared[i] + x \in Nat /\ declared[i] + x < R
      <4>. HIDE DEF x
      <4>. QED
        BY <1>1, <1>3, <2>2, <3>1
    <3>. QED
      BY <1>1, <3>2, ModSmall
  <2>. QED
    BY <1>12, <2>1, <2>3, <2>5
<1>13. CASE Tracked(i)
  <2>1. PICK m \in DOMAIN idtab : Entry(i) = {m} /\ idtab[m].id = i
    BY <1>13 DEF Tracked, Entry, ParserInv, IdsUnique
  <2>2. Taken = [n \in DOMAIN idtab |->
                  IF n = m THEN [idtab[n] EXCEPT !.bits = (@ + Total) % R] ELSE idtab[n]]
    BY <1>13, <2>1 DEF Taken, i, R
  <2>3. idtab[m] \in IdEntry /\ idtab[m].bits \in 0..(R - 1)
    BY <1>8, <2>1 DEF IdEntry, R
  <2>4. (idtab[m].bits + Total) % R \in 0..(R - 1)
    <3>1. idtab[m].bits + Total \in Nat
      BY <1>1, <1>7, <2>3
    <3>. QED
      BY <1>1, <3>1, ModRange
  <2>5. /\ idtab' \in Seq(IdEntry) /\ DOMAIN idtab' = DOMAIN idtab /\ Len(idtab') = Len(idtab)
        /\ idtab'[m] = [id |-> i, bits |-> (idtab[m].bits + Total) % R]
        /\ \A n \in DOMAIN idtab : n # m => idtab'[n] = idtab[n]
    <3>1. idtab' = [n \in 1..Len(idtab) |-> IF n = m
            THEN [idtab[n] EXCEPT !.bits = (@ + Total) % R] ELSE idtab[n]]
      BY <1>4, <1>8, <2>2
    <3>2. [idtab[m] EXCEPT !.bits = (@ + Total) % R]
            = [id |-> i, bits |-> (idtab[m].bits + Total) % R]
      BY <2>1, <2>3 DEF IdEntry
    <3>3. [id |-> i, bits |-> (idtab[m].bits + Total) % R] \in IdEntry
      BY <1>2, <2>4 DEF IdEntry, R
    <3>4. DOMAIN idtab = 1..Len(idtab)
      BY <1>8
    <3>5. \A n \in 1..Len(idtab) : idtab'[n] \in IdEntry
      <4>1. ASSUME NEW n \in 1..Len(idtab), n # m PROVE idtab'[n] \in IdEntry
        BY <1>8, <3>1, <3>4, <4>1
      <4>2. idtab'[m] \in IdEntry
        BY <2>1, <3>1, <3>2, <3>3, <3>4
      <4>. QED
        BY <4>1, <4>2
    <3>. QED
      BY <1>8, <2>1, <3>1, <3>2, <3>4, <3>5
  <2>6. Base(i) = idtab[m].bits
    BY <1>13, <2>1 DEF Base
  <2>7. Base(i) = declared[i] \/ ~(declared[i] < R)
    BY <2>1, <2>6 DEF ParserInv, BitsCounted, R
  <2>8. \A n \in DOMAIN idtab : idtab'[n].id = idtab[n].id
    BY <2>1, <2>5
  <2>9. \A j \in AllIds : Tracked(j)' = Tracked(j)
    BY <2>5, <2>8 DEF Tracked, Entry
  <2>10. IdsUnique'
    BY <2>5, <2>8 DEF ParserInv, IdsUnique
  <2>11. LateIds'
    <3>1. ASSUME NEW j \in AllIds, ~Tracked(j), Len(idtab) < MaxIds
          PROVE  declared'[j] = 0 /\ \A f \in fields' : f.report_id # j
      BY <1>6, <1>9, <1>13, <3>1 DEF ParserInv, LateIds
    <3>. QED
      BY <2>5, <2>9, <3>1 DEF ParserInv, LateIds
  <2>12. BitsCounted'
    <3>1. ASSUME NEW n \in DOMAIN idtab, n # m, declared'[idtab[n].id] < R
          PROVE  idtab'[n].bits = declared'[idtab[n].id]
      <4>1. idtab[n].id # i /\ idtab[n].id \in AllIds
        BY <1>8, <2>1, <3>1 DEF ParserInv, IdsUnique, IdEntry
      <4>. QED
        BY <1>9, <2>5, <3>1, <4>1 DEF ParserInv, BitsCounted, R
    <3>2. ASSUME declared'[i] < R PROVE idtab'[m].bits = declared'[i]
      <4>1. declared[i] \in Nat /\ declared[i] + bits < R
        BY <1>2, <1>8, <1>9, <3>2
      <4>2. declared[i] < R /\ bits < R
        BY <1>1, <1>3, <4>1
      <4>3. idtab[m].bits = declared[i] /\ Total = bits
        BY <1>7, <2>6, <2>7, <4>2
      <4>4. (declared[i] + bits) % R = declared[i] + bits
        BY <1>1, <1>3, <4>1, ModSmall
      <4>. QED
        BY <1>9, <2>5, <4>3, <4>4
    <3>. QED
      BY <2>1, <2>5, <2>8, <3>1, <3>2 DEF BitsCounted, R
  <2>13. FieldsSitWhereDeclared'
    <3>1. ASSUME NEW f \in fields', Tracked(f.report_id), declared'[f.report_id] < R
          PROVE  f.bit_offset = f.place
      <4>1. CASE f \in fields
        <5>1. f.report_id \in AllIds
          BY <1>10
        <5>2. declared[f.report_id] \in Nat /\ declared[i] \in Nat
          BY <1>2, <1>8, <5>1
        <5>3. declared'[f.report_id] >= declared[f.report_id]
          BY <1>3, <1>9, <5>1, <5>2
        <5>4. declared'[f.report_id] \in Nat
          BY <1>9, <5>1
        <5>5. declared[f.report_id] < R
          BY <1>1, <3>1, <5>2, <5>3, <5>4
        <5>. QED
          BY <3>1, <4>1, <5>5 DEF ParserInv, FieldsSitWhereDeclared, R
      <4>. QED
        BY <1>12, <2>7, <3>1, <4>1
    <3>. QED
      BY <1>10, <2>9, <3>1 DEF FieldsSitWhereDeclared, R
  <2>. QED
    BY <1>11, <2>5, <2>10, <2>11, <2>12, <2>13 DEF ParserInv
<1>14. CASE ~Tracked(i) /\ Len(idtab) < MaxIds
  <2>1. idtab' = Append(idtab, [id |-> i, bits |-> Total])
    BY <1>4, <1>14 DEF Taken, i
  <2>2. [id |-> i, bits |-> Total] \in IdEntry
    BY <1>2, <1>7 DEF IdEntry, R
  <2>3. /\ idtab' \in Seq(IdEntry) /\ Len(idtab') = Len(idtab) + 1
        /\ DOMAIN idtab' = DOMAIN idtab \cup {Len(idtab) + 1}
        /\ idtab'[Len(idtab) + 1] = [id |-> i, bits |-> Total]
        /\ \A n \in DOMAIN idtab : idtab'[n] = idtab[n] /\ n # Len(idtab) + 1
    BY <1>8, <2>1, <2>2
  <2>4. \A n \in DOMAIN idtab : idtab[n].id # i
    BY <1>14 DEF Tracked, Entry
  <2>5. declared[i] = 0 /\ \A f \in fields : f.report_id # i
    BY <1>2, <1>14 DEF ParserInv, LateIds
  <2>6. Base(i) = declared[i]
    BY <1>14, <2>5 DEF Base
  <2>7. IdsUnique'
    BY <2>3, <2>4 DEF ParserInv, IdsUnique
  <2>8. \A j \in AllIds : j # i => Tracked(j)' = Tracked(j)
    BY <2>3 DEF Tracked, Entry
  <2>9. LateIds'
    <3>1. Tracked(i)'
      BY <1>8, <2>3 DEF Tracked, Entry
    <3>2. ASSUME NEW j \in AllIds, ~Tracked(j)'
          PROVE  declared'[j] = 0 /\ \A f \in fields' : f.report_id # j
      <4>1. j # i /\ ~Tracked(j)
        BY <1>8, <2>8, <3>1, <3>2
      <4>. QED
        BY <1>6, <1>9, <1>14, <4>1 DEF ParserInv, LateIds
    <3>. QED
      BY <1>1, <1>8, <1>14, <2>3, <3>2 DEF LateIds
  <2>10. BitsCounted'
    <3>1. ASSUME NEW n \in DOMAIN idtab, declared'[idtab[n].id] < R
          PROVE  idtab'[n].bits = declared'[idtab[n].id]
      <4>1. idtab[n].id \in AllIds /\ idtab[n].id # i
        BY <1>8, <2>4 DEF IdEntry
      <4>. QED
        BY <1>9, <2>3, <3>1, <4>1 DEF ParserInv, BitsCounted, R
    <3>2. ASSUME declared'[i] < R PROVE Total = declared'[i]
      BY <1>3, <1>7, <1>9, <2>5, <3>2
    <3>. QED
      BY <2>3, <3>1, <3>2 DEF BitsCounted, R
  <2>11. FieldsSitWhereDeclared'
    <3>1. ASSUME NEW f \in fields', Tracked(f.report_id)', declared'[f.report_id] < R
          PROVE  f.bit_offset = f.place
      <4>1. CASE f \in fields
        <5>1. f.report_id \in AllIds /\ f.report_id # i
          BY <1>10, <2>5, <4>1
        <5>. QED
          BY <1>9, <2>8, <3>1, <4>1, <5>1 DEF ParserInv, FieldsSitWhereDeclared, R
      <4>. QED
        BY <1>12, <2>6, <3>1, <4>1
    <3>. QED
      BY <3>1 DEF FieldsSitWhereDeclared, R
  <2>. QED
    BY <1>11, <2>3, <2>7, <2>9, <2>10, <2>11 DEF ParserInv
<1>15. CASE ~Tracked(i) /\ ~(Len(idtab) < MaxIds)
  <2>1. idtab' = idtab
    BY <1>4, <1>15 DEF Taken, i
  <2>2. \A n \in DOMAIN idtab : idtab[n].id # i /\ idtab[n].id \in AllIds
    BY <1>8, <1>15 DEF Tracked, Entry, IdEntry
  <2>3. IdsUnique' /\ LateIds'
    BY <1>15, <2>1 DEF ParserInv, IdsUnique, LateIds
  <2>4. BitsCounted'
    BY <1>9, <2>1, <2>2 DEF ParserInv, BitsCounted
  <2>5. FieldsSitWhereDeclared'
    <3>1. ASSUME NEW f \in fields', Tracked(f.report_id), declared'[f.report_id] < R
          PROVE  f.bit_offset = f.place
      <4>1. f.report_id # i /\ f.report_id \in AllIds
        BY <1>10, <1>15, <3>1
      <4>2. f \in fields
        BY <1>6, <4>1
      <4>. QED
        BY <1>9, <3>1, <4>1, <4>2 DEF ParserInv, FieldsSitWhereDeclared, R
    <3>. QED
      BY <2>1, <3>1 DEF FieldsSitWhereDeclared, R, Tracked, Entry
  <2>. QED
    BY <1>8, <1>11, <2>1, <2>3, <2>4, <2>5 DEF ParserInv
<1>. QED
  BY <1>13, <1>14, <1>15

(* The inductive invariant holds of every parse.                           *)
THEOREM ParserCorrect == Spec => []ParserInv
<1>1. Init => ParserInv
  <2>1. SUFFICES ASSUME Init PROVE ParserInv
    OBVIOUS
  <2>2. g \in GlobalState /\ stack \in Seq(GlobalState) /\ idtab \in Seq(IdEntry)
    BY <2>1 DEF Init, GlobalState, AllIds
  <2>3. declared \in [AllIds -> Nat] /\ Len(idtab) = 0 /\ DOMAIN idtab = {} /\ fields = {}
    BY <2>1 DEF Init
  <2>. QED
    BY <2>1, <2>2, <2>3, LimitsAssumption
    DEF Init, ParserInv, ParserTypes, IdsUnique, LateIds, BitsCounted, FieldsSitWhereDeclared
<1>2. ParserInv /\ [Next]_vars => ParserInv'
  BY OtherItems, InputInductive DEF Next
<1>. QED
  BY <1>1, <1>2, PTL DEF Spec

(* Every field of a report that the table holds, and that is shorter than  *)
(* the range of offsets, sits where the descriptor declares it.            *)
THEOREM FieldsCorrect == Spec => []FieldsSitWhereDeclared
<1>1. ParserInv => FieldsSitWhereDeclared
  BY DEF ParserInv
<1>. QED
  BY <1>1, ParserCorrect, PTL

-----------------------------------------------------------------------------
(* What else the decoding of a report needs: fields have places and sizes, *)
(* and without report ids everything belongs to report 0.                  *)
FieldTypes == \A f \in fields : f.place \in Nat /\ f.bit_size \in Nat

NoIds ==
  ~out.uses_report_id => /\ g.id = 0
                         /\ \A n \in DOMAIN stack : stack[n].id = 0
                         /\ \A f \in fields : f.report_id = 0

LEMMA InputFields ==
  ASSUME ParserInv, FieldTypes, NEW const \in BOOLEAN, NEW var \in BOOLEAN, NEW rel \in BOOLEAN,
         Input(const, var, rel)
  PROVE  FieldTypes' /\ \A f \in fields' \ fields : f.report_id = g.id
<1>1. \A f \in fields' :
        \/ f \in fields
        \/ \E k \in 0..(g.count - 1) :
             f.report_id = g.id /\ f.bit_size = g.size /\ f.place = declared[g.id] + k * g.size
  BY DEF Input, NewFields, Kept, Control
<1>2. g.size \in Nat /\ g.count \in Nat /\ declared[g.id] \in Nat
  <2>1. g \in GlobalState /\ declared \in [AllIds -> Nat]
    BY DEF ParserInv, ParserTypes
  <2>2. g.id \in AllIds /\ g.size \in Sizes \cup {0} /\ g.count \in Counts \cup {0}
    BY <2>1 DEF GlobalState
  <2>3. (\A n \in Sizes \cup {0} : n \in Nat) /\ (\A n \in Counts \cup {0} : n \in Nat)
    BY ItemsAssumption
  <2>4. g.size \in Nat
    BY <2>2, <2>3
  <2>5. g.count \in Nat
    BY <2>2, <2>3
  <2>. QED
    BY <2>1, <2>2, <2>4, <2>5
<1>3. \A k \in 0..(g.count - 1) : k * g.size \in Nat
  BY <1>2, ProductNat
<1>4. \A k \in 0..(g.count - 1) : declared[g.id] + k * g.size \in Nat
  BY <1>2, <1>3
<1>. QED
  BY <1>1, <1>2, <1>4 DEF FieldTypes

LEMMA DecodingInductive ==
  ASSUME ParserInv, FieldTypes, NoIds, [Next]_vars
  PROVE  FieldTypes' /\ NoIds'
<1>. USE DEF FieldTypes, NoIds
<1>1. ASSUME NEW const \in BOOLEAN, NEW var \in BOOLEAN, NEW rel \in BOOLEAN, Input(const, var, rel)
      PROVE  FieldTypes' /\ NoIds'
  <2>1. g' = g /\ stack' = stack /\ out'.uses_report_id = out.uses_report_id
    BY <1>1 DEF Input
  <2>. QED
    BY <1>1, <2>1, InputFields
<1>2. ASSUME NEW i \in ReportIds, ReportId(i)
      PROVE  FieldTypes' /\ NoIds'
  BY <1>2 DEF ReportId
<1>3. CASE Push
  BY <1>3 DEF Push, ParserInv, ParserTypes
<1>4. CASE Pop
  <2>1. out' = out /\ fields' = fields /\ stack \in Seq(GlobalState)
    BY <1>4 DEF Pop, ParserInv, ParserTypes
  <2>2. CASE stack = <<>>
    BY <1>4, <2>1, <2>2 DEF Pop
  <2>3. CASE stack # <<>>
    <3>1. Len(stack) \in Nat \ {0} /\ DOMAIN stack = 1..Len(stack)
      BY <2>1, <2>3, EmptySeq, LenProperties
    <3>2. g' = stack[Len(stack)] /\ stack' = SubSeq(stack, 1, Len(stack) - 1)
      BY <1>4, <2>3 DEF Pop
    <3>3. Len(stack) \in DOMAIN stack
      BY <3>1
    <3>4. \A n \in DOMAIN stack' : n \in DOMAIN stack /\ stack'[n] = stack[n]
      BY <2>1, <3>1, <3>2
    <3>. QED
      BY <2>1, <3>2, <3>3, <3>4
  <2>. QED
    BY <2>2, <2>3
<1>5. CASE Finish
  BY <1>5 DEF Finish
<1>6. CASE \/ \E p \in Pages : UsagePage(p)
           \/ \E n \in Sizes : ReportSize(n)
           \/ \E n \in Counts : ReportCount(n)
           \/ \E v \in LogicalMins : LogicalMin(v)
           \/ \E v \in LogicalMaxs : LogicalMax(v)
           \/ \E u \in Usages : Usage(u)
           \/ \E u \in UsageMins : UsageMin(u)
           \/ Collection \/ OtherMain \/ UNCHANGED vars
  <2>1. UNCHANGED <<stack, fields, out>> /\ g'.id = g.id
    <3>1. g \in GlobalState
      BY DEF ParserInv, ParserTypes
    <3>. QED
      BY <1>6, <3>1 DEF UsagePage, ReportSize, ReportCount, LogicalMin, LogicalMax, Global,
             Usage, UsageMin, Collection, OtherMain, vars, GlobalState
  <2>. QED
    BY <2>1
<1>. QED
  BY <1>1, <1>2, <1>3, <1>4, <1>5, <1>6 DEF Next

-----------------------------------------------------------------------------
(* A payload behind h bytes of framing is the same bits, 8 * h further on. *)
Behind(report, payload, h) ==
  /\ Len(payload) \in Nat /\ Len(report) = Len(payload) + h
  /\ \A k \in 1..Len(payload) : report[k + h] = payload[k]

LEMMA BitShift ==
  ASSUME NEW h \in Nat, NEW payload, NEW report,
         Behind(report, payload, h),
         NEW m \in Nat
  PROVE  Bit(report, 8 * h + m) = Bit(payload, m)
<1>. USE DEF Behind
<1>1. (8 * h + m) \div 8 = h + (m \div 8) /\ (8 * h + m) % 8 = m % 8 /\ m \div 8 \in Nat
  OBVIOUS
<1>2. CASE m \div 8 < Len(payload)
  <2>1. h + (m \div 8) < Len(report) /\ (m \div 8) + 1 \in 1..Len(payload)
    BY <1>1, <1>2
  <2>2. report[h + (m \div 8) + 1] = payload[(m \div 8) + 1]
    <3>1. report[((m \div 8) + 1) + h] = payload[(m \div 8) + 1]
      BY <2>1
    <3>2. ((m \div 8) + 1) + h = h + (m \div 8) + 1
      BY <1>1
    <3>. QED
      BY <3>1, <3>2
  <2>. QED
    BY <1>1, <1>2, <2>1, <2>2 DEF Bit
<1>3. CASE ~(m \div 8 < Len(payload))
  <2>1. ~(h + (m \div 8) < Len(report))
    BY <1>1, <1>3
  <2>. QED
    BY <1>1, <1>3, <2>1 DEF Bit
<1>. QED
  BY <1>2, <1>3

LEMMA ExtractShift ==
  ASSUME NEW h \in Nat, NEW payload, NEW report,
         Behind(report, payload, h),
         NEW pos \in Nat, NEW nbits \in Nat, NEW signed
  PROVE  Extract(report, 8 * h + pos, nbits, signed) = Extract(payload, pos, nbits, signed)
<1>. DEFINE there == {2^i * Bit(report, (8 * h + pos) + i) : i \in 0..(nbits - 1)}
            here  == {2^i * Bit(payload, pos + i) : i \in 0..(nbits - 1)}
<1>1. ASSUME NEW i \in 0..(nbits - 1)
      PROVE  Bit(report, (8 * h + pos) + i) = Bit(payload, pos + i)
  <2>1. pos + i \in Nat /\ (8 * h + pos) + i = 8 * h + (pos + i)
    OBVIOUS
  <2>. DEFINE m == pos + i
  <2>2. m \in Nat
    BY <2>1
  <2>. HIDE DEF m
  <2>3. Bit(report, 8 * h + m) = Bit(payload, m)
    BY <2>2, BitShift
  <2>. QED
    BY <2>1, <2>3 DEF m
<1>2. there = here
  BY <1>1
<1>3. SumSet(there \ {0}) = SumSet(here \ {0})
  BY <1>2
<1>. QED
  BY <1>3 DEF Extract

(* What is emitted from the bytes behind h bytes of framing is what the    *)
(* payload means, when the fields selected are those of the report.        *)
LEMMA EmittedSame ==
  ASSUME ParserInv, FieldTypes, NEW i, Tracked(i), declared[i] < OffsetRange,
         NEW h \in Nat, NEW payload, NEW report, NEW rid,
         Behind(report, payload, h),
         \A f \in fields : ~out.uses_report_id \/ f.report_id = rid <=> f.report_id = i
  PROVE  Emitted(report, 8 * h, rid) = Meaning(i, payload)
<1>. DEFINE fs == {f \in fields : f.report_id = i}
            chosen == {f \in fields : ~out.uses_report_id \/ f.report_id = rid}
            of1(f) == FieldEvents(f, Extract(report, 8 * h + f.bit_offset, f.bit_size, f.lmin < 0))
            of2(f) == FieldEvents(f, Extract(payload, f.place, f.bit_size, f.lmin < 0))
<1>1. chosen = fs
  OBVIOUS
<1>2. ASSUME NEW f \in fs PROVE of1(f) = of2(f)
  <2>1. f.bit_offset = f.place /\ f.place \in Nat /\ f.bit_size \in Nat
    BY <1>2 DEF ParserInv, FieldsSitWhereDeclared, FieldTypes
  <2>. DEFINE pos == f.place
              nbits == f.bit_size
              signed == f.lmin < 0
  <2>2. pos \in Nat /\ nbits \in Nat
    BY <2>1
  <2>. HIDE DEF pos, nbits, signed
  <2>3. Extract(report, 8 * h + pos, nbits, signed) = Extract(payload, pos, nbits, signed)
    BY <2>2, ExtractShift
  <2>. QED
    BY <2>1, <2>3 DEF pos, nbits, signed
<1>3. [f \in chosen |-> of1(f)] = [f \in fs |-> of2(f)]
  <2>. HIDE DEF of1, of2, chosen, fs
  <2>. QED
    BY <1>1, <1>2
<1>4. Emitted(report, 8 * h, rid) = InOrder([f \in chosen |-> of1(f)])
  BY DEF Emitted
<1>5. Meaning(i, payload) = InOrder([f \in fs |-> of2(f)])
  BY DEF Meaning
<1>. QED
  BY <1>3, <1>4, <1>5

-----------------------------------------------------------------------------
(* The framings put one or two bytes before a payload.                     *)
LEMMA OneByte ==
  ASSUME NEW n \in Nat, NEW S, NEW payload \in [1..n -> S], NEW x
  PROVE  /\ Len(<<x>> \o payload) = n + 1
         /\ (<<x>> \o payload)[1] = x
         /\ \A k \in 1..n : (<<x>> \o payload)[k + 1] = payload[k]
<1>. DEFINE T == S \cup {x}
<1>1. payload \in Seq(T) /\ <<x>> \in Seq(T) /\ Len(payload) = n /\ Len(<<x>>) = 1
  OBVIOUS
<1>2. <<x>>[1] = x
  OBVIOUS
<1>. HIDE DEF T
<1>. DEFINE one == <<x>>
<1>3. one \in Seq(T) /\ Len(one) = 1 /\ one[1] = x
  BY <1>1, <1>2
<1>. HIDE DEF one
<1>4. /\ Len(one \o payload) = Len(one) + Len(payload)
      /\ \A k \in 1..(Len(one) + Len(payload)) :
           (one \o payload)[k] = IF k <= Len(one) THEN one[k] ELSE payload[k - Len(one)]
  BY <1>1, <1>3, ConcatProperties
<1>5. /\ Len(one \o payload) = n + 1
      /\ (one \o payload)[1] = x
      /\ \A k \in 1..n : (one \o payload)[k + 1] = payload[k]
  BY <1>1, <1>3, <1>4
<1>. QED
  BY <1>5 DEF one

LEMMA TwoBytes ==
  ASSUME NEW n \in Nat, NEW S, NEW payload \in [1..n -> S], NEW x, NEW y
  PROVE  /\ Len(<<x, y>> \o payload) = n + 2
         /\ (<<x, y>> \o payload)[1] = x /\ (<<x, y>> \o payload)[2] = y
         /\ \A k \in 1..n : (<<x, y>> \o payload)[k + 2] = payload[k]
<1>. DEFINE T == S \cup {x, y}
<1>1. payload \in Seq(T) /\ <<x, y>> \in Seq(T) /\ Len(payload) = n /\ Len(<<x, y>>) = 2
  OBVIOUS
<1>2. <<x, y>>[1] = x /\ <<x, y>>[2] = y
  OBVIOUS
<1>. HIDE DEF T
<1>. DEFINE two == <<x, y>>
<1>3. two \in Seq(T) /\ Len(two) = 2 /\ two[1] = x /\ two[2] = y
  BY <1>1, <1>2
<1>. HIDE DEF two
<1>4. /\ Len(two \o payload) = Len(two) + Len(payload)
      /\ \A k \in 1..(Len(two) + Len(payload)) :
           (two \o payload)[k] = IF k <= Len(two) THEN two[k] ELSE payload[k - Len(two)]
  BY <1>1, <1>3, ConcatProperties
<1>5. /\ Len(two \o payload) = n + 2
      /\ (two \o payload)[1] = x /\ (two \o payload)[2] = y
      /\ \A k \in 1..n : (two \o payload)[k + 2] = payload[k]
  BY <1>1, <1>3, <1>4
<1>. QED
  BY <1>5 DEF two

(* A payload has as many bytes as the report's bits fill.                  *)
LEMMA PayloadShape ==
  ASSUME NEW i, declared[i] \in Nat \ {0}, NEW payload \in Payloads(i)
  PROVE  \E n \in Nat \ {0} :
           /\ n = Bytes(declared[i]) /\ n * 8 >= declared[i] /\ (n - 1) * 8 < declared[i]
           /\ \E S : payload \in [1..n -> S]
           /\ Len(payload) = n
<1>. DEFINE n == Bytes(declared[i])
            S == {payload[k] : k \in 1..n}
<1>1. n \in Nat \ {0} /\ n * 8 >= declared[i] /\ (n - 1) * 8 < declared[i]
  BY DEF Bytes
<1>2. DOMAIN payload = 1..n /\ payload = [k \in 1..n |-> payload[k]]
  BY DEF Payloads
<1>. HIDE DEF n
<1>3. payload \in [1..n -> S]
  BY <1>2
<1>4. Len(payload) = n
  BY <1>1, <1>3
<1>. QED
  BY <1>1, <1>3, <1>4 DEF n

(* The table tells the length of every report that it could count.         *)
LEMMA PayloadBitsKnown ==
  ASSUME ParserInv, NEW m \in DOMAIN idtab, declared[idtab[m].id] < OffsetRange
  PROVE  /\ Tracked(idtab[m].id) /\ PayloadBits(idtab[m].id) = declared[idtab[m].id]
         /\ idtab[m].id \in AllIds
<1>. DEFINE i == idtab[m].id
            w == CHOOSE n \in Entry(i) : TRUE
<1>1. m \in Entry(i)
  BY DEF Entry
<1>2. w \in Entry(i)
  BY <1>1
<1>3. w \in DOMAIN idtab /\ idtab[w].id = i
  BY <1>2 DEF Entry
<1>4. w = m
  BY <1>3 DEF ParserInv, IdsUnique
<1>5. idtab[m].bits = declared[i]
  BY DEF ParserInv, BitsCounted
<1>6. i \in AllIds
  <2>1. idtab \in Seq(IdEntry)
    BY DEF ParserInv, ParserTypes
  <2>2. idtab[m] \in IdEntry
    BY <2>1
  <2>. QED
    BY <2>2 DEF IdEntry
<1>. QED
  BY <1>1, <1>4, <1>5, <1>6 DEF Tracked, PayloadBits, Base

(* A leading byte that is no report id is not taken for one.               *)
LEMMA NotAnId ==
  ASSUME ParserInv, NEW b, b \notin AllIds
  PROVE  PayloadBits(b) = -1
<1>1. idtab \in Seq(IdEntry)
  BY DEF ParserInv, ParserTypes
<1>2. \A n \in DOMAIN idtab : idtab[n].id \in AllIds
  <2>1. \A n \in DOMAIN idtab : idtab[n] \in IdEntry
    BY <1>1
  <2>. QED
    BY <2>1 DEF IdEntry
<1>. QED
  BY <1>2 DEF PayloadBits, Tracked, Entry

(* Devices without report ids.                                             *)
LEMMA PlainDecodes ==
  ASSUME ParserInv, FieldTypes, NoIds, ~out.uses_report_id,
         NEW m \in DOMAIN idtab, idtab[m].id = 0, declared[0] \in Nat \ {0},
         declared[0] < OffsetRange,
         NEW payload \in Payloads(0), NEW report \in Framings(0, payload)
  PROVE  EmitReport(report) = Meaning(0, payload)
<1>1. Tracked(0) /\ PayloadBits(0) = declared[0]
  BY PayloadBitsKnown
<1>2. PICK n \in Nat \ {0} :
        /\ n * 8 >= declared[0] /\ (n - 1) * 8 < declared[0]
        /\ \E S : payload \in [1..n -> S]
        /\ Len(payload) = n
  BY PayloadShape
<1>3. PICK S : payload \in [1..n -> S]
  BY <1>2
<1>4. \A f \in fields : ~out.uses_report_id \/ f.report_id = 0 <=> f.report_id = 0
  BY DEF NoIds
<1>5. CASE report = payload
  <2>1. ~HasHeader(report)
    BY <1>1, <1>2, <1>5 DEF HasHeader
  <2>2. EmitReport(report) = Emitted(report, 8 * 0, 0)
    BY <2>1 DEF EmitReport
  <2>3. Behind(report, payload, 0)
    BY <1>2, <1>5 DEF Behind
  <2>4. Emitted(report, 8 * 0, 0) = Meaning(0, payload)
    BY <1>1, <1>4, <2>3, EmittedSame, SMTT(60)
  <2>. QED
    BY <2>2, <2>4
<1>6. CASE report = <<DATA_INPUT>> \o payload
  <2>1. Len(report) = n + 1 /\ report[1] = DATA_INPUT /\ \A k \in 1..n : report[k + 1] = payload[k]
    BY <1>3, <1>6, OneByte
  <2>2. HasHeader(report)
    BY <1>1, <1>2, <2>1 DEF HasHeader
  <2>3. EmitReport(report) = Emitted(report, 8 * 1, 0)
    BY <2>2 DEF EmitReport
  <2>4. Behind(report, payload, 1)
    BY <1>2, <2>1 DEF Behind
  <2>5. Emitted(report, 8 * 1, 0) = Meaning(0, payload)
    <3>1. 1 \in Nat /\ declared[0] < OffsetRange
      OBVIOUS
    <3>. QED
      BY <1>1, <1>4, <2>4, <3>1, EmittedSame, SMTT(60)
  <2>. QED
    BY <2>3, <2>5
<1>. QED
  BY <1>5, <1>6 DEF Framings

(* Devices with report ids, none of which is the header byte.              *)
LEMMA NumberedDecodes ==
  ASSUME ParserInv, FieldTypes, out.uses_report_id, DATA_INPUT \notin ReportIds,
         NEW m \in DOMAIN idtab, NEW i, i = idtab[m].id, declared[i] \in Nat \ {0},
         declared[i] < OffsetRange,
         NEW payload \in Payloads(i), NEW report \in Framings(i, payload)
  PROVE  EmitReport(report) = Meaning(i, payload)
<1>1. Tracked(i) /\ PayloadBits(i) = declared[i]
  BY PayloadBitsKnown
<1>2. PICK n \in Nat \ {0} :
        /\ n * 8 >= declared[i] /\ (n - 1) * 8 < declared[i]
        /\ \E S : payload \in [1..n -> S]
        /\ Len(payload) = n
  BY PayloadShape
<1>3. PICK S : payload \in [1..n -> S]
  BY <1>2
<1>4. \A f \in fields : ~out.uses_report_id \/ f.report_id = i <=> f.report_id = i
  OBVIOUS
<1>5. CASE report = <<i>> \o payload
  <2>1. Len(report) = n + 1 /\ report[1] = i /\ \A k \in 1..n : report[k + 1] = payload[k]
    BY <1>3, <1>5, OneByte
  <2>2. 0 \in Ids(report)
    BY <1>1, <1>2, <2>1 DEF Ids
  <2>3. Min(Ids(report)) = 0
    <3>1. \A s \in Ids(report) : s \in 0..2
      BY DEF Ids
    <3>. QED
      BY <2>2, <3>1 DEF Min
  <2>4. EmitReport(report) = Emitted(report, 8 * 1, i)
    BY <2>1, <2>2, <2>3 DEF EmitReport
  <2>5. Behind(report, payload, 1)
    BY <1>2, <2>1 DEF Behind
  <2>6. Emitted(report, 8 * 1, i) = Meaning(i, payload)
    BY <1>1, <1>4, <2>5, EmittedSame, SMTT(60)
  <2>. QED
    BY <2>4, <2>6
<1>6. CASE report = <<DATA_INPUT, i>> \o payload
  <2>1. /\ Len(report) = n + 2 /\ report[1] = DATA_INPUT /\ report[2] = i
        /\ \A k \in 1..n : report[k + 2] = payload[k]
    BY <1>3, <1>6, TwoBytes
  <2>2. 1 \in Ids(report)
    BY <1>1, <1>2, <2>1 DEF Ids
  <2>3. 0 \notin Ids(report)
    <3>1. PayloadBits(report[1]) = -1
      BY <2>1, NotAnId DEF AllIds, DATA_INPUT
    <3>. QED
      BY <3>1 DEF Ids
  <2>4. Min(Ids(report)) = 1
    <3>1. \A s \in Ids(report) : s \in 0..2
      BY DEF Ids
    <3>. QED
      BY <2>2, <2>3, <3>1 DEF Min
  <2>5. EmitReport(report) = Emitted(report, 8 * 2, i)
    BY <2>1, <2>2, <2>4 DEF EmitReport
  <2>6. Behind(report, payload, 2)
    BY <1>2, <2>1 DEF Behind
  <2>7. Emitted(report, 8 * 2, i) = Meaning(i, payload)
    BY <1>1, <1>4, <2>6, EmittedSame, SMTT(60)
  <2>. QED
    BY <2>5, <2>7
<1>. QED
  BY <1>5, <1>6 DEF Framings

(* Every report the device declares is decoded by its own fields from its  *)
(* own payload, in either framing, though the code guesses where it starts.*)
(* Only a device that numbers a report 161 could be misread: that id and   *)
(* the transport's header are the same byte.                               *)
THEOREM ReportsDecodeCorrect ==
  ASSUME DATA_INPUT \notin ReportIds
  PROVE  Spec => []OwnReportsDecode
<1>1. Init => FieldTypes /\ NoIds
  BY DEF Init, FieldTypes, NoIds
<1>2. ParserInv /\ FieldTypes /\ NoIds /\ [Next]_vars => (FieldTypes /\ NoIds)'
  BY DecodingInductive
<1>3. ParserInv /\ FieldTypes /\ NoIds => OwnReportsDecode
  <2>1. SUFFICES ASSUME ParserInv, FieldTypes, NoIds, NEW m \in DOMAIN idtab, NEW i,
                        i = idtab[m].id, out.uses_report_id <=> i # 0,
                        0 < declared[i], declared[i] < OffsetRange,
                        NEW payload \in Payloads(i), NEW report \in Framings(i, payload)
                 PROVE  EmitReport(report) = Meaning(i, payload)
    BY DEF OwnReportsDecode
  <2>2. declared[i] \in Nat \ {0}
    <3>1. i \in AllIds
      BY <2>1, PayloadBitsKnown
    <3>. QED
      BY <2>1, <3>1 DEF ParserInv, ParserTypes
  <2>3. CASE i = 0
    BY <2>1, <2>2, <2>3, PlainDecodes
  <2>4. CASE i # 0
    BY <2>1, <2>2, <2>4, NumberedDecodes
  <2>. QED
    BY <2>3, <2>4
<1>. QED
  BY <1>1, <1>2, <1>3, ParserCorrect, PTL DEF Spec
=============================================================================
