------------------------- MODULE RdescLadder_proofs -------------------------
(***************************************************************************)
(* The descriptor ladder, for any set of devices and whatever the process  *)
(* and the disk do: a device is taken over with its own descriptor only.   *)
(* Its own bytes, delivered or cached, come before a built-in descriptor,  *)
(* and a keyboard is taken over only if its garbled bytes may parse.       *)
(***************************************************************************)
EXTENDS RdescLadder, TLAPS

USE DEF Labels, Loaded

(* Types are kept by every step, the cut-off files of Write included.      *)
LEMMA TypeInductive ==
  ASSUME TypeOK, DescInv, [Next]_vars
  PROVE  TypeOK'
<1>1. ASSUME NEW d \in Devs, OpenCall(d) PROVE TypeOK'
  BY <1>1, NoDevAssumption DEF TypeOK, OpenCall, Desc, Forms, Whole, Garblings
<1>2. CASE TryDevice
  BY <1>2 DEF TypeOK, TryDevice
<1>3. CASE TryCompacted
  BY <1>3 DEF TypeOK, TryCompacted
<1>4. CASE Truncate
  <2>1. cur \in Devs
    BY <1>4 DEF TypeOK, Truncate
  <2>. QED
    BY <1>4, <2>1 DEF TypeOK, Truncate
<1>5. CASE Write
  <2>1. cur \in Devs
    BY <1>5 DEF TypeOK, Write
  <2>2. Partial(prof) \subseteq Desc \cup {Empty}
    BY <1>5 DEF DescInv, Desc, Forms, Partial, Write
  <2>. QED
    BY <1>5, <2>1, <2>2 DEF TypeOK, Write
<1>6. CASE TryCache
  BY <1>6 DEF TypeOK, TryCache
<1>7. CASE TryBuiltin
  <2>1. cur \in Devs
    BY <1>7 DEF TypeOK, TryBuiltin
  <2>. QED
    BY <1>7, <2>1 DEF TypeOK, TryBuiltin, Builtin, Desc, Forms
<1>8. CASE Return
  BY <1>8, NoDevAssumption DEF TypeOK, Return
<1>9. CASE Crash
  BY <1>9, NoDevAssumption DEF TypeOK, Crash
<1>10. CASE UNCHANGED vars
  BY <1>10 DEF TypeOK, vars
<1>. QED
  BY <1>1, <1>2, <1>3, <1>4, <1>5, <1>6, <1>7, <1>8, <1>9, <1>10
  DEF Next, Ladder

(* What is delivered, parsed and saved in a call is its own device's.      *)
LEMMA DescInductive ==
  ASSUME TypeOK, DescInv, CacheInv, [Next]_vars
  PROVE  DescInv'
<1>1. ASSUME NEW d \in Devs, OpenCall(d) PROVE DescInv'
  BY <1>1, EmptyAssumption DEF DescInv, Genuine, OpenCall, Desc, Whole, Garblings
<1>2. CASE TryDevice
  BY <1>2 DEF DescInv, TryDevice, Takeable
<1>3. CASE TryCompacted
  BY <1>3 DEF DescInv, TryCompacted, Takeable
<1>4. CASE Truncate
  BY <1>4 DEF DescInv, Truncate, Takeable
<1>5. CASE Write
  BY <1>5 DEF DescInv, Write, Takeable
<1>6. CASE TryCache
  <2>1. cur \in Devs
    BY <1>6 DEF TypeOK, TryCache
  <2>. QED
    BY <1>6, <2>1 DEF DescInv, CacheInv, TryCache, Takeable
<1>7. CASE TryBuiltin
  BY <1>7 DEF TypeOK, DescInv, Genuine, TryBuiltin, Builtin, Takeable, Desc, Forms
<1>8. CASE Return
  BY <1>8, EmptyAssumption DEF DescInv, Return
<1>9. CASE Crash
  BY <1>9, EmptyAssumption DEF DescInv, Crash
<1>10. CASE UNCHANGED vars
  BY <1>10 DEF DescInv, Takeable, vars
<1>. QED
  BY <1>1, <1>2, <1>3, <1>4, <1>5, <1>6, <1>7, <1>8, <1>9, <1>10
  DEF Next, Ladder

(* Every file holds what is left of its own device's descriptor.           *)
LEMMA CacheInductive ==
  ASSUME TypeOK, DescInv, CacheInv, [Next]_vars
  PROVE  CacheInv'
<1>1. CASE Truncate
  BY <1>1, EmptyAssumption DEF TypeOK, CacheInv, Truncate
<1>2. CASE Write
  BY <1>2, EmptyAssumption DEF TypeOK, CacheInv, DescInv, Genuine, Write, Partial
<1>3. CASE UNCHANGED cache
  BY <1>3 DEF CacheInv
<1>. QED
  BY <1>1, <1>2, <1>3
  DEF Next, Ladder, OpenCall, TryDevice, TryCompacted, TryCache, TryBuiltin,
      Return, Crash, vars

(* The last rung is reached only past a cache that does not parse.         *)
LEMMA RungInductive ==
  ASSUME TypeOK, RungInv, [Next]_vars
  PROVE  RungInv'
<1>1. CASE TryCache
  BY <1>1 DEF RungInv, TryCache, Takeable
<1>2. CASE pc' # "builtin"
  BY <1>2 DEF RungInv
<1>3. CASE UNCHANGED vars
  BY <1>3 DEF RungInv, Takeable, vars
<1>. QED
  BY <1>1, <1>2, <1>3
  DEF Next, Ladder, OpenCall, TryDevice, TryCompacted, Truncate, Write,
      TryBuiltin, Return, Crash

(* The inductive invariant of the ladder.                                  *)
THEOREM LadderCorrect == Spec => []LadderInv
<1>1. Init => LadderInv
  BY NoDevAssumption, EmptyAssumption
  DEF Init, LadderInv, TypeOK, DescInv, CacheInv, RungInv
<1>2. LadderInv /\ [Next]_vars => LadderInv'
  BY TypeInductive, DescInductive, CacheInductive, RungInductive DEF LadderInv
<1>. QED
  BY <1>1, <1>2, PTL DEF Spec

(* The files, the buffer and the locals of the open in progress hold only  *)
(* descriptors, and an open is in progress just when a device is current.  *)
THEOREM TypeCorrect == Spec => []TypeOK
<1>1. LadderInv => TypeOK
  BY DEF LadderInv
<1>. QED
  BY <1>1, LadderCorrect, PTL

(* No device is taken over with another's descriptor, and none is cached   *)
(* under its address, through any mixture of opens, crashes and short      *)
(* writes.                                                                 *)
THEOREM OwnDescriptorCorrect == Spec => []OwnDescriptorOnly
<1>1. LadderInv => OwnDescriptorOnly
  BY DEF LadderInv, DescInv, CacheInv, Genuine, OwnDescriptorOnly
<1>. QED
  BY <1>1, LadderCorrect, PTL

(* A keyboard is never taken over, unless its garbled bytes may parse.     *)
THEOREM KeyboardsCorrect == Spec => []KeyboardsStayStock
<1>1. LadderInv => KeyboardsStayStock
  BY BuiltinAssumption
  DEF LadderInv, DescInv, Genuine, Takeable, KeyboardsStayStock
<1>. QED
  BY <1>1, LadderCorrect, PTL

(* A device whose file holds a descriptor that parses is taken over with   *)
(* that or with the bytes delivered, whatever these are, unless they parse *)
(* as a plain keyboard.                                                    *)
THEOREM OwnBytesCorrect == Spec => []OwnBytesBeforeBuiltin
<1>1. Init => OwnBytesBeforeBuiltin
  BY DEF Init, OwnBytesBeforeBuiltin
<1>2. ASSUME LadderInv, OwnBytesBeforeBuiltin, [Next]_vars
      PROVE  OwnBytesBeforeBuiltin'
  <2>. USE <1>2 DEF OwnBytesBeforeBuiltin, LadderInv
  <2>1. CASE TryDevice
    BY <2>1 DEF TryDevice, KeyboardOnly
  <2>2. CASE Truncate
    BY <2>2 DEF Truncate, DescInv
  <2>3. CASE Write
    BY <2>3 DEF Write, DescInv
  <2>4. CASE TryCache
    BY <2>4 DEF TryCache
  <2>5. CASE TryBuiltin
    BY <2>5 DEF TryBuiltin, RungInv, Takeable
  <2>6. CASE pc' \notin {"taken", "delegated"}
    BY <2>6
  <2>7. CASE UNCHANGED vars
    BY <2>7 DEF vars, Takeable, KeyboardOnly
  <2>. QED
    BY <2>1, <2>2, <2>3, <2>4, <2>5, <2>6, <2>7
    DEF Next, Ladder, OpenCall, TryCompacted, Return, Crash
<1>. QED
  BY <1>1, <1>2, LadderCorrect, PTL DEF Spec
=============================================================================
