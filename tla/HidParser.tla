----------------------------- MODULE HidParser -----------------------------
(***************************************************************************)
(* hid_parse of bluetooth-shim/src/hid_parser.c: the walk over the items   *)
(* of a report descriptor that makes the shim's profile of a device, with  *)
(* the limits of its tables (128 fields, 16 report ids, 64 usages, 8       *)
(* pushed states, 16-bit offsets) as constants.                            *)
(*                                                                         *)
(* An action is one item; items the parser ignores (physical units, long   *)
(* items, Output and Feature) are OtherMain or nothing.  Usages have their *)
(* HID numbers, because Usage Minimum counts up from one.                  *)
(*                                                                         *)
(* The ghosts declared and the fields' place keep what the HID specification *)
(* says, without the limits: the INPUT bits of each report id so far, and  *)
(* for each field the bit of its report at which it was declared.  Fields  *)
(* are a set of records that carry their index in the profile's array.     *)
(***************************************************************************)
EXTENDS Integers, Sequences, FiniteSets

CONSTANTS MaxFields, MaxIds, MaxUsages, MaxStack,
          OffsetRange,             \* a bit offset is kept modulo this
          Pages, Usages, UsageMins, Sizes, Counts, ReportIds, LogicalMins, LogicalMaxs,
          MaxItems                 \* bound: items of a descriptor

ASSUME LimitsAssumption ==
  /\ {MaxFields, MaxIds, MaxUsages, MaxStack, OffsetRange} \subseteq Nat \ {0}
  /\ MaxItems \in Nat
ASSUME ItemsAssumption ==
  /\ Usages \cup UsageMins \cup Counts \subseteq Nat
  /\ Sizes \subseteq 1..32
  /\ ReportIds \subseteq 1..255
  /\ LogicalMins \cup LogicalMaxs \subseteq Int

GenericDesktop == "generic desktop"
Keyboard == "keyboard"
Button == "button"
Axes == 48..56                     \* X, Y, Z, RX, RY, RZ, SLIDER, DIAL, WHEEL
Hat == 57
GamepadUsages == {4, 5}            \* HID_GD_JOYSTICK, HID_GD_GAMEPAD
NoUsage == -1

VARIABLES
  g,         \* the global item state
  stack,     \* pushed global states
  usages,    \* local usages since the last main item
  umin,      \* the local Usage Minimum, or NoUsage
  idtab,     \* [id, bits] of each report id, in order of appearance
  out,       \* flags of the profile being made
  fields,    \* its fields, each with the ghost place
  saw_gamepad_usage,
  items,     \* items read
  done,
  declared   \* ghost: bits declared for each report id

locals == <<usages, umin>>
vars == <<g, stack, usages, umin, idtab, out, fields, saw_gamepad_usage, items, done,
          declared>>

AllIds == ReportIds \cup {0}

Init ==
  /\ g = [page |-> "none", size |-> 0, count |-> 0, id |-> 0, lmin |-> 0, lmax |-> 0]
  /\ stack = <<>> /\ usages = <<>> /\ umin = NoUsage
  /\ idtab = <<>> /\ fields = {}
  /\ out = [uses_report_id |-> FALSE, is_mouse |-> FALSE, is_gamepad |-> FALSE,
            is_keyboard |-> FALSE, hint |-> 0]
  /\ saw_gamepad_usage = FALSE
  /\ items = 0 /\ done = FALSE
  /\ declared = [i \in AllIds |-> 0]

Item == ~done /\ items < MaxItems /\ items' = items + 1 /\ done' = FALSE

-----------------------------------------------------------------------------
(* Global items.                                                           *)
Global(new) ==
  /\ Item
  /\ g' = new
  /\ UNCHANGED <<stack, usages, umin, idtab, out, fields, saw_gamepad_usage, declared>>

UsagePage(p)   == Global([g EXCEPT !.page = p])
ReportSize(n)  == Global([g EXCEPT !.size = n])
ReportCount(n) == Global([g EXCEPT !.count = n])
LogicalMin(v)  == Global([g EXCEPT !.lmin = v])
LogicalMax(v)  == Global([g EXCEPT !.lmax = v])

ReportId(i) ==
  /\ Item
  /\ g' = [g EXCEPT !.id = i]
  /\ out' = [out EXCEPT !.uses_report_id = TRUE]
  /\ UNCHANGED <<stack, usages, umin, idtab, fields, saw_gamepad_usage, declared>>

Push ==
  /\ Item
  /\ stack' = IF Len(stack) < MaxStack THEN Append(stack, g) ELSE stack
  /\ UNCHANGED <<g, usages, umin, idtab, out, fields, saw_gamepad_usage, declared>>

Pop ==
  /\ Item
  /\ IF stack = <<>> THEN UNCHANGED <<g, stack>>
     ELSE g' = stack[Len(stack)] /\ stack' = SubSeq(stack, 1, Len(stack) - 1)
  /\ UNCHANGED <<usages, umin, idtab, out, fields, saw_gamepad_usage, declared>>

(* Local items.                                                            *)
Usage(u) ==
  /\ Item
  /\ usages' = IF Len(usages) < MaxUsages THEN Append(usages, u) ELSE usages
  /\ UNCHANGED <<g, stack, umin, idtab, out, fields, saw_gamepad_usage, declared>>

UsageMin(u) ==
  /\ Item
  /\ umin' = u
  /\ UNCHANGED <<g, stack, usages, idtab, out, fields, saw_gamepad_usage, declared>>

-----------------------------------------------------------------------------
(* Main items.                                                             *)
ResetLocals == usages' = <<>> /\ umin' = NoUsage

Collection ==
  /\ Item
  /\ saw_gamepad_usage' =
       (\/ saw_gamepad_usage
        \/ /\ usages # <<>> /\ g.page = GenericDesktop
           /\ usages[1] \in GamepadUsages)
  /\ ResetLocals
  /\ UNCHANGED <<g, stack, idtab, out, fields, declared>>

(* End Collection, Output and Feature.                                     *)
OtherMain ==
  /\ Item
  /\ ResetLocals
  /\ UNCHANGED <<g, stack, idtab, out, fields, saw_gamepad_usage, declared>>

Entry(i) == {n \in DOMAIN idtab : idtab[n].id = i}
Tracked(i) == Entry(i) # {}

(* Mutant: one running offset for all reports.                             *)
Base_OneCounter(i) == IF idtab # <<>> THEN idtab[1].bits ELSE 0

(* idbits_take(): where this item starts in its report.                    *)
Base(i) == IF Tracked(i) THEN idtab[CHOOSE n \in Entry(i) : TRUE].bits ELSE 0

Total == (g.size * g.count) % OffsetRange

Taken ==
  IF Tracked(g.id)
  THEN [n \in DOMAIN idtab |->
         IF n \in Entry(g.id) THEN [idtab[n] EXCEPT !.bits = (@ + Total) % OffsetRange]
         ELSE idtab[n]]
  ELSE IF Len(idtab) < MaxIds THEN Append(idtab, [id |-> g.id, bits |-> Total])
  ELSE idtab

(* The usage of the k-th control: the last usage is repeated, and Usage    *)
(* Minimum counts only when no usage is given.                             *)
UsageOf(k) ==
  IF k < Len(usages) THEN usages[k + 1]
  ELSE IF usages # <<>> THEN usages[Len(usages)]
  ELSE IF umin # NoUsage THEN umin + k
  ELSE 0

EvType(u, rel) ==
  IF g.page = GenericDesktop /\ u = Hat THEN "hat"
  ELSE IF g.page = GenericDesktop /\ u \in Axes THEN IF rel THEN "rel" ELSE "abs"
  ELSE IF g.page = Button THEN "key"
  ELSE "none"

(* The controls of an item that become fields while there is room, and how *)
(* many there are before control k.                                        *)
Kept(rel) == {k \in 0..(g.count - 1) : EvType(UsageOf(k), rel) # "none"}
Before(k, rel) == Cardinality({i \in Kept(rel) : i < k})
NewFields(rel) == {k \in Kept(rel) : Cardinality(fields) + Before(k, rel) < MaxFields}

Control(k, rel) ==
  [index |-> Cardinality(fields) + Before(k, rel), report_id |-> g.id,
   bit_offset |-> (Base(g.id) + k * g.size) % OffsetRange, bit_size |-> g.size,
   lmin |-> g.lmin, lmax |-> g.lmax,
   usage |-> UsageOf(k), evtype |-> EvType(UsageOf(k), rel),
   place |-> declared[g.id] + k * g.size]

Input(const, var, rel) ==
  LET ks == IF var /\ ~const THEN NewFields(rel) ELSE {}
      types == {EvType(UsageOf(k), rel) : k \in ks}
  IN  /\ Item
      /\ idtab' = Taken
      /\ fields' = fields \cup {Control(k, rel) : k \in ks}
      /\ out' = [out EXCEPT !.is_mouse = @ \/ "rel" \in types,
                            !.is_gamepad = @ \/ {"abs", "hat"} \cap types # {},
                            !.is_keyboard = @ \/ (~var /\ ~const /\ g.page = Keyboard),
                            !.hint = IF @ = 0 THEN g.id ELSE @]
      /\ declared' = [declared EXCEPT ![g.id] = @ + g.size * g.count]
      /\ ResetLocals
      /\ UNCHANGED <<g, stack, saw_gamepad_usage>>

(* The end of the descriptor, which may have been cut off after any item.  *)
Finish ==
  /\ ~done
  /\ done' = TRUE
  /\ out' = [out EXCEPT !.is_gamepad = @ \/ saw_gamepad_usage]
  /\ UNCHANGED <<g, stack, usages, umin, idtab, fields, saw_gamepad_usage, items, declared>>

Next ==
  \/ \E p \in Pages : UsagePage(p)
  \/ \E n \in Sizes : ReportSize(n)
  \/ \E n \in Counts : ReportCount(n)
  \/ \E v \in LogicalMins : LogicalMin(v)
  \/ \E v \in LogicalMaxs : LogicalMax(v)
  \/ \E i \in ReportIds : ReportId(i)
  \/ Push
  \/ Pop
  \/ \E u \in Usages : Usage(u)
  \/ \E u \in UsageMins : UsageMin(u)
  \/ Collection
  \/ OtherMain
  \/ \E const, var, rel \in BOOLEAN : Input(const, var, rel)
  \/ Finish

Spec == Init /\ [][Next]_vars

-----------------------------------------------------------------------------
(* The profile puts every field where the descriptor declares it, for each *)
(* report id that the table holds and whose report is shorter than the     *)
(* range of offsets: whatever order reports are declared in, with padding, *)
(* pushed states and tables that have overflowed.  A wrong offset is a     *)
(* stick read from the bits of a button.                                   *)
FieldsSitWhereDeclared ==
  \A f \in fields :
    Tracked(f.report_id) /\ declared[f.report_id] < OffsetRange => f.bit_offset = f.place
=============================================================================
