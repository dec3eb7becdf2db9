---------------------------- MODULE MCHidReports ----------------------------
(* Instances of HidReports for TLC.                                        *)
EXTENDS HidReports

MCPages == {GenericDesktop, Button}
MCMins  == {-8}

(* The descriptors begin as most do, with the five global items usage      *)
(* page, logical minimum and maximum, report size and report count, and    *)
(* some with a report id as the sixth.                                     *)
AfterGlobals ==
  /\ \E i \in {0, 1} :
       /\ g = [page |-> GenericDesktop, size |-> 4, count |-> 2, id |-> i,
               lmin |-> 0, lmax |-> 7]
       /\ out = [uses_report_id |-> i # 0, is_mouse |-> FALSE, is_gamepad |-> FALSE,
                 is_keyboard |-> FALSE, hint |-> 0]
       /\ items = 5 + i
  /\ stack = <<>> /\ usages = <<>> /\ umin = NoUsage
  /\ idtab = <<>> /\ fields = {}
  /\ saw_gamepad_usage = FALSE
  /\ done = FALSE
  /\ declared = [i \in AllIds |-> 0]

MCSpec == AfterGlobals /\ [][Next]_vars
=============================================================================
