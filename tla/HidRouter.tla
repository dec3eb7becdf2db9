----------------------------- MODULE HidRouter -----------------------------
(***************************************************************************)
(* What the Bluetooth HID shim promises, without its table, its lock or    *)
(* the kernel: every device has one route, a report in flight is bound for *)
(* the route of the device that sent it, and at most Capacity devices are  *)
(* taken over at a time.                                                   *)
(***************************************************************************)
EXTENDS Naturals, FiniteSets

CONSTANTS Devs,         \* the stack's device instances
          Capacity      \* how many of them the shim can take over

Taken  == {"hid", "wii"}
Routes == Taken \cup {"kbd", "none"}

VARIABLES route,        \* route[d]: whose node d's reports are written to
          inflight      \* the route of d's report being handled, or "idle"

vars == <<route, inflight>>

Init == /\ route = [d \in Devs |-> "none"]
        /\ inflight = [d \in Devs |-> "idle"]

(* A device's route changes between its reports only.                      *)
Reroute(d, r) == /\ inflight[d] = "idle"
                 /\ route' = [route EXCEPT ![d] = r]
                 /\ UNCHANGED inflight

(* The shim gives d a node of its own, if there is room.                   *)
TakeOver(d) ==
  /\ Cardinality({e \in Devs \ {d} : route[e] \in Taken}) < Capacity
  /\ \E k \in Taken : Reroute(d, k)

(* The stock library gives an unrouted device its keyboard node.           *)
Delegate(d) == route[d] = "none" /\ Reroute(d, "kbd")

Release(d) == Reroute(d, "none")

ReportArrives(d) == /\ inflight[d] = "idle"
                    /\ inflight' = [inflight EXCEPT ![d] = route[d]]
                    /\ UNCHANGED route

ReportWritten(d) == /\ inflight[d] # "idle"
                    /\ inflight' = [inflight EXCEPT ![d] = "idle"]
                    /\ UNCHANGED route

Next == \E d \in Devs : \/ TakeOver(d) \/ Delegate(d) \/ Release(d)
                        \/ ReportArrives(d) \/ ReportWritten(d)

Spec == Init /\ [][Next]_vars
=============================================================================
