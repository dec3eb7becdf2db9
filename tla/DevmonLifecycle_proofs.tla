----------------------- MODULE DevmonLifecycle_proofs -----------------------
(***************************************************************************)
(* The device monitor, for any number of pids and however often the daemon *)
(* is restarted, the monitor dies and pids are used again: there is never  *)
(* a second one, a running one is named by the pid file, and a panel that  *)
(* left and said so leaves no keepalive.                                   *)
(***************************************************************************)
EXTENDS DevmonLifecycle, SequenceTheorems, FiniteSetTheorems, TLAPS

USE DEF Live, None, Blank

(* The bounds, one by one.                                                 *)
LEMMA Bounds ==
  /\ FreshFor \in Nat /\ FreshFor > 0
  /\ MaxQueue \in Nat /\ MaxLate \in Nat /\ MaxCrashes \in Nat /\ MaxDeaths \in Nat
  /\ 0 \in 0 .. MaxLate /\ 0 \in 0 .. MaxCrashes /\ 0 \in 0 .. MaxDeaths
  /\ None \in 0 .. None /\ Blank \in 0 .. None /\ 0 \in 0 .. None
BY BoundsAssumption

(* The calls, with one added or taken.                                     *)
LEMMA CallAdded ==
  ASSUME TypeOK, NEW c \in {"watch-on", "watch-off"}, Call(c)
  PROVE  /\ calls' \in Seq({"watch-on", "watch-off"}) /\ Len(calls') <= MaxQueue
         /\ calls' # <<>> /\ calls'[Len(calls')] = c
BY Bounds DEF TypeOK, Call

LEMMA CallTaken ==
  ASSUME TypeOK, calls # <<>>, calls' = Tail(calls)
  PROVE  /\ calls' \in Seq({"watch-on", "watch-off"}) /\ Len(calls') <= MaxQueue
         /\ IF calls' = <<>> THEN calls[Len(calls)] = Head(calls)
            ELSE calls'[Len(calls')] = calls[Len(calls)]
<1>1. calls \in Seq({"watch-on", "watch-off"}) /\ Len(calls) <= MaxQueue
  BY DEF TypeOK
<1>2. Len(calls) \in Nat \ {0} /\ Head(calls) = calls[1]
  BY <1>1, EmptySeq
<1>3. /\ Tail(calls) \in Seq({"watch-on", "watch-off"})
      /\ Len(Tail(calls)) = Len(calls) - 1
      /\ \A i \in 1 .. Len(Tail(calls)) : Tail(calls)[i] = calls[i + 1]
  BY <1>1, HeadTailProperties
<1>4. CASE Tail(calls) = <<>>
  <2>1. Len(Tail(calls)) = 0
    BY <1>4, EmptySeq
  <2>. QED
    BY <1>1, <1>2, <1>3, <1>4, <2>1, Bounds
<1>5. CASE Tail(calls) # <<>>
  <2>1. Len(Tail(calls)) \in Nat \ {0}
    BY <1>3, <1>5, EmptySeq
  <2>2. Tail(calls)[Len(Tail(calls))] = calls[Len(calls)]
    BY <1>2, <1>3, <2>1
  <2>. QED
    BY <1>1, <1>2, <1>3, <1>5, <2>2, Bounds
<1>. QED
  BY <1>4, <1>5

-----------------------------------------------------------------------------
(* Types are kept by every step.                                           *)
LEMMA TypeInductive ==
  ASSUME TypeOK, [Next]_vars
  PROVE  TypeOK'
<1>. USE PidsAssumption, Bounds
<1>1. CASE Panel
  <2>1. CASE Activate
    BY <2>1, CallAdded DEF TypeOK, Activate, Refresh, files, daemon, procs, bounds
  <2>2. CASE Deactivate
    BY <2>2, CallAdded DEF TypeOK, Deactivate, Farewell, files, daemon, procs, bounds
  <2>3. CASE PanelDies
    BY <2>3 DEF TypeOK, PanelDies, files, daemon, procs, bounds
  <2>4. CASE Poll
    BY <2>4, CallAdded DEF TypeOK, Poll, Refresh, panel, files, daemon, procs, bounds
  <2>5. CASE Operate
    BY <2>5 DEF TypeOK, Operate, files, daemon, procs, bounds
  <2>6. CASE LateRefresh
    <3>1. late' \in 0 .. MaxLate
      BY <2>6 DEF TypeOK, LateRefresh
    <3>. QED
      BY <2>6, <3>1, CallAdded DEF TypeOK, LateRefresh, Refresh, files, daemon, procs, bounds
  <2>. QED
    BY <1>1, <2>1, <2>2, <2>3, <2>4, <2>5, <2>6 DEF Panel
<1>2. CASE Service \/ Tick
  <2>1. CASE WatchOn
    BY <2>1, CallTaken DEF TypeOK, WatchOn, panel, daemon, procs, bounds
  <2>2. CASE WatchWritten
    BY <2>2 DEF TypeOK, WatchWritten, panel, daemon, procs, bounds
  <2>3. CASE WatchOff
    BY <2>3, CallTaken DEF TypeOK, WatchOff, panel, daemon, procs, bounds
  <2>4. CASE Tick
    BY <2>4 DEF TypeOK, Tick, panel, daemon, procs, bounds
  <2>. QED
    BY <1>2, <2>1, <2>2, <2>3, <2>4 DEF Service
<1>3. CASE Daemon
  <2>1. CASE Boot
    BY <2>1 DEF TypeOK, Boot, panel, bounds
  <2>2. CASE WatchFresh
    BY <2>2 DEF TypeOK, WatchFresh, panel, files, procs, bounds
  <2>3. CASE Expire
    BY <2>3 DEF TypeOK, Expire, panel, procs, bounds
  <2>4. CASE DevmonStart
    BY <2>4 DEF TypeOK, DevmonStart, Forked, panel, files, bounds
  <2>5. CASE Sweep
    BY <2>5 DEF TypeOK, Sweep, AfterSweep, panel, files, procs, bounds
  <2>6. CASE SweepCheck
    BY <2>6 DEF TypeOK, SweepCheck, panel, files, procs, bounds
  <2>9. CASE SweepKill
    BY <2>9 DEF TypeOK, SweepKill, Kill, panel, files, bounds
  <2>7. CASE SweepRemove
    BY <2>7 DEF TypeOK, SweepRemove, AfterSweep, panel, files, bounds
  <2>8. CASE DevmonStop
    BY <2>8 DEF TypeOK, DevmonStop, Kill, panel, files, bounds
  <2>. QED
    BY <1>3, <2>1, <2>2, <2>3, <2>4, <2>5, <2>6, <2>7, <2>8, <2>9 DEF Daemon
<1>4. CASE Crash
  BY <1>4 DEF TypeOK, Crash, panel, files, procs
<1>5. ASSUME NEW p \in Pids, Monitor(p) \/ WriteDevices(p) \/ Dies(p) \/ Other(p)
      PROVE  TypeOK'
  <2>1. CASE OpenPidfile(p)
    BY <2>1 DEF TypeOK, OpenPidfile, panel, files, daemon, bounds
  <2>2. CASE WritePidfile(p)
    BY <2>2 DEF TypeOK, WritePidfile, panel, files, daemon, bounds
  <2>3. CASE Exit(p)
    BY <2>3 DEF TypeOK, Exit, panel, files, daemon, bounds
  <2>4. CASE WriteDevices(p)
    BY <2>4 DEF TypeOK, WriteDevices, panel, files, daemon, bounds
  <2>5. CASE Dies(p)
    BY <2>5 DEF TypeOK, Dies, panel, files, daemon
  <2>6. CASE Other(p)
    BY <2>6 DEF TypeOK, Other, panel, files, daemon, bounds
  <2>. QED
    BY <1>5, <2>1, <2>2, <2>3, <2>4, <2>5, <2>6 DEF Monitor
<1>6. CASE UNCHANGED vars
  BY <1>6 DEF TypeOK, vars, panel, files, daemon, procs, bounds
<1>. QED
  BY <1>1, <1>2, <1>3, <1>4, <1>5, <1>6 DEF Next

LEMMA TypeInit ==
  ASSUME Init
  PROVE  TypeOK
<1>1. calls \in Seq({"watch-on", "watch-off"}) /\ Len(calls) = 0
  BY EmptySeq DEF Init
<1>2. calls \in Seq({"watch-on", "watch-off"}) /\ Len(calls) <= MaxQueue
  BY <1>1, Bounds
<1>3. proc \in [Pids -> Live \cup {"none", "other", "dying"}]
  BY DEF Init
<1>4. /\ late \in 0 .. MaxLate /\ watch \in 0 .. None
      /\ crashes \in 0 .. MaxCrashes /\ deaths \in 0 .. MaxDeaths
  BY Bounds DEF Init
<1>. QED
  BY <1>2, <1>3, <1>4 DEF Init, TypeOK

-----------------------------------------------------------------------------
(* A monitor is always known to the daemon, or found by its sweep, if the  *)
(* daemon does not die while the pid file does not name it.                *)
LEMMA MonitorInductive ==
  ASSUME CrashEarly = FALSE, TypeOK, MonitorInv, [Next]_vars
  PROVE  MonitorInv'
<1>. USE PidsAssumption
<1>1. CASE Panel \/ Service \/ Tick
  <2>1. UNCHANGED <<daemon, procs>>
    BY <1>1 DEF Panel, Service, Activate, Deactivate, PanelDies, Poll, Operate, LateRefresh,
                WatchOn, WatchWritten, WatchOff, Tick
  <2>. QED
    BY <2>1 DEF MonitorInv, daemon, procs
<1>2. CASE Daemon
  <2>1. CASE Boot
    BY <2>1 DEF MonitorInv, Boot
  <2>2. CASE WatchFresh
    BY <2>2 DEF MonitorInv, WatchFresh, procs
  <2>3. CASE Expire
    BY <2>3 DEF MonitorInv, Expire, procs
  <2>4. CASE DevmonStart
    BY <2>4 DEF TypeOK, MonitorInv, DevmonStart, devmon_running, Forked
  <2>5. CASE Sweep
    BY <2>5 DEF TypeOK, MonitorInv, Sweep, AfterSweep, procs
  <2>6. CASE SweepCheck
    BY <2>6 DEF TypeOK, MonitorInv, SweepCheck, Matches, procs
  <2>9. CASE SweepKill
    BY <2>9 DEF TypeOK, MonitorInv, SweepKill, Kill
  <2>7. CASE SweepRemove
    BY <2>7 DEF TypeOK, MonitorInv, SweepRemove, AfterSweep
  <2>8. CASE DevmonStop
    BY <2>8 DEF TypeOK, MonitorInv, DevmonStop, devmon_running, Kill
  <2>. QED
    BY <1>2, <2>1, <2>2, <2>3, <2>4, <2>5, <2>6, <2>7, <2>8, <2>9 DEF Daemon
<1>3. CASE Crash
  BY <1>3 DEF TypeOK, MonitorInv, Crash, procs
<1>4. ASSUME NEW p \in Pids, Monitor(p) \/ WriteDevices(p) \/ Dies(p) \/ Other(p)
      PROVE  MonitorInv'
  <2>1. CASE OpenPidfile(p)
    BY <2>1 DEF TypeOK, MonitorInv, OpenPidfile, daemon
  <2>2. CASE WritePidfile(p)
    BY <2>2 DEF TypeOK, MonitorInv, WritePidfile, daemon
  <2>3. CASE Exit(p) \/ WriteDevices(p) \/ Dies(p) \/ Other(p)
    BY <2>3 DEF TypeOK, MonitorInv, Exit, WriteDevices, Dies, Other, daemon
  <2>. QED
    BY <1>4, <2>1, <2>2, <2>3 DEF Monitor
<1>5. CASE UNCHANGED vars
  BY <1>5 DEF MonitorInv, vars, daemon, procs
<1>. QED
  BY <1>1, <1>2, <1>3, <1>4, <1>5 DEF Next

LEMMA OneAtMost ==
  ASSUME MonitorInv
  PROVE  OneMonitor
<1>. DEFINE monitors == {p \in Pids : proc[p] \in Live}
<1>1. PICK q : monitors \subseteq {q}
  <2>1. CASE booting
    BY <2>1 DEF MonitorInv
  <2>2. CASE ~booting
    BY <2>2 DEF MonitorInv
  <2>. QED
    BY <2>1, <2>2
<1>2. IsFiniteSet({q}) /\ Cardinality({q}) = 1
  BY FS_Singleton
<1>3. Cardinality(monitors) \in Nat /\ Cardinality(monitors) <= 1
  BY <1>1, <1>2, FS_Subset, FS_CardinalityType
<1>. QED
  BY <1>3 DEF OneMonitor

-----------------------------------------------------------------------------
(* After a farewell nothing follows it to the service.                     *)
LEMMA KeepaliveInductive ==
  ASSUME TypeOK, KeepaliveInv, [Next]_vars
  PROVE  KeepaliveInv'
<1>. USE Bounds
<1>1. CASE Panel
  <2>1. CASE Deactivate
    BY <2>1, CallAdded DEF KeepaliveInv, Deactivate, Farewell
  <2>2. CASE Operate
    BY <2>2 DEF KeepaliveInv, Operate, files
  <2>3. CASE Activate \/ PanelDies \/ LateRefresh
    BY <2>3 DEF KeepaliveInv, Activate, PanelDies, LateRefresh
  <2>4. CASE Poll
    BY <2>4 DEF KeepaliveInv, Poll, panel
  <2>. QED
    BY <1>1, <2>1, <2>2, <2>3, <2>4 DEF Panel
<1>2. CASE WatchOn
  BY <1>2, CallTaken DEF KeepaliveInv, WatchOn, panel
<1>3. CASE WatchWritten
  BY <1>3 DEF KeepaliveInv, WatchWritten, panel
<1>4. CASE WatchOff
  BY <1>4, CallTaken DEF KeepaliveInv, WatchOff, panel
<1>5. CASE Tick
  BY <1>5 DEF TypeOK, KeepaliveInv, Tick, panel
<1>6. CASE Daemon
  <2>1. UNCHANGED <<panel, calls, writing>> /\ (watch' = watch \/ watch' = None)
    BY <1>6 DEF Daemon, Boot, WatchFresh, Expire, DevmonStart, Sweep, SweepCheck, SweepKill,
                SweepRemove, DevmonStop, files
  <2>. QED
    BY <2>1 DEF KeepaliveInv, panel
<1>7. CASE Crash \/ \E p \in Pids : Monitor(p) \/ WriteDevices(p) \/ Dies(p) \/ Other(p)
  <2>1. UNCHANGED <<panel, calls, files>>
    BY <1>7 DEF Crash, Monitor, OpenPidfile, WritePidfile, Exit, WriteDevices, Dies, Other
  <2>. QED
    BY <2>1 DEF KeepaliveInv, panel, files
<1>8. CASE UNCHANGED vars
  BY <1>8 DEF KeepaliveInv, vars, panel, files
<1>. QED
  BY <1>1, <1>2, <1>3, <1>4, <1>5, <1>6, <1>7, <1>8 DEF Next, Service

-----------------------------------------------------------------------------
(* The types of the panel, the files, the daemon and the processes.        *)
THEOREM TypeCorrect == Spec => []TypeOK
<1>1. Init => TypeOK
  BY TypeInit
<1>2. TypeOK /\ [Next]_vars => TypeOK'
  BY TypeInductive
<1>. QED
  BY <1>1, <1>2, PTL DEF Spec

(* What the daemon knows of the monitor, by its pid or by the pid file.    *)
LEMMA MonitorCorrect ==
  ASSUME CrashEarly = FALSE
  PROVE  Spec => []MonitorInv
<1>1. Init => MonitorInv
  BY DEF Init, MonitorInv
<1>2. TypeOK /\ MonitorInv /\ [Next]_vars => MonitorInv'
  BY MonitorInductive
<1>. QED
  BY <1>1, <1>2, TypeCorrect, PTL DEF Spec

(* However often the daemon is restarted, a monitor dies and pids are used *)
(* again, there is never a second monitor, if the daemon does not die in   *)
(* the moment between starting one and the pid file naming it.             *)
THEOREM OneMonitorCorrect ==
  ASSUME CrashEarly = FALSE
  PROVE  Spec => []OneMonitor
<1>1. MonitorInv => OneMonitor
  BY OneAtMost
<1>. QED
  BY <1>1, MonitorCorrect, PTL

(* Under the same condition the pid file names the monitor that is past    *)
(* its start whenever the daemon begins a round, whatever sweeps, stale    *)
(* files and deaths came before.                                           *)
THEOREM MonitorIsNamedCorrect ==
  ASSUME CrashEarly = FALSE
  PROVE  Spec => []MonitorIsNamed
<1>1. MonitorInv => MonitorIsNamed
  BY DEF MonitorInv, MonitorIsNamed
<1>. QED
  BY <1>1, MonitorCorrect, PTL

(* A panel that left, said so and asked for nothing since has left no      *)
(* keepalive once the service has done what was asked, whatever the daemon *)
(* removed meanwhile.                                                      *)
THEOREM KeepaliveCorrect == Spec => []KeepaliveGone
<1>1. Init => KeepaliveInv
  BY DEF Init, KeepaliveInv
<1>2. TypeOK /\ KeepaliveInv /\ [Next]_vars => KeepaliveInv'
  BY KeepaliveInductive
<1>3. KeepaliveInv => KeepaliveGone
  BY DEF KeepaliveInv, KeepaliveGone
<1>. QED
  BY <1>1, <1>2, <1>3, TypeCorrect, PTL DEF Spec
=============================================================================
