-------------------------- MODULE DevmonLifecycle --------------------------
(***************************************************************************)
(* When the device monitor runs.  The panel (UsbSettingsApp.js) keeps a    *)
(* keepalive file fresh while it is in front and asks for its removal when *)
(* it leaves; the service (SendAssistant.js) writes and removes it; the    *)
(* root daemon (usbctl-watchd.sh) runs usbdevmon while it is fresh, and    *)
(* sweeps, by the pid file the monitor writes, one that an earlier daemon  *)
(* left behind.                                                            *)
(*                                                                         *)
(* Time is the age of the keepalive, in steps of which FreshFor make it    *)
(* stale.  External: the focus of the panel, and the kernel's pids, which  *)
(* are given to other processes as well.                                   *)
(***************************************************************************)
EXTENDS Naturals, Sequences, FiniteSets

CONSTANTS Pids,        \* process ids
          NoPid,
          FreshFor,    \* a keepalive this old is stale (6 seconds)
          MaxQueue,    \* bound on the calls on their way to the service
          MaxLate,     \* bound on refreshes left by setTimeout
          MaxCrashes,  \* bound on the deaths of the daemon,
          CrashEarly,  \*   and whether one may hit while a monitor is not named
          MaxDeaths    \* bound on monitors that die by themselves

ASSUME PidsAssumption == NoPid \notin Pids /\ "blank" \notin Pids \cup {NoPid}
ASSUME BoundsAssumption == /\ FreshFor \in Nat \ {0}
                           /\ {MaxQueue, MaxLate, MaxCrashes, MaxDeaths} \subseteq Nat
                           /\ CrashEarly \in BOOLEAN

(* The keepalive file: none, just truncated, or as old as its timestamp.   *)
None  == FreshFor + 2
Blank == FreshFor + 1

(* A process: not there, another program, a monitor up to and after it     *)
(* wrote its pid file ("unnamed" if that file was removed meanwhile), or a *)
(* monitor that was signalled and has not gone yet.                        *)
Live == {"starting", "naming", "unnamed", "monitor"}

VARIABLES
  front,     \* whether the panel is in front
  watching,  \* the panel's flag, and its 1 Hz timer
  left,      \* history: it left, said so, and has asked for nothing since
  late,      \* refreshes to come from setTimeout
  calls,     \* its calls on their way to the service
  writing,   \* whether the service is writing the keepalive
  linked,    \* whether that write goes to the file
  watch,     \* the keepalive file
  pc,        \* where the daemon is
  booting,   \* whether it is before its loop
  DEVMON_PID,\* the monitor it started
  spid,      \* the pid read from the pid file
  proc,      \* the processes
  pidfile,   \* /tmp/usbdevmon.pid: "none", "blank" or a pid
  devices,   \* whether the device list exists
  crashes, deaths

panel  == <<front, watching, left, late>>
files  == <<watch, writing, linked>>
daemon == <<pc, booting, DEVMON_PID, spid>>
procs  == <<proc, pidfile, devices>>
bounds == <<crashes, deaths>>
vars   == <<panel, calls, files, daemon, procs, bounds>>

Init ==
  /\ front = FALSE /\ watching = FALSE /\ left = FALSE /\ late = 0 /\ calls = <<>>
  /\ watch = None /\ writing = FALSE /\ linked = FALSE
  /\ pc = "boot" /\ booting = TRUE /\ DEVMON_PID = NoPid /\ spid = NoPid
  /\ proc = [p \in Pids |-> "none"] /\ pidfile = NoPid /\ devices = FALSE
  /\ crashes = 0 /\ deaths = 0

-----------------------------------------------------------------------------
(* The panel.  A refresh asks the service for a fresh keepalive.           *)
Call(c) == Len(calls) < MaxQueue /\ calls' = Append(calls, c)
Refresh == Call("watch-on")

(* startWatching, on activation; a second activation changes nothing.      *)
Activate ==
  /\ ~front /\ front' = TRUE /\ left' = FALSE
  /\ IF watching THEN UNCHANGED <<watching, calls>> ELSE watching' = TRUE /\ Refresh
  /\ UNCHANGED <<late, files, daemon, procs, bounds>>

(* Mutant: the timer is stopped and the keepalive left to go stale.        *)
Farewell_None == UNCHANGED calls

(* A panel that stops watching says so.                                    *)
Farewell == Call("watch-off")

(* stopWatching, on deactivation or unload.                                *)
Deactivate ==
  /\ front /\ front' = FALSE
  /\ watching' = FALSE /\ left' = TRUE /\ Farewell
  /\ UNCHANGED <<late, files, daemon, procs, bounds>>

(* The panel is killed and says nothing.                                   *)
PanelDies ==
  /\ front /\ front' = FALSE /\ watching' = FALSE /\ late' = 0 /\ left' = FALSE
  /\ UNCHANGED <<calls, files, daemon, procs, bounds>>

(* The timer.                                                              *)
Poll ==
  /\ watching /\ Refresh
  /\ UNCHANGED <<panel, files, daemon, procs, bounds>>

(* togglePower, toggleStorage and resetUsb refresh some seconds later.     *)
Operate ==
  /\ front /\ late < MaxLate /\ late' = late + 1
  /\ UNCHANGED <<front, watching, left, calls, files, daemon, procs, bounds>>

LateRefresh ==
  /\ late > 0 /\ late' = late - 1 /\ left' = FALSE /\ Refresh
  /\ UNCHANGED <<front, watching, files, daemon, procs, bounds>>

Panel == Activate \/ Deactivate \/ PanelDies \/ Poll \/ Operate \/ LateRefresh

-----------------------------------------------------------------------------
(* The service takes the calls in order.  It truncates or creates the      *)
(* keepalive and then writes the time, or removes it.                      *)
WatchOn ==
  /\ ~writing /\ calls # <<>> /\ Head(calls) = "watch-on"
  /\ calls' = Tail(calls)
  /\ watch' = Blank /\ writing' = TRUE /\ linked' = TRUE
  /\ UNCHANGED <<panel, daemon, procs, bounds>>

WatchWritten ==
  /\ writing /\ writing' = FALSE /\ linked' = FALSE
  /\ watch' = IF linked THEN 0 ELSE watch
  /\ UNCHANGED <<panel, calls, daemon, procs, bounds>>

WatchOff ==
  /\ ~writing /\ calls # <<>> /\ Head(calls) = "watch-off"
  /\ calls' = Tail(calls) /\ watch' = None
  /\ UNCHANGED <<panel, writing, linked, daemon, procs, bounds>>

Service == WatchOn \/ WatchWritten \/ WatchOff

(* The keepalive ages.                                                     *)
Tick ==
  /\ watch < FreshFor /\ watch' = watch + 1
  /\ UNCHANGED <<panel, calls, writing, linked, daemon, procs, bounds>>

-----------------------------------------------------------------------------
(* The daemon.  It starts by clearing what an earlier one left.            *)
Boot ==
  /\ pc = "boot" /\ pc' = "sweep"
  /\ watch' = None /\ linked' = FALSE /\ devices' = FALSE
  /\ UNCHANGED <<panel, calls, writing, booting, DEVMON_PID, spid, proc, pidfile, bounds>>

(* Mutant: a keepalive counts while it exists.                             *)
Fresh_Exists == watch < None

Fresh == watch < FreshFor

(* watch_fresh: a keepalive found stale is removed, after it was read.     *)
WatchFresh ==
  /\ pc = "loop"
  /\ pc' = IF Fresh THEN "start" ELSE IF watch = None THEN "sweep" ELSE "expire"
  /\ UNCHANGED <<panel, calls, files, booting, DEVMON_PID, spid, procs, bounds>>

Expire ==
  /\ pc = "expire" /\ pc' = "sweep"
  /\ watch' = None /\ linked' = FALSE
  /\ UNCHANGED <<panel, calls, writing, booting, DEVMON_PID, spid, procs, bounds>>

(* Mutant: a monitor is started whether or not one is running.             *)
devmon_running_No == FALSE

(* kill -0 on the pid remembered, whatever it is now.                      *)
devmon_running == DEVMON_PID # NoPid /\ proc[DEVMON_PID] # "none"

(* Mutant: the exit status is remembered in place of the pid.              *)
Forked_Status(p) == 0

Forked(p) == p

DevmonStart ==
  /\ pc = "start" /\ pc' = "loop"
  /\ IF devmon_running THEN UNCHANGED <<DEVMON_PID, proc>>
     ELSE \E p \in Pids : /\ proc[p] = "none"
                          /\ proc' = [proc EXCEPT ![p] = "starting"]
                          /\ DEVMON_PID' = Forked(p)
  /\ UNCHANGED <<panel, calls, files, booting, spid, pidfile, devices, bounds>>

(* A signal; what it hits goes at its next step.                           *)
Kill(p) == [proc EXCEPT ![p] = IF @ = "other" THEN "none" ELSE IF @ \in Live THEN "dying" ELSE @]

(* Mutant: the sweep is all there is to stopping.                          *)
AfterSweep_Loop == "loop"

(* devmon_sweep: the pid file is read, the process checked and signalled,  *)
(* and the file removed.                                                   *)
AfterSweep == IF booting THEN "loop" ELSE "stop"

Sweep ==
  /\ pc = "sweep" /\ spid' = pidfile
  /\ \/ /\ pidfile = NoPid /\ pc' = AfterSweep /\ booting' = FALSE
     \/ /\ pidfile # NoPid /\ UNCHANGED booting
        /\ pc' = IF pidfile = "blank" THEN "sweepRemove" ELSE "sweepCheck"
  /\ UNCHANGED <<panel, calls, files, DEVMON_PID, procs, bounds>>

(* Whether the command line of the process has "usbdevmon" in it.  That of *)
(* a monitor has; a child that did not exec yet, one on its way out and    *)
(* another program may or may not.                                         *)
Matches(p) == CASE proc[p] \in {"naming", "unnamed", "monitor"} -> {TRUE}
                [] proc[p] = "none" -> {FALSE}
                [] OTHER -> BOOLEAN

SweepCheck ==
  /\ pc = "sweepCheck"
  /\ \E m \in Matches(spid) : pc' = IF m THEN "sweepKill" ELSE "sweepRemove"
  /\ UNCHANGED <<panel, calls, files, booting, DEVMON_PID, spid, procs, bounds>>

(* The signal goes to whatever has the pid by now.                         *)
SweepKill ==
  /\ pc = "sweepKill" /\ pc' = "sweepRemove"
  /\ proc' = Kill(spid)
  /\ UNCHANGED <<panel, calls, files, booting, DEVMON_PID, spid, pidfile, devices, bounds>>

SweepRemove ==
  /\ pc = "sweepRemove" /\ pc' = AfterSweep
  /\ pidfile' = NoPid /\ spid' = NoPid /\ booting' = FALSE
  /\ proc' = [p \in Pids |-> IF proc[p] = "naming" THEN "unnamed" ELSE proc[p]]
  /\ UNCHANGED <<panel, calls, files, DEVMON_PID, devices, bounds>>

(* Mutant: the list is removed only with the monitor that wrote it.        *)
Cleared_Once == devmon_running

(* The device list goes with the monitor, and once more if it came back.   *)
Cleared == DEVMON_PID # NoPid \/ devices

(* devmon_stop, after its sweep.                                           *)
DevmonStop ==
  /\ pc = "stop" /\ pc' = "loop"
  /\ proc' = IF devmon_running THEN Kill(DEVMON_PID) ELSE proc
  /\ devices' = (devices /\ ~Cleared)
  /\ DEVMON_PID' = NoPid
  /\ UNCHANGED <<panel, calls, files, booting, spid, pidfile, bounds>>

Daemon == Boot \/ WatchFresh \/ Expire \/ DevmonStart \/ Sweep \/ SweepCheck \/ SweepKill \/ SweepRemove \/ DevmonStop

(* The daemon dies, or an installation restarts it.  What it forgets is    *)
(* found again by the pid file; a monitor that has not written it yet, or  *)
(* had it removed, is not, and CrashEarly tells whether that is explored.  *)
Crash ==
  /\ crashes < MaxCrashes /\ crashes' = crashes + 1
  /\ CrashEarly \/ \A p \in Pids : proc[p] \in Live => proc[p] = "monitor" /\ pidfile = p
  /\ pc' = "boot" /\ booting' = TRUE /\ DEVMON_PID' = NoPid /\ spid' = NoPid
  /\ UNCHANGED <<panel, calls, files, procs, deaths>>

-----------------------------------------------------------------------------
(* A monitor truncates the pid file, writes its pid, and then the list, as *)
(* long as it lives: a signal may find it at its last write.               *)
OpenPidfile(p) ==
  /\ proc[p] = "starting" /\ proc' = [proc EXCEPT ![p] = "naming"]
  /\ pidfile' = "blank"
  /\ UNCHANGED <<panel, calls, files, daemon, devices, bounds>>

WritePidfile(p) ==
  /\ proc[p] \in {"naming", "unnamed"} /\ proc' = [proc EXCEPT ![p] = "monitor"]
  /\ pidfile' = IF proc[p] = "naming" THEN p ELSE pidfile
  /\ UNCHANGED <<panel, calls, files, daemon, devices, bounds>>

WriteDevices(p) ==
  /\ proc[p] \in {"monitor", "dying"} /\ devices' = TRUE
  /\ UNCHANGED <<panel, calls, files, daemon, proc, pidfile, bounds>>

Exit(p) ==
  /\ proc[p] = "dying" /\ proc' = [proc EXCEPT ![p] = "none"]
  /\ UNCHANGED <<panel, calls, files, daemon, pidfile, devices, bounds>>

Monitor(p) == OpenPidfile(p) \/ WritePidfile(p) \/ Exit(p)

Dies(p) ==
  /\ deaths < MaxDeaths /\ deaths' = deaths + 1
  /\ proc[p] \in Live /\ proc' = [proc EXCEPT ![p] = "none"]
  /\ UNCHANGED <<panel, calls, files, daemon, pidfile, devices, crashes>>

(* Another program comes and goes under a pid that is free.                *)
Other(p) ==
  /\ \/ proc[p] = "none" /\ proc' = [proc EXCEPT ![p] = "other"]
     \/ proc[p] = "other" /\ proc' = [proc EXCEPT ![p] = "none"]
  /\ \E q \in Pids \ {p} : proc[q] = "none"
  /\ UNCHANGED <<panel, calls, files, daemon, pidfile, devices, bounds>>

Next == \/ Panel \/ Service \/ Tick \/ Daemon \/ Crash
        \/ \E p \in Pids : Monitor(p) \/ WriteDevices(p) \/ Dies(p) \/ Other(p)

Spec == Init /\ [][Next]_vars

FairSpec == /\ Spec
            /\ WF_vars(Service) /\ WF_vars(Tick) /\ WF_vars(Daemon) /\ WF_vars(LateRefresh)
            /\ \A p \in Pids : WF_vars(Monitor(p))

-----------------------------------------------------------------------------
TypeOK ==
  /\ {front, watching, left, writing, linked, booting, devices} \subseteq BOOLEAN
  /\ late \in 0 .. MaxLate
  /\ calls \in Seq({"watch-on", "watch-off"}) /\ Len(calls) <= MaxQueue
  /\ watch \in 0 .. None
  /\ pc \in {"boot", "loop", "expire", "start", "sweep", "sweepCheck", "sweepKill", "sweepRemove",
            "stop"}
  /\ DEVMON_PID \in Pids \cup {NoPid} /\ {spid, pidfile} \subseteq Pids \cup {NoPid, "blank"}
  /\ proc \in [Pids -> Live \cup {"none", "other", "dying"}]
  /\ crashes \in 0 .. MaxCrashes /\ deaths \in 0 .. MaxDeaths

(* What keeps the monitor the only one.  A daemon in its loop knows every  *)
(* monitor there is; one that has not swept yet finds the one its          *)
(* predecessor left by the pid file, and leaves its sweep with none.  The  *)
(* pid file is removed only on the way to stopping the monitor it names.   *)
MonitorInv ==
  /\ pc = "boot" => booting
  /\ pc \in {"loop", "expire", "start", "stop"} => ~booting
  /\ pc \in {"sweepCheck", "sweepKill"} => spid \in Pids
  /\ \A p \in Pids : proc[p] \in Live =>
       IF ~booting THEN p = DEVMON_PID
       ELSE /\ proc[p] = "monitor" /\ pidfile = p
            /\ pc \in {"boot", "sweep", "sweepCheck", "sweepKill"}
            /\ pc \in {"sweepCheck", "sweepKill"} => spid = p
  /\ pc \in {"loop", "expire", "start", "sweep"} => \A p \in Pids :
       /\ proc[p] # "unnamed"
       /\ proc[p] = "naming" => pidfile = "blank"
       /\ proc[p] = "monitor" => pidfile = p

(* There is never a second monitor.                                        *)
OneMonitor == Cardinality({p \in Pids : proc[p] \in Live}) <= 1

(* At the head of the daemon's loop a monitor that is past its start is    *)
(* named by the pid file, the one trace by which the next daemon can find  *)
(* it: the sweep of every second and the monitor's two-step write of that  *)
(* file never leave one running without.                                   *)
MonitorIsNamed == pc = "loop" => \A p \in Pids : proc[p] = "monitor" => pidfile = p

(* usbctl-watchd.sh of the sweep: "pids get reused, and a stale file must  *)
(* never let us kill an unrelated process".  False: a program with the     *)
(* name of the monitor on its command line passes the check, as does one   *)
(* that gets the pid after it.                                             *)
SweepSparesOthers == [][pc = "sweepKill" /\ pc' # pc => proc[spid] # "other"]_vars

(* A panel that has left for good leaves no monitor behind, even if the    *)
(* panel could not say that it left, or the daemon was restarted while the *)
(* pid file named the monitor.                                             *)
MonitorStops == (<>[]~front) => <>[](\A p \in Pids : proc[p] \notin Live)

(* Nor does it leave a device list.                                        *)
ListCleared == (<>[]~front) => <>[]~devices

(* A panel that left, said so and asked for nothing since has left no      *)
(* keepalive once it is served: the monitor does not wait for it to go     *)
(* stale, however the calls and the daemon's removals interleave.          *)
KeepaliveGone == left /\ calls = <<>> /\ ~writing => watch = None

(* What makes it so: after a farewell nothing follows it to the service.   *)
KeepaliveInv ==
  left => /\ ~watching
          /\ \/ calls # <<>> /\ calls[Len(calls)] = "watch-off"
             \/ calls = <<>> /\ watch = None /\ ~writing

(* UsbSettingsApp.js: "The keepalive is therefore refreshed ONLY while     *)
(* this panel is actually in front".                                       *)
RefreshedInFront ==
  [][Len(calls') > Len(calls) /\ calls'[Len(calls')] = "watch-on" => front']_vars
=============================================================================
