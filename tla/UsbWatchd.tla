----------------------------- MODULE UsbWatchd -----------------------------
(***************************************************************************)
(* usbctl-watchd.sh, the root daemon of the USB settings panel, with the   *)
(* service that sends it commands and the port it drives.                  *)
(*                                                                         *)
(* The service (SendAssistant.js) writes one word to the control file; the *)
(* daemon's loop reads and removes it, performs it, arms the port once,    *)
(* configures high-power devices, and writes its status when it changed.   *)
(* The two share nothing but files, and upstart restarts the daemon.  The  *)
(* loop's monitor step is the module DevmonLifecycle.                      *)
(*                                                                         *)
(* External, from how the script uses them: the OTG controller, the cable, *)
(* the drive and the programs that use it.  A port that was never armed    *)
(* hangs on an OTG cable until a reboot, so that cable is plugged into an  *)
(* armed one.                                                              *)
(***************************************************************************)
EXTENDS Naturals

CONSTANTS Cmds,       \* the commands the panel sends
          Drives,     \* names a drive may get, /dev/sda1 ...
          MaxSends, MaxEvents, MaxCrashes, MaxFails  \* bounds

Known == {"otg-host", "otg-peripheral", "power-on", "power-off",
          "mount", "unmount", "reset", "refresh"}

ASSUME CmdsAssumption   == Cmds \subseteq Known
ASSUME DrivesAssumption == Drives \cap {"", "init", "pad"} = {}
ASSUME BoundsAssumption == {MaxSends, MaxEvents, MaxCrashes, MaxFails} \subseteq Nat

(* The control file, as the word in it and which command that was.         *)
Command == [id : Nat, name : Known \cup {"", "absent"}]
NoFile  == [id |-> 0, name |-> "absent"]
Empty   == [id |-> 0, name |-> ""]

(* F_otg, F_power and F_armed, in memory and in the state file.            *)
Flags   == [otg : {"", "host", "peripheral"}, power : {"on", "off"}, armed : {"", "yes"}]
NoFlags == [otg |-> "", power |-> "off", armed |-> ""]

Status  == [otg : {"host", "peripheral"}, power : {"on", "off"},
            dev : Drives \cup {""}, mounted : BOOLEAN]
NoStatus == [otg |-> "", power |-> "", dev |-> "", mounted |-> FALSE]

VARIABLES
  control,   \* the control file
  writing,   \* the command the service is writing, or NoFile
  linked,    \* whether that write still goes to the control file
  sent,      \* commands sent so far
  acked,     \* the last one reported as written
  pc,        \* where the daemon is in its loop
  cmd,       \* the command it read
  flags,     \* F_otg, F_power, F_armed
  seen,      \* S_dev_seen: the drive at the last look at the mount table
  mounted,   \* S_mounted: what it saw there
  last,      \* LAST_STATUS
  disk,      \* the state file
  status,    \* the status file
  mode,      \* of the controller: "host" or "peripheral"
  hwarmed,   \* whether it follows the cable
  cable,     \* "none", "pc" or "otg"
  device,    \* on the OTG cable: "" or a pad that needs high power or a drive
  conf,      \* whether the pad is configured
  table,     \* the mount at MNT: "none", "live", or "gone" with its drive
  using,     \* whether a program has files of the drive open
  ran,       \* history: the last command performed
  asked,     \* history: the power mode last asked for
  kept,      \* history: whether that was saved
  events, crashes, fails

svcvars  == <<writing, linked, sent, acked>>
portvars == <<mode, hwarmed, conf, table, using>>
plugged  == <<cable, device>>
hwvars   == <<portvars, plugged>>
ramvars  == <<flags, seen, mounted, last>>
history  == <<ran, asked, kept>>
bounds   == <<events, crashes, fails>>
vars     == <<control, svcvars, pc, cmd, ramvars, disk, status, hwvars, history, bounds>>

Init ==
  /\ control = NoFile /\ writing = NoFile /\ linked = FALSE
  /\ sent = 0 /\ acked = 0
  /\ pc = "start" /\ cmd = NoFile
  /\ flags = NoFlags /\ seen = "init" /\ mounted = FALSE /\ last = NoStatus
  /\ disk = NoFlags /\ status = NoStatus
  /\ mode = "peripheral" /\ hwarmed = FALSE /\ cable \in {"none", "pc"}
  /\ device = "" /\ conf = FALSE /\ table = "none" /\ using = FALSE
  /\ ran = 0 /\ asked = "off" /\ kept = TRUE
  /\ events = 0 /\ crashes = 0 /\ fails = 0

-----------------------------------------------------------------------------
(* What may go wrong, at most MaxFails times.                              *)
Outcomes == IF fails < MaxFails THEN BOOLEAN ELSE {TRUE}
Count(ok) == fails' = IF ok THEN fails ELSE fails + 1

(* What the probes see.                                                    *)
Drive == IF mode = "host" /\ device \in Drives THEN device ELSE ""
Mounted == table # "none"
Hungry == mode = "host" /\ device = "pad" /\ ~conf

(* The bus goes down, under whatever was on it.                            *)
Detach == /\ mode' = "peripheral"
          /\ conf' = FALSE /\ using' = FALSE
          /\ table' = IF Mounted THEN "gone" ELSE "none"

(* A write to the controller's mode knob.                                  *)
OtgWrite(m, ok) ==
  \/ ~ok /\ UNCHANGED portvars
  \/ /\ ok /\ m = "host"
     /\ mode' = "host" /\ hwarmed' = TRUE
     /\ UNCHANGED <<conf, table, using>>
  \/ ok /\ m = "peripheral" /\ Detach /\ UNCHANGED hwarmed

(* Mutant: the state is kept in memory only.                               *)
StateSave_Never(f, ok) == flags' = f /\ disk' = disk

(* The flags are set and state_save replaces the state file, if it can.    *)
StateSave(f, ok) == flags' = f /\ disk' = IF ok THEN f ELSE disk

PowerApply == conf' = (conf \/ Hungry)

Goto(p) == pc' = p

-----------------------------------------------------------------------------
(* The service: writeFileSync truncates or creates the file, then writes.  *)
Send ==
  /\ writing = NoFile /\ sent < MaxSends
  /\ \E c \in Cmds : writing' = [id |-> sent + 1, name |-> c]
  /\ sent' = sent + 1
  /\ control' = Empty /\ linked' = TRUE
  /\ UNCHANGED <<acked, pc, cmd, ramvars, disk, status, hwvars, history, bounds>>

(* A write to a file that was removed meanwhile succeeds all the same.     *)
Written ==
  /\ writing # NoFile
  /\ \E ok \in Outcomes :
       /\ control' = IF linked /\ ok THEN writing ELSE control
       /\ acked' = IF ok THEN writing.id ELSE acked
       /\ Count(ok)
  /\ writing' = NoFile /\ linked' = FALSE
  /\ UNCHANGED <<sent, pc, cmd, ramvars, disk, status, hwvars, history, events, crashes>>

Service == Send \/ Written

-----------------------------------------------------------------------------
(* The daemon.  Its start reads the state file.                            *)
Start ==
  /\ pc = "start" /\ Goto("status0")
  /\ flags' = disk
  /\ UNCHANGED <<control, svcvars, cmd, seen, mounted, last, disk, status, hwvars, history, bounds>>

(* write_status: the status is written if it differs from the last one.    *)
After == [status0 |-> "loop", resetStatus |-> "resetHost", status1 |-> "arm", status2 |-> "loop"]

(* storage_refresh looks at the mount table when the drive changed.        *)
Rescan == seen # Drive

Current == [otg |-> mode, power |-> flags.power, dev |-> Drive,
            mounted |-> IF Rescan THEN Mounted ELSE mounted]

(* Mutant: a change of the power mode or of the mount is not noticed.      *)
Changed_Port == last.otg # Current.otg \/ last.dev # Current.dev

Changed == last # Current

WriteStatus ==
  /\ pc \in DOMAIN After /\ Goto(After[pc])
  /\ seen' = Drive /\ mounted' = Current.mounted
  /\ last' = Current
  /\ \E sv, st \in Outcomes :
       /\ IF flags.otg = mode THEN sv /\ UNCHANGED <<flags, disk>>
          ELSE StateSave([flags EXCEPT !.otg = mode], sv)
       /\ IF Changed THEN status' = IF st THEN Current ELSE status
          ELSE st /\ UNCHANGED status
       /\ Count(sv /\ st)
  /\ UNCHANGED <<control, svcvars, cmd, hwvars, history, events, crashes>>

(* The control file is tested and read, and only then removed.             *)
Read ==
  /\ pc = "loop"
  /\ cmd' = control
  /\ Goto(IF control = NoFile THEN "arm" ELSE "remove")
  /\ UNCHANGED <<control, svcvars, ramvars, disk, status, hwvars, history, bounds>>

(* Mutant: the command is removed when the next one is written over it.    *)
Removed_Later == control

Removed == NoFile

Remove ==
  /\ pc = "remove" /\ Goto("run")
  /\ control' = Removed /\ linked' = FALSE
  /\ UNCHANGED <<writing, sent, acked, cmd, ramvars, disk, status, hwvars, history, bounds>>

(* An empty file is taken for "refresh".                                   *)
Performed == ran' = IF cmd.id = 0 THEN ran ELSE cmd.id

OtgWord   == [host |-> "otg-host", peripheral |-> "otg-peripheral"]
PowerWord == [on |-> "power-on", off |-> "power-off"]

RunOtg(m) ==
  /\ pc = "run" /\ Goto("status1") /\ cmd.name = OtgWord[m]
  /\ \E ok, sv \in Outcomes :
       /\ OtgWrite(m, ok)
       /\ IF ok THEN StateSave([flags EXCEPT !.otg = m], sv)
                ELSE sv /\ UNCHANGED <<flags, disk>>
       /\ Count(ok /\ sv)
  /\ Performed
  /\ UNCHANGED <<control, svcvars, cmd, seen, mounted, last, status, plugged, asked, kept, events, crashes>>

RunPower(p) ==
  /\ pc = "run" /\ Goto("status1") /\ cmd.name = PowerWord[p]
  /\ \E sv \in Outcomes :
       StateSave([flags EXCEPT !.power = p], sv) /\ kept' = sv /\ Count(sv)
  /\ asked' = p
  /\ IF p = "on" THEN PowerApply ELSE UNCHANGED conf
  /\ Performed
  /\ UNCHANGED <<control, svcvars, cmd, seen, mounted, last, status, mode, hwarmed, table, using,
                 plugged, events, crashes>>


(* Mutant: what a mount or an unmount changed is seen by the next probe.   *)
Resync_Later(t) == mounted

(* The mount table is scanned again after the daemon changed it.           *)
Resync(t) == t # "none"

(* storage_mount: nothing without a drive or with one mounted; the mount   *)
(* itself may fail, on a drive that holds no filesystem it knows.          *)
RunMount ==
  /\ pc = "run" /\ Goto("status1") /\ cmd.name = "mount"
  /\ IF Drive # "" /\ ~Mounted THEN table' \in {"none", "live"} ELSE UNCHANGED table
  /\ mounted' = IF Drive # "" THEN Resync(table') ELSE mounted
  /\ Performed
  /\ UNCHANGED <<control, svcvars, cmd, flags, seen, last, disk, status, mode, hwarmed, conf, using,
                 plugged, asked, kept, bounds>>

(* storage_unmount: a busy mount is detached, and stays in use.            *)
RunUnmount ==
  /\ pc = "run" /\ Goto("status1") /\ cmd.name = "unmount"
  /\ table' = "none" /\ mounted' = Resync(table')
  /\ Performed
  /\ UNCHANGED <<control, svcvars, cmd, flags, seen, last, disk, status, mode, hwarmed, conf, using,
                 plugged, asked, kept, bounds>>

(* reset_usb is refused while the mount table has MNT.                     *)
ResetRefused == Mounted

RunReset ==
  /\ pc = "run" /\ cmd.name = "reset"
  /\ mounted' = Mounted
  /\ \/ /\ ResetRefused /\ Goto("status1")
        /\ UNCHANGED <<flags, disk, portvars, fails>>
     \/ /\ ~ResetRefused /\ Goto("resetStatus")
        /\ \E ok, sv \in Outcomes :
             /\ OtgWrite("peripheral", ok)
             /\ StateSave([flags EXCEPT !.otg = "peripheral"], sv)
             /\ Count(ok /\ sv)
  /\ Performed
  /\ UNCHANGED <<control, svcvars, cmd, seen, last, status, plugged, asked, kept, events, crashes>>

(* Mutant: the port is left where the reset put it.                        *)
ResetEnds_Down == "peripheral"

ResetEnds == "host"

(* Three seconds later, with a status written in between, the port is put  *)
(* back, and a second after that the pad on it is configured.              *)
ResetHost ==
  /\ pc = "resetHost" /\ Goto("resetApply")
  /\ \E ok, sv \in Outcomes :
       /\ OtgWrite(ResetEnds, ok)
       /\ StateSave([flags EXCEPT !.otg = ResetEnds], sv)
       /\ Count(ok /\ sv)
  /\ UNCHANGED <<control, svcvars, cmd, seen, mounted, last, status, plugged, history, events, crashes>>

RunNothing ==
  /\ pc = "run" /\ Goto("status1") /\ cmd.name \in {"", "refresh"}
  /\ Performed
  /\ UNCHANGED <<control, svcvars, cmd, ramvars, disk, status, hwvars, asked, kept, bounds>>

(* Mutant: the port counts as armed whatever became of the write.          *)
ArmedBy_Try(ok) == TRUE

ArmedBy(ok) == ok

(* arm_otg_once, in two steps: the port must be idle, and then host is     *)
(* written unless it is host already.                                      *)
Arm ==
  /\ pc = "arm"
  /\ Goto(IF flags.armed = "yes" \/ cable = "pc" THEN "apply" ELSE "armWrite")
  /\ UNCHANGED <<control, svcvars, cmd, ramvars, disk, status, hwvars, history, bounds>>

ArmWrite ==
  /\ pc = "armWrite" /\ Goto("apply")
  /\ \E ok, sv \in Outcomes :
       /\ IF mode = "host" THEN ok /\ UNCHANGED portvars ELSE OtgWrite("host", ok)
       /\ IF ArmedBy(ok) THEN StateSave([flags EXCEPT !.armed = "yes"], sv)
                         ELSE sv /\ UNCHANGED <<flags, disk>>
       /\ Count(ok /\ sv)
  /\ UNCHANGED <<control, svcvars, cmd, seen, mounted, last, status, plugged, history, events, crashes>>

(* Mutant: the mode is applied when it is switched on, and not again.      *)
Enforced_Once == FALSE

(* The high-power mode is applied again on every round.                    *)
Enforced == flags.power = "on"

(* The apply step of the loop, and the one that ends a reset.              *)
Apply ==
  /\ pc \in {"apply", "resetApply"}
  /\ Goto(IF pc = "apply" THEN "status2" ELSE "status1")
  /\ IF Enforced THEN PowerApply ELSE UNCHANGED conf
  /\ UNCHANGED <<control, svcvars, cmd, ramvars, disk, status, mode, hwarmed, table, using,
                 plugged, history, bounds>>

Run == \/ \E m \in {"host", "peripheral"} : RunOtg(m)
       \/ \E p \in {"on", "off"} : RunPower(p)
       \/ RunMount \/ RunUnmount \/ RunReset \/ RunNothing

Daemon == Start \/ WriteStatus \/ Read \/ Remove \/ Run \/ ResetHost \/ Arm \/ ArmWrite \/ Apply

(* The daemon is killed, or dies, anywhere; upstart starts it again.       *)
Crash ==
  /\ crashes < MaxCrashes /\ crashes' = crashes + 1
  /\ Goto("start") /\ cmd' = NoFile
  /\ flags' = NoFlags /\ seen' = "init" /\ mounted' = FALSE /\ last' = NoStatus
  /\ UNCHANGED <<control, svcvars, disk, status, hwvars, history, events, fails>>

-----------------------------------------------------------------------------
(* The cable and the programs.                                             *)
Event == events < MaxEvents /\ events' = events + 1

PlugPc ==
  /\ Event /\ cable = "none" /\ cable' = "pc"
  /\ Detach
  /\ UNCHANGED <<control, svcvars, pc, cmd, ramvars, disk, status, hwarmed, device, history, crashes, fails>>

PlugOtg(d) ==
  /\ Event /\ cable = "none" /\ hwarmed
  /\ cable' = "otg" /\ device' = d /\ mode' = "host" /\ conf' = FALSE
  /\ UNCHANGED <<control, svcvars, pc, cmd, ramvars, disk, status, hwarmed, table, using, history, crashes, fails>>

Unplug ==
  /\ Event /\ cable # "none"
  /\ cable' = "none" /\ device' = ""
  /\ Detach
  /\ UNCHANGED <<control, svcvars, pc, cmd, ramvars, disk, status, hwarmed, history, crashes, fails>>

OpenFiles ==
  /\ Event /\ table = "live" /\ ~using /\ using' = TRUE
  /\ UNCHANGED <<control, svcvars, pc, cmd, ramvars, disk, status, mode, hwarmed, conf, table, plugged,
                 history, crashes, fails>>

CloseFiles ==
  /\ using /\ using' = FALSE
  /\ UNCHANGED <<control, svcvars, pc, cmd, ramvars, disk, status, mode, hwarmed, conf, table, plugged,
                 history, bounds>>

Outside == PlugPc \/ Unplug \/ OpenFiles \/ CloseFiles \/ \E d \in Drives \cup {"pad"} : PlugOtg(d)

Next == Service \/ Daemon \/ Crash \/ Outside

Spec == Init /\ [][Next]_vars

(* The service finishes what it writes, and the daemon's loop goes on.     *)
FairSpec == Spec /\ WF_vars(Written) /\ WF_vars(Daemon)

-----------------------------------------------------------------------------
LoopTypes ==
  /\ control \in Command /\ writing \in Command /\ cmd \in Command
  /\ linked \in BOOLEAN
  /\ sent \in Nat /\ acked \in Nat /\ ran \in Nat
  /\ pc \in {"start", "loop", "remove", "run", "resetHost", "resetApply", "arm", "armWrite", "apply"}
            \cup DOMAIN After

FlagTypes ==
  /\ flags \in Flags /\ disk \in Flags
  /\ seen \in Drives \cup {"", "init"} /\ mounted \in BOOLEAN
  /\ last \in Status \cup {NoStatus} /\ status \in Status \cup {NoStatus}
  /\ asked \in {"on", "off"} /\ kept \in BOOLEAN

PortTypes ==
  /\ mode \in {"host", "peripheral"} /\ hwarmed \in BOOLEAN
  /\ cable \in {"none", "pc", "otg"} /\ device \in Drives \cup {"", "pad"}
  /\ conf \in BOOLEAN /\ table \in {"none", "live", "gone"} /\ using \in BOOLEAN

TypeOK == /\ LoopTypes /\ FlagTypes /\ PortTypes
          /\ events \in Nat /\ crashes \in Nat /\ fails \in Nat

(* "control: ... consumed once": a command is performed at most once and   *)
(* never after a later one, although the daemon may die between reading    *)
(* and removing it and the service may write at any moment.                *)
NotRunTwice == pc = "run" /\ cmd.id # 0 => cmd.id > ran

(* The high-power mode is a preference that lasts: once it was saved, each *)
(* round goes by what was last asked for, restarts and other saves of the  *)
(* state file notwithstanding.                                             *)
PowerKept == pc = "loop" /\ kept => flags.power = asked

(* The port is armed if the daemon, or its state file, believes it is;     *)
(* otherwise it would never be armed, and hang on an OTG cable.            *)
ArmedMeansArmed == "yes" \in {flags.armed, disk.armed} => hwarmed

(* The inductive invariants of the three.  Commands pass through the file  *)
(* in the order of their numbers, and one being written is the newest.     *)
MailInv ==
  /\ ran <= sent /\ control.id <= sent /\ cmd.id <= sent
  /\ writing.id # 0 => /\ writing.id = sent /\ control.id = 0
                       /\ ran < writing.id
                       /\ pc \in {"remove", "run"} => cmd.id < writing.id
  /\ control.id # 0 => /\ ran < control.id
                       /\ pc = "remove" => cmd.id <= control.id
                       /\ pc = "run" => cmd.id < control.id
  /\ pc \in {"remove", "run"} /\ cmd.id # 0 => ran < cmd.id
  /\ writing # NoFile => writing.id # 0

PowerInv == kept => /\ disk.power = asked
                    /\ pc # "start" => flags.power = asked

ArmedInv == ArmedMeansArmed /\ (mode = "host" => hwarmed)

(* What the daemon reports as mounted at the head of its loop, where it    *)
(* is cached, is what the mount table says.                                *)
MountCacheRight == pc = "loop" => mounted = Mounted

MountInv == IF pc \in {"start", "status0"} THEN seen = "init" ELSE mounted = Mounted

(* The status file ends up right, once nothing changes any more, if no     *)
(* write failed: LAST_STATUS is set whether or not the status was written. *)
StatusSettles ==
  [](fails = 0) => <>[](status = [otg |-> mode, power |-> flags.power, dev |-> Drive,
                                  mounted |-> Mounted])

(* A pad that needs high power is configured while that mode is on,        *)
(* whenever it is plugged in.                                              *)
HungryServed == (Hungry /\ asked = "on" /\ kept) ~> ~(Hungry /\ asked = "on" /\ kept)

(* After a reset the port follows the cable again, however the daemon's    *)
(* commands and the cable are ordered, unless peripheral mode is asked for *)
(* (which no button of the panel does) or a write of the mode fails.  A    *)
(* daemon that dies in the three seconds a reset takes leaves the port     *)
(* down, and is excepted.                                                  *)
PortFollowsCable ==
  [](fails = 0 /\ cmd.name # "otg-peripheral")
    => (cable = "otg" ~> (mode = "host" \/ cable # "otg" \/ crashes > 0))

(* A command the service reports as written is performed, unless a later   *)
(* one took its place: "this daemon performs them".                        *)
CommandsPerformed == <>[](ran >= acked)

(* usbctl-watchd.sh of the reset: "REFUSED while storage is mounted (the   *)
(* cycle would yank the drive mid-use)".                                   *)
ResetSparesDrive == [][pc' = "resetStatus" /\ pc # pc' => ~using]_vars
=============================================================================
