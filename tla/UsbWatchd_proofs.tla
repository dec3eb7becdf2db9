-------------------------- MODULE UsbWatchd_proofs --------------------------
(***************************************************************************)
(* The USB daemon, for any commands, drives and numbers of failures: no    *)
(* command is performed twice, the power mode outlives the daemon, an      *)
(* armed port is armed, and the cached mount state is right.               *)
(***************************************************************************)
EXTENDS UsbWatchd, TLAPS

(* The four places a status is written from, and where each goes on.       *)
LEMMA AfterSteps ==
  /\ DOMAIN After = {"status0", "resetStatus", "status1", "status2"}
  /\ After["status0"] = "loop" /\ After["status1"] = "arm"
  /\ After["status2"] = "loop" /\ After["resetStatus"] = "resetHost"
BY DEF After

LEMMA AfterNext ==
  ASSUME NEW p \in DOMAIN After
  PROVE  After[p] \in {"loop", "resetHost", "arm"}
BY AfterSteps

LEMMA FilesTyped == NoFlags \in Flags /\ NoFile \in Command /\ Empty \in Command
BY DEF NoFlags, Flags, NoFile, Empty, Command

LEMMA Blank == NoFlags.power = "off" /\ NoFlags.armed = "" /\ NoFile.id = 0
BY DEF NoFlags, NoFile

(* Setting one flag keeps the flags well formed, and so does a save.       *)
LEMMA SaveTypes ==
  ASSUME flags \in Flags, disk \in Flags, NEW f \in Flags, NEW ok, StateSave(f, ok)
  PROVE  flags' \in Flags /\ disk' \in Flags
BY DEF StateSave

LEMMA FlagSet ==
  ASSUME flags \in Flags
  PROVE  /\ \A m \in {"host", "peripheral"} : [flags EXCEPT !.otg = m] \in Flags
         /\ \A p \in {"on", "off"} : [flags EXCEPT !.power = p] \in Flags
         /\ [flags EXCEPT !.armed = "yes"] \in Flags
BY DEF Flags

(* What is written to the mode knob leaves the port in a known state.      *)
LEMMA OtgTypes ==
  ASSUME PortTypes, NEW m \in {"host", "peripheral"}, NEW ok,
         OtgWrite(m, ok), UNCHANGED plugged
  PROVE  PortTypes'
BY DEF PortTypes, OtgWrite, Detach, portvars, plugged

(* What the daemon reports is a status.                                    *)
LEMMA CurrentTypes ==
  ASSUME FlagTypes, PortTypes
  PROVE  Current \in Status /\ Drive \in Drives \cup {""}
BY DEF FlagTypes, PortTypes, Current, Status, Drive, Flags, Mounted

(* The files, the loop and the numbers of the commands.                    *)
LEMMA LoopTyped ==
  ASSUME LoopTypes, [Next]_vars
  PROVE  LoopTypes'
<1>. USE FilesTyped DEF LoopTypes, Goto, svcvars, history
<1>1. ASSUME Send PROVE LoopTypes'
  <2>1. PICK c \in Cmds : writing' = [id |-> sent + 1, name |-> c]
    BY <1>1 DEF Send
  <2>2. c \in Known /\ sent + 1 \in Nat
    BY CmdsAssumption
  <2>3. writing' \in Command
    BY <2>1, <2>2 DEF Command
  <2>. QED
    BY <1>1, <2>3 DEF Send
<1>2. ASSUME Written PROVE LoopTypes'
  BY <1>2 DEF Written, Command
<1>3. ASSUME Start PROVE LoopTypes'
  BY <1>3, AfterSteps DEF Start
<1>4. ASSUME WriteStatus PROVE LoopTypes'
  BY <1>4, AfterNext DEF WriteStatus
<1>5. ASSUME Read PROVE LoopTypes'
  BY <1>5 DEF Read
<1>6. ASSUME Remove PROVE LoopTypes'
  BY <1>6 DEF Remove, Removed
<1>7. ASSUME Run PROVE LoopTypes'
  <2>1. /\ UNCHANGED <<control, svcvars, cmd>> /\ Performed
        /\ pc' \in {"status1", "resetStatus"}
    BY <1>7 DEF Run, RunOtg, RunPower, RunMount, RunUnmount, RunReset, RunNothing
  <2>. QED
    BY <2>1, AfterSteps DEF Performed, Command
<1>8. ASSUME ResetHost \/ Arm \/ ArmWrite \/ Apply PROVE LoopTypes'
  BY <1>8, AfterSteps DEF ResetHost, Arm, ArmWrite, Apply
<1>9. ASSUME Crash PROVE LoopTypes'
  BY <1>9 DEF Crash
<1>10. ASSUME Outside PROVE LoopTypes'
  BY <1>10 DEF Outside, PlugPc, PlugOtg, Unplug, OpenFiles, CloseFiles
<1>11. ASSUME UNCHANGED vars PROVE LoopTypes'
  BY <1>11 DEF vars
<1>. QED
  BY <1>1, <1>2, <1>3, <1>4, <1>5, <1>6, <1>7, <1>8, <1>9, <1>10, <1>11 DEF Next, Service, Daemon

(* The flags and the files they are kept in.                               *)
LEMMA FlagTyped ==
  ASSUME LoopTypes, FlagTypes, PortTypes, [Next]_vars
  PROVE  FlagTypes'
<1>. USE FilesTyped DEF FlagTypes, ramvars, history
<1>1. ASSUME Service \/ Outside \/ Read \/ Remove \/ Arm \/ Apply PROVE FlagTypes'
  BY <1>1 DEF Service, Send, Written, Outside, PlugPc, PlugOtg, Unplug, OpenFiles, CloseFiles,
              Read, Remove, Arm, Apply
<1>2. ASSUME Start PROVE FlagTypes'
  BY <1>2 DEF Start
<1>3. ASSUME WriteStatus PROVE FlagTypes'
  <2>1. PICK sv \in Outcomes, st \in Outcomes :
          /\ IF flags.otg = mode THEN sv /\ UNCHANGED <<flags, disk>>
             ELSE StateSave([flags EXCEPT !.otg = mode], sv)
          /\ IF Changed THEN status' = IF st THEN Current ELSE status
             ELSE st /\ UNCHANGED status
    BY <1>3 DEF WriteStatus
  <2>2. flags' \in Flags /\ disk' \in Flags
    BY <2>1, FlagSet, SaveTypes DEF PortTypes
  <2>3. /\ status' \in Status \cup {NoStatus} /\ last' \in Status \cup {NoStatus}
        /\ seen' \in Drives \cup {"", "init"} /\ mounted' \in BOOLEAN
    BY <1>3, <2>1, CurrentTypes DEF WriteStatus, Status
  <2>. QED
    BY <1>3, <2>2, <2>3 DEF WriteStatus
<1>4. ASSUME NEW m \in {"host", "peripheral"}, RunOtg(m) PROVE FlagTypes'
  <2>1. flags' \in Flags /\ disk' \in Flags
    BY <1>4, FlagSet, SaveTypes DEF RunOtg
  <2>. QED
    BY <1>4, <2>1 DEF RunOtg
<1>5. ASSUME NEW p \in {"on", "off"}, RunPower(p) PROVE FlagTypes'
  <2>1. flags' \in Flags /\ disk' \in Flags
    BY <1>5, FlagSet, SaveTypes DEF RunPower
  <2>2. kept' \in BOOLEAN
    BY <1>5 DEF RunPower, Outcomes
  <2>. QED
    BY <1>5, <2>1, <2>2 DEF RunPower
<1>6. ASSUME RunMount \/ RunUnmount \/ RunNothing PROVE FlagTypes'
  BY <1>6 DEF RunMount, RunUnmount, RunNothing, Resync
<1>7. ASSUME RunReset PROVE FlagTypes'
  <2>1. flags' \in Flags /\ disk' \in Flags
    BY <1>7, FlagSet, SaveTypes DEF RunReset
  <2>. QED
    BY <1>7, <2>1 DEF RunReset, Mounted
<1>8. ASSUME ResetHost \/ ArmWrite PROVE FlagTypes'
  <2>1. flags' \in Flags /\ disk' \in Flags
    BY <1>8, FlagSet, SaveTypes DEF ResetHost, ResetEnds, ArmWrite
  <2>. QED
    BY <1>8, <2>1 DEF ResetHost, ArmWrite
<1>9. ASSUME Crash PROVE FlagTypes'
  BY <1>9 DEF Crash
<1>10. ASSUME UNCHANGED vars PROVE FlagTypes'
  BY <1>10 DEF vars
<1>. QED
  BY <1>1, <1>2, <1>3, <1>4, <1>5, <1>6, <1>7, <1>8, <1>9, <1>10 DEF Next, Daemon, Run

(* The port and what is on it.                                             *)
LEMMA PortTyped ==
  ASSUME PortTypes, [Next]_vars
  PROVE  PortTypes'
<1>1. ASSUME Service \/ Start \/ WriteStatus \/ Read \/ Remove \/ RunNothing \/ Arm \/ Crash
             \/ UNCHANGED vars
      PROVE  PortTypes'
  BY <1>1 DEF PortTypes, Service, Send, Written, Start, WriteStatus, Read, Remove, RunNothing,
              Arm, Crash, vars, hwvars, portvars, plugged
<1>2. ASSUME NEW m \in {"host", "peripheral"}, RunOtg(m) PROVE PortTypes'
  BY <1>2, OtgTypes DEF RunOtg
<1>3. ASSUME NEW p \in {"on", "off"}, RunPower(p) PROVE PortTypes'
  BY <1>3 DEF PortTypes, RunPower, PowerApply, Hungry, plugged
<1>4. ASSUME RunMount \/ RunUnmount PROVE PortTypes'
  BY <1>4 DEF PortTypes, RunMount, RunUnmount, plugged
<1>5. ASSUME RunReset PROVE PortTypes'
  <2>1. UNCHANGED plugged /\ (UNCHANGED portvars \/ \E ok \in Outcomes : OtgWrite("peripheral", ok))
    BY <1>5 DEF RunReset
  <2>. QED
    BY <2>1, OtgTypes DEF PortTypes, portvars, plugged
<1>6. ASSUME ResetHost \/ ArmWrite PROVE PortTypes'
  <2>1. UNCHANGED plugged /\ (UNCHANGED portvars \/ \E ok \in Outcomes : OtgWrite("host", ok))
    BY <1>6 DEF ResetHost, ResetEnds, ArmWrite
  <2>. QED
    BY <2>1, OtgTypes DEF PortTypes, portvars, plugged
<1>7. ASSUME Apply PROVE PortTypes'
  BY <1>7 DEF PortTypes, Apply, PowerApply, Hungry, plugged
<1>8. ASSUME Outside PROVE PortTypes'
  BY <1>8 DEF PortTypes, Outside, PlugPc, PlugOtg, Unplug, OpenFiles, CloseFiles, Detach, Mounted, plugged
<1>. QED
  BY <1>1, <1>2, <1>3, <1>4, <1>5, <1>6, <1>7, <1>8 DEF Next, Daemon, Run

(* Every step keeps the types.                                             *)
LEMMA TypeInductive ==
  ASSUME TypeOK, [Next]_vars
  PROVE  TypeOK'
<1>1. LoopTypes' /\ FlagTypes' /\ PortTypes'
  BY LoopTyped, FlagTyped, PortTyped DEF TypeOK
<1>2. (events \in Nat /\ crashes \in Nat /\ fails \in Nat)'
  <2>. USE DEF TypeOK, bounds, Count
  <2>1. CASE Send \/ Written
    BY <2>1 DEF Send, Written
  <2>2. CASE Crash
    BY <2>2 DEF Crash
  <2>7. CASE PlugPc
    BY <2>7 DEF PlugPc, Event
  <2>13. CASE Unplug
    <3>1. events' = events + 1 /\ crashes' = crashes /\ fails' = fails
      BY <2>13, Zenon DEF Unplug, Event
    <3>. QED
      BY <3>1
  <2>11. CASE OpenFiles \/ CloseFiles
    BY <2>11 DEF OpenFiles, CloseFiles, Event
  <2>8. ASSUME NEW d, PlugOtg(d) PROVE (events \in Nat /\ crashes \in Nat /\ fails \in Nat)'
    BY <2>8 DEF PlugOtg, Event
  <2>3. CASE Start \/ WriteStatus \/ Read \/ Remove \/ Arm \/ Apply
    BY <2>3 DEF Start, WriteStatus, Read, Remove, Arm, Apply
  <2>4. CASE ResetHost \/ ArmWrite
    BY <2>4 DEF ResetHost, ArmWrite
  <2>5. CASE RunMount \/ RunUnmount \/ RunNothing
    BY <2>5 DEF RunMount, RunUnmount, RunNothing
  <2>12. CASE RunReset
    BY <2>12 DEF RunReset
  <2>9. ASSUME NEW m, RunOtg(m) PROVE (events \in Nat /\ crashes \in Nat /\ fails \in Nat)'
    BY <2>9 DEF RunOtg
  <2>10. ASSUME NEW p, RunPower(p) PROVE (events \in Nat /\ crashes \in Nat /\ fails \in Nat)'
    BY <2>10 DEF RunPower
  <2>6. CASE UNCHANGED vars
    BY <2>6 DEF vars
  <2>. QED
    BY <2>1, <2>2, <2>3, <2>4, <2>5, <2>6, <2>7, <2>8, <2>9, <2>10, <2>11, <2>12, <2>13
    DEF Next, Service, Daemon, Run, Outside
<1>. QED
  BY <1>1, <1>2 DEF TypeOK

-----------------------------------------------------------------------------
(* A step of the daemon that neither reads nor removes leaves the files    *)
(* alone, and ends up outside of the two steps they matter in.             *)
LEMMA MailInductive ==
  ASSUME TypeOK, MailInv, [Next]_vars
  PROVE  MailInv'
<1>. USE DEF MailInv, Goto, svcvars, history
<1>0. /\ control \in Command /\ writing \in Command /\ cmd \in Command
      /\ sent \in Nat /\ ran \in Nat
      /\ control.id \in Nat /\ writing.id \in Nat /\ cmd.id \in Nat
      /\ NoFile.id = 0 /\ Empty.id = 0
  BY DEF TypeOK, LoopTypes, NoFile, Empty, Command
<1>1. ASSUME Send PROVE MailInv'
  <2>1. writing'.id = sent + 1 /\ writing = NoFile /\ control' = Empty
        /\ UNCHANGED <<cmd, ran, pc>> /\ sent' = sent + 1
    BY <1>1 DEF Send
  <2>. QED
    BY <1>0, <2>1
<1>2. ASSUME Written PROVE MailInv'
  BY <1>0, <1>2 DEF Written
<1>3. ASSUME Start \/ WriteStatus \/ ResetHost \/ Arm \/ ArmWrite \/ Apply PROVE MailInv'
  <2>1. /\ UNCHANGED <<control, svcvars, cmd, ran>>
        /\ pc' \notin {"remove", "run"}
    BY <1>3, AfterNext DEF Start, WriteStatus, ResetHost, Arm, ArmWrite, Apply
  <2>. QED
    BY <1>0, <2>1
<1>4. ASSUME Read PROVE MailInv'
  <2>1. /\ UNCHANGED <<control, svcvars, ran>> /\ cmd' = control
        /\ pc' \in {"arm", "remove"}
    BY <1>4 DEF Read
  <2>. QED
    BY <1>0, <2>1
<1>5. ASSUME Remove PROVE MailInv'
  <2>1. /\ UNCHANGED <<writing, sent, cmd, ran>> /\ control' = NoFile
        /\ pc = "remove" /\ pc' = "run"
    BY <1>5 DEF Remove, Removed
  <2>. QED
    BY <1>0, <2>1
<1>6. ASSUME Run PROVE MailInv'
  <2>1. /\ UNCHANGED <<control, svcvars, cmd>> /\ Performed
        /\ pc = "run" /\ pc' \in {"status1", "resetStatus"}
    BY <1>6 DEF Run, RunOtg, RunPower, RunMount, RunUnmount, RunReset, RunNothing
  <2>. QED
    BY <1>0, <2>1 DEF Command, Performed
<1>7. ASSUME Crash PROVE MailInv'
  <2>1. /\ UNCHANGED <<control, svcvars, ran>> /\ cmd' = NoFile
        /\ pc' = "start"
    BY <1>7 DEF Crash
  <2>. QED
    BY <1>0, <2>1
<1>8. ASSUME Outside PROVE MailInv'
  BY <1>8 DEF Outside, PlugPc, PlugOtg, Unplug, OpenFiles, CloseFiles
<1>9. ASSUME UNCHANGED vars PROVE MailInv'
  BY <1>9 DEF vars
<1>. QED
  BY <1>1, <1>2, <1>3, <1>4, <1>5, <1>6, <1>7, <1>8, <1>9 DEF Next, Service, Daemon

(* The state file and the memory have the mode last asked for.             *)
LEMMA PowerInductive ==
  ASSUME TypeOK, PowerInv, [Next]_vars
  PROVE  PowerInv'
<1>. USE DEF PowerInv, Goto, ramvars, history, StateSave
<1>0. flags \in Flags /\ disk \in Flags
  BY DEF TypeOK, FlagTypes
<1>1. ASSUME Service \/ Outside \/ UNCHANGED vars PROVE PowerInv'
  BY <1>1 DEF Service, Send, Written, Outside, PlugPc, PlugOtg, Unplug, OpenFiles, CloseFiles, vars
<1>2. ASSUME Start PROVE PowerInv'
  BY <1>2 DEF Start
<1>3. ASSUME Read \/ Remove \/ Arm \/ Apply \/ RunMount \/ RunUnmount \/ RunNothing PROVE PowerInv'
  BY <1>3 DEF Read, Remove, Arm, Apply, RunMount, RunUnmount, RunNothing
<1>4. ASSUME pc # "start", UNCHANGED <<asked, kept>>,
             \/ UNCHANGED <<flags, disk>>
             \/ \E f \in Flags, ok \in Outcomes : f.power = flags.power /\ StateSave(f, ok)
      PROVE  PowerInv'
  BY <1>4
<1>5. /\ \A m \in {"host", "peripheral"} :
             [flags EXCEPT !.otg = m] \in Flags /\ [flags EXCEPT !.otg = m].power = flags.power
      /\ [flags EXCEPT !.armed = "yes"] \in Flags /\ [flags EXCEPT !.armed = "yes"].power = flags.power
  BY <1>0, FlagSet DEF Flags
<1>6. ASSUME WriteStatus PROVE PowerInv'
  <2>1. pc # "start" /\ mode \in {"host", "peripheral"}
    BY <1>6, AfterSteps DEF WriteStatus, TypeOK, PortTypes
  <2>. QED
    BY <1>4, <1>5, <1>6, <2>1 DEF WriteStatus
<1>7. ASSUME NEW m \in {"host", "peripheral"}, RunOtg(m) PROVE PowerInv'
  BY <1>4, <1>5, <1>7 DEF RunOtg
<1>8. ASSUME NEW p \in {"on", "off"}, RunPower(p) PROVE PowerInv'
  <2>1. [flags EXCEPT !.power = p].power = p
    BY <1>0 DEF Flags
  <2>. QED
    BY <1>8, <2>1 DEF RunPower
<1>9. ASSUME RunReset PROVE PowerInv'
  BY <1>4, <1>5, <1>9 DEF RunReset
<1>10. ASSUME ResetHost PROVE PowerInv'
  BY <1>4, <1>5, <1>10 DEF ResetHost, ResetEnds
<1>11. ASSUME ArmWrite PROVE PowerInv'
  BY <1>4, <1>5, <1>11 DEF ArmWrite
<1>12. ASSUME Crash PROVE PowerInv'
  BY <1>12 DEF Crash
<1>. QED
  BY <1>1, <1>2, <1>3, <1>6, <1>7, <1>8, <1>9, <1>10, <1>11, <1>12 DEF Next, Daemon, Run

(* A port in host mode is armed, and the flag is set only when it is.      *)
LEMMA ArmedInductive ==
  ASSUME TypeOK, ArmedInv, [Next]_vars
  PROVE  ArmedInv'
<1>. USE DEF ArmedInv, ArmedMeansArmed, StateSave
<1>0. flags \in Flags /\ disk \in Flags /\ mode \in {"host", "peripheral"}
  BY DEF TypeOK, FlagTypes, PortTypes
<1>1. ASSUME UNCHANGED <<mode, hwarmed, flags, disk>> PROVE ArmedInv'
  BY <1>1
<1>2. ASSUME Service \/ Read \/ Remove \/ RunNothing \/ Arm \/ Apply
             \/ RunMount \/ RunUnmount \/ OpenFiles \/ CloseFiles \/ UNCHANGED vars
      PROVE  ArmedInv'
  BY <1>1, <1>2 DEF Service, Send, Written, Read, Remove, RunNothing, Arm, Apply, RunMount,
     RunUnmount, OpenFiles, CloseFiles, vars, hwvars, portvars, ramvars
<1>3. ASSUME Start \/ Crash PROVE ArmedInv'
  <2>1. UNCHANGED <<mode, hwarmed, disk>> /\ (flags' = disk \/ flags' = NoFlags)
    BY <1>3 DEF Start, Crash, hwvars, portvars
  <2>. QED
    BY <2>1, Blank
<1>4. ASSUME NEW m \in {"host", "peripheral"}, NEW ok, OtgWrite(m, ok)
      PROVE  /\ hwarmed => hwarmed'
             /\ mode' = "host" => hwarmed'
             /\ m = "host" /\ ok => hwarmed'
  BY <1>4 DEF OtgWrite, Detach, portvars
<1>5. \A m \in {"host", "peripheral"} : [flags EXCEPT !.otg = m].armed = flags.armed
  BY <1>0 DEF Flags
<1>6. ASSUME WriteStatus PROVE ArmedInv'
  <2>1. UNCHANGED <<mode, hwarmed>>
    BY <1>6 DEF WriteStatus, hwvars, portvars
  <2>. QED
    BY <1>0, <1>5, <1>6, <2>1 DEF WriteStatus
<1>7. ASSUME NEW m \in {"host", "peripheral"}, RunOtg(m) PROVE ArmedInv'
  BY <1>4, <1>5, <1>7 DEF RunOtg
<1>8. ASSUME NEW p \in {"on", "off"}, RunPower(p) PROVE ArmedInv'
  <2>1. [flags EXCEPT !.power = p].armed = flags.armed
    BY <1>0 DEF Flags
  <2>. QED
    BY <1>8, <2>1 DEF RunPower
<1>9. ASSUME RunReset PROVE ArmedInv'
  <2>1. CASE UNCHANGED <<flags, disk, portvars>>
    BY <1>1, <2>1 DEF portvars
  <2>2. CASE \E ok, sv \in Outcomes :
               /\ OtgWrite("peripheral", ok)
               /\ StateSave([flags EXCEPT !.otg = "peripheral"], sv)
    BY <1>4, <1>5, <2>2
  <2>. QED
    BY <1>9, <2>1, <2>2 DEF RunReset
<1>10. ASSUME ResetHost PROVE ArmedInv'
  BY <1>4, <1>5, <1>10 DEF ResetHost, ResetEnds
<1>11. ASSUME ArmWrite PROVE ArmedInv'
  <2>1. PICK ok \in Outcomes, sv \in Outcomes :
          /\ IF mode = "host" THEN ok /\ UNCHANGED portvars ELSE OtgWrite("host", ok)
          /\ IF ok THEN StateSave([flags EXCEPT !.armed = "yes"], sv)
                   ELSE sv /\ UNCHANGED <<flags, disk>>
    BY <1>11 DEF ArmWrite, ArmedBy
  <2>2. (hwarmed => hwarmed') /\ (mode' = "host" => hwarmed') /\ (ok => hwarmed')
    BY <1>4, <2>1 DEF portvars
  <2>. QED
    BY <2>1, <2>2
<1>12. ASSUME PlugPc \/ Unplug \/ \E d \in Drives \cup {"pad"} : PlugOtg(d) PROVE ArmedInv'
  BY <1>12 DEF PlugPc, Unplug, PlugOtg, Detach, ramvars
<1>. QED
  BY <1>2, <1>3, <1>6, <1>7, <1>8, <1>9, <1>10, <1>11, <1>12 DEF Next, Daemon, Run, Outside

(* Only the daemon mounts and unmounts, and it looks after it did; a drive *)
(* that goes leaves its mount behind.                                      *)
LEMMA MountInductive ==
  ASSUME TypeOK, MountInv, [Next]_vars
  PROVE  MountInv'
<1>. USE DEF MountInv, Mounted, Goto
<1>0. /\ table \in {"none", "live", "gone"} /\ Drive # "init"
  BY DrivesAssumption DEF TypeOK, PortTypes, Drive
<1>1. ASSUME UNCHANGED <<pc, seen, mounted>>, (table = "none") <=> (table' = "none")
      PROVE  MountInv'
  BY <1>1
<1>2. ASSUME Service \/ Outside \/ UNCHANGED vars PROVE MountInv'
  BY <1>0, <1>1, <1>2 DEF Service, Send, Written, Outside, PlugPc, PlugOtg, Unplug, OpenFiles,
     CloseFiles, Detach, vars, hwvars, portvars, ramvars
<1>3. ASSUME UNCHANGED <<seen, mounted>>, (table = "none") <=> (table' = "none"),
             pc \notin {"start", "status0"}, pc' \notin {"start", "status0"}
      PROVE  MountInv'
  BY <1>3
<1>4. ASSUME NEW m \in {"host", "peripheral"}, NEW ok, OtgWrite(m, ok)
      PROVE  (table = "none") <=> (table' = "none")
  BY <1>0, <1>4 DEF OtgWrite, Detach, portvars
<1>5. ASSUME Read \/ Remove \/ RunNothing \/ Arm \/ Apply PROVE MountInv'
  BY <1>3, <1>5 DEF Read, Remove, RunNothing, Arm, Apply, hwvars, portvars, ramvars
<1>6. ASSUME NEW m \in {"host", "peripheral"}, RunOtg(m) PROVE MountInv'
  BY <1>3, <1>4, <1>6 DEF RunOtg
<1>7. ASSUME NEW p \in {"on", "off"}, RunPower(p) PROVE MountInv'
  BY <1>3, <1>7 DEF RunPower
<1>8. ASSUME ResetHost \/ ArmWrite PROVE MountInv'
  BY <1>3, <1>4, <1>8 DEF ResetHost, ResetEnds, ArmWrite, portvars
<1>9. ASSUME RunReset PROVE MountInv'
  <2>1. (table = "none") <=> (table' = "none")
    BY <1>4, <1>9 DEF RunReset, portvars
  <2>. QED
    BY <1>9, <2>1 DEF RunReset
<1>10. ASSUME RunMount \/ RunUnmount PROVE MountInv'
  BY <1>10 DEF RunMount, RunUnmount, Resync
<1>11. ASSUME Start \/ Crash PROVE MountInv'
  BY <1>11 DEF Start, Crash
<1>12. ASSUME WriteStatus PROVE MountInv'
  <2>1. pc' \in {"loop", "resetHost", "arm"} /\ table' = table /\ pc # "start"
    BY <1>12, AfterNext, AfterSteps DEF WriteStatus, hwvars, portvars
  <2>2. mounted' = IF seen # Drive THEN Mounted ELSE mounted
    BY <1>12 DEF WriteStatus, Current, Rescan
  <2>. QED
    BY <1>0, <2>1, <2>2
<1>. QED
  BY <1>2, <1>5, <1>6, <1>7, <1>8, <1>9, <1>10, <1>11, <1>12 DEF Next, Daemon, Run

-----------------------------------------------------------------------------
WatchdInv == TypeOK /\ MailInv /\ PowerInv /\ ArmedInv /\ MountInv

(* The types and the four invariants hold in every reachable state.        *)
THEOREM WatchdCorrect == Spec => []WatchdInv
<1>1. Init => WatchdInv
  <2>. SUFFICES ASSUME Init PROVE WatchdInv
    OBVIOUS
  <2>1. TypeOK
    BY FilesTyped DEF Init, TypeOK, LoopTypes, FlagTypes, PortTypes
  <2>2. MailInv
    <3>1. /\ writing = NoFile /\ writing.id = 0 /\ control.id = 0 /\ cmd.id = 0
          /\ ran = 0 /\ sent = 0 /\ pc = "start"
      BY Blank, Zenon DEF Init
    <3>. QED
      BY <3>1 DEF MailInv
  <2>3. PowerInv /\ ArmedInv /\ MountInv
    BY Blank DEF Init, PowerInv, ArmedInv, ArmedMeansArmed, MountInv
  <2>. QED
    BY <2>1, <2>2, <2>3 DEF WatchdInv
<1>2. WatchdInv /\ [Next]_vars => WatchdInv'
  BY TypeInductive, MailInductive, PowerInductive, ArmedInductive, MountInductive DEF WatchdInv
<1>. QED
  BY <1>1, <1>2, PTL DEF Spec

(* The files, the flags, the port and the mount table keep their types,    *)
(* whatever was written, cut off or lost before.                           *)
THEOREM TypeCorrect == Spec => []TypeOK
<1>1. WatchdInv => TypeOK
  BY DEF WatchdInv
<1>. QED
  BY <1>1, WatchdCorrect, PTL

(* A command is performed at most once and never after a later one,        *)
(* whatever the daemon's deaths and the service's timing.                  *)
THEOREM NotRunTwiceCorrect == Spec => []NotRunTwice
<1>1. WatchdInv => NotRunTwice
  BY DEF WatchdInv, MailInv, NotRunTwice, TypeOK, LoopTypes, Command
<1>. QED
  BY <1>1, WatchdCorrect, PTL

(* Once saved, the power mode last asked for is the one the daemon goes by *)
(* in every later round, of this daemon or of one started after it.        *)
THEOREM PowerKeptCorrect == Spec => []PowerKept
<1>1. WatchdInv => PowerKept
  BY DEF WatchdInv, PowerInv, PowerKept
<1>. QED
  BY <1>1, WatchdCorrect, PTL

(* The daemon never gives up arming a port that is not armed.              *)
THEOREM ArmedCorrect == Spec => []ArmedMeansArmed
<1>1. WatchdInv => ArmedMeansArmed
  BY DEF WatchdInv, ArmedInv
<1>. QED
  BY <1>1, WatchdCorrect, PTL

(* The cached mount state is that of the mount table.                      *)
THEOREM MountCacheCorrect == Spec => []MountCacheRight
<1>1. WatchdInv => MountCacheRight
  BY DEF WatchdInv, MountInv, MountCacheRight
<1>. QED
  BY <1>1, WatchdCorrect, PTL
=============================================================================
