# TLA+ models of webos-touchpad-accessories

This directory holds TLA+ specifications of the programs in this repository that add game controllers and USB
accessories to the HP TouchPad, the TLC configurations that check them on small instances, and theorems about them
that TLAPS checks for every instance. Paths below are relative to the repository.

Contents: 1 the system; 2 the modules and the code; 3 the runs; 4 bounds; 5 fairness; 6 proofs; 7 what is only
model-checked; 8 where code and documentation disagree; 9 assumptions and abstractions; 10 not modelled; 11 plan.

To run: `tlc -config Shim.cfg MCHidShim` (the other configurations alike, with the MC module of their
specification), `tlapm HidShim_proofs.tla`.

## 1. The system

### Bluetooth shim (`bluetooth-shim`)

A library preloaded into the Bluetooth engine (`PmBtEngine`). It replaces three functions of the stock HID library,
`HidOpenUInput`, `HidSendToInput` and `HidCloseUInput`, and a few pairing handlers.

| Part | State | Operations | What makes it correct | What is hard |
|---|---|---|---|---|
| HID interposers (`src/shim.c` 103-459) | `g_tab` of 8 devices, `g_lock`, the flag and descriptor in the stack's device struct, the kernel's descriptors | open, report, close of a device | a report reaches its own device's node; no node is lost or destroyed by another device; struct and table agree; every callback returns | callbacks of several devices interleave; the slot is used after the unlock; the struct is written outside the mutex; the table fills up; devices are opened twice |
| Descriptor ladder (`shim.c` 194-391) | cache files in `/var/btshim.d`, one static buffer | device bytes, compacted bytes, cache, built-in, stock | each device is taken over with its own descriptor, keyboards never | garbled bytes on a reconnect; a buffer shared by all opens; files cut short |
| Wii Remote pairing (`shim.c` 461-641) | the attempt counter, the stack's keys | answer a PIN request, accept SSP, forget a failed bond | the candidates are tried in turn; nothing else is bonded without consent; a stale key blocks nothing | several remotes, restarts, failures between two handlers |
| Report descriptor parser (`src/hid_parser.c`) | global and local items, a stack of global states, a table of 16 reports, the profile | one item after another, then a pass over the buttons | every field sits at the bit of its report at which the descriptor declares it | reports declared in pieces and in any order; limits: 128 fields, 64 usages, 16 reports, 8 pushed states, 16-bit offsets |
| Report translation (`src/uinput_dev.c`) | none but the profile | find the report in a frame, extract bits, emit events | a report is decoded by its own fields from its own payload | the frame may begin with a HIDP header or not, and a payload may look like a header or an id |
| Wii Remote decoder (`src/wiimote.c`) | none | address test, decode core buttons | | |
| Installer (`packaging/control`, `scripts`) | files of the system and their backups | install, remove, patch | removal restores what was there | interrupted or repeated installations |

### USB settings (`usb-settings`)

The panel (an Enyo application) calls a JavaScript service, which talks to a root daemon through files in
`/media/internal`; the daemon runs a monitor program that lists devices.

| Part | State | Operations | What makes it correct | What is hard |
|---|---|---|---|---|
| Panel (`UsbSettingsApp.js`) | watching, timers, the power latch | activate, deactivate, refresh, buttons | asks for the monitor only while in front | late timers, a panel that is killed |
| Service (`SendAssistant.js`, `GetStatusAssistant.js`) | none but files | write a command, write or remove the keepalive, read the status | | file writes in two steps |
| Daemon (`usbctl-watchd.sh`) | flags in memory and in the state file, cached mount state, last status | perform commands, arm the port, configure devices, status, monitor | commands run once and in order; preferences last; the reset spares a mounted drive; the status ends up right | no locks: two writers on the same files; deaths and restarts; writes that fail; a cable that moves |
| Monitor (`usbdevmon.c`) | pid file, table of input nodes, table of devices without one, list file | scan, probe, poll, write the list | there is one, it goes when the panel goes; the list settles on what is plugged in; a press lights its device | pids, ports and event indices that are used again; a node that died is silent; full tables; a file that cannot be written |

### Tools

| Part | State | Operations | What makes it correct | What is hard |
|---|---|---|---|---|
| Gamepad keys (`gamepad-keys/padkeys.c`) | the four directions and the face buttons, shared by all pads; for each Bluetooth pad the keys its report was turned into | an event of a USB pad, a read of a Bluetooth pad | no key stays down that no pad asks for | a report is seen only through the stack's keyboard parser, which folds its bytes into keycodes; a read ends in the middle of a report; several pads press the same key |
| Bluetooth wizard (`bt-wizard/btwizard.c`, `btpair.sh`) | the screen, when it was entered, the open node and its grab, the decoded button byte | one frame of each screen | the record of the pad is patched and loaded, the present node is open, the display follows the pad | a clock of seconds seen by many frames; calls to the radio that stop the frame, come late or are lost; a radio that dies; nodes made anew |
| Bluetooth UART bridge (`bt-bridge/btbridge.c`) | the BCSP handshake, the SLIP decoder of `le_feed`, the relay | send, read, time out, relay | nothing is heard that was not sent; chip and kernel agree that the link is up | bytes lost on the line; reads that end anywhere; the program stops where the kernel takes over |

The rest (`btctl.c`, `btprobe.c`, `sniffdec.py`, the viewers, `host-tools`, build scripts) keeps no state worth a model.

### How the parts interact

The stack calls the shim; the shim calls the stock functions and the kernel. Panel and service exchange calls on the
webOS bus; service, daemon and monitor share files only: the control file, the keepalive, the status, the list, the
pid file. upstart restarts the Bluetooth engine and the daemon when they die. The wizard switches the radio through
`btmonitor` and edits the stack's record file; it and `padkeys` read the node the stack makes for a pad, which without
the shim is a keyboard. The bridge stands between the UART and the kernel's `hci_bcsp` and touches no other part.

## 2. Modules

| Module | Models | Variables and their counterparts |
|---|---|---|
| `HidShim` | the three interposers | `g_tab`, `g_lock`, `uinput_flag`, `uinput_fd` as in the code; `node`: what each descriptor is open on; `pc`, `kind`, `fd`, `m`: the step and locals of each device's call |
| `HidRouter` | what the interposers promise (abstract) | `route`: whose node a device's reports go to; `inflight`: the route of the report being handled |
| `RdescLadder` | the descriptor ladder and its cache | `cache`: the files; `buf`: the static buffer; `desc`, `wide`: the bytes delivered; `prof`: what was parsed |
| `WiiPairing` | the pairing hooks | `attempt`: the static counter; `key`: the stack's link keys; `phase`, `sent`: the pairing under way |
| `UsbWatchd` | the daemon's loop, the service's commands, the port | `control`, `disk`, `status`: the files; `flags`, `seen`, `mounted`, `last`: the script's variables; `mode`, `hwarmed`, `cable`, `device`, `conf`, `table`, `using`: the hardware |
| `HidParser` | `hid_parse` | `g`, `stack`, `usages`, `umin`, `idtab`, `out`, `fields` as in the code; ghosts: `declared`, the bits of each report without any limit, and in a field its `place` |
| `HidReports` | `uinput_emit_report`, and the button pass, for the profile `HidParser` has made | none of its own |
| `DevmonLifecycle` | the keepalive and the monitor process, across panel, service, daemon and monitor | `watching`, `late`, `calls`: the panel; `watch`: the keepalive; `DEVMON_PID`, `spid`: the script's variables; `pidfile`, `devices`, `proc` |
| `Usbdevmon` | the monitor's loop | `in`, `np`, `last_out`: its tables and last list; `scanage`, `writeage`, `fileage`: how long ago; `file`; `usb`: what is plugged into each port |
| `Padkeys` | the loop of `padkeys` | `dirstate`, `btn_prev`, `bt` (struct `btpad`); `queue`: the unread events of each pad; `down`: the keys of the virtual keyboard; `pos`, `held`, `report`: the pads |
| `BtWizard` | the wizard, with the stack as it sees it | `state`, `held`, `btfd`, `bbyte`; `h`: the rest of a frame that waits in `luna()`; `hid`: the record file; `radio`, `loaded`, `requests`, `scripts`, `node`: the stack, `btmonitor`, the script and the pad |
| `BcspLink` | `send_le`, `le_feed`, `bcsp_link_establish` and the relay | `phase`, `state`, `ticks`, `le` (the static decoder); `toChip`, `toHost`: the line; `chip`, `kernel`: the two ends |

`MC*` modules give the constants their values for TLC. `*_proofs` modules hold the theorems. Names of actions are those of
the functions where the language allows it; where a function takes several steps that others can see, there is one
action for each. `HidShim` and `RdescLadder` meet at `OpenCall`: the ladder decides, `HidShim` takes any decision.
`UsbWatchd` and `DevmonLifecycle` are two views of one loop: they share no variable, because the monitor step of
the loop touches only the keepalive, the pid file and the list, and nothing else does. `Usbdevmon` is what the
process of `DevmonLifecycle` does between its start and its end. `HidReports` extends `HidParser`, so that a profile is always
one the parser has made. Operators whose name has a
suffix and whose comment starts with "Mutant" are variants of a definition with a plausible bug; they are used to see
that a property notices it, and by no specification.

### HidShim

Each callback is a sequence of steps: `OpenCall`, `CreateNode`, `Lock`, `ReplaceOld`, `PickSlot`, `FillAndUnlock`,
`Publish` (or `TableFull`, or `DelegateOpen`); `SendCall`, `EmitReport` (or `StockSend`); `CloseCall`,
`DestroyNode`, `ClearFlag` (or `StockClose`). What happens under the mutex without a call outside is one step. The
kernel gives the lowest free descriptor, so that numbers are used again at once.

### UsbWatchd

`Read` and `Remove` are line 321, `Run*` the `case`, `WriteStatus` the three places it is called from (`After`),
`ResetHost` the second half of the reset, `Arm` and `ArmWrite` the test and the write of `arm_otg_once`, `Apply`
`power_apply`. A write of a file or of the mode knob may fail (`Outcomes`). The service's write is `Send` (open and
truncate) and `Written`; if the daemon removed the file in between, it goes to a file that has no name any more.

### DevmonLifecycle

The keepalive has an age; `Tick` is time. A daemon's sweep reads the pid file, signals and removes it in steps of their own,
among which the monitor may be between opening and writing it. The check and the signal are two steps more (`SweepCheck`, `SweepKill`):
the check is a `grep` in the command line, which another program may pass (`Matches`), and the pid may be given again before the signal.

### HidParser and HidReports

An action is an item: a global, local or main item the parser looks at, or one it skips after resetting the locals
(`OtherMain`). `Input` is the branch of `hid_parse` that takes the bits of the report (`Taken`) and makes fields of the
controls that stand for an axis, a hat or a button (`Control`), as long as there is room. `Finish` may come after any item,
because a descriptor may be cut off anywhere. In `HidReports` a report is a sequence of bytes: `Ids` and `HasHeader` find where it starts,
`Extract` its bits, `Emitted` the events.

### Usbdevmon

`Probe`, `ScanInput`, `ScanUsb` are the three parts of a rescan, `Poll(0)` a poll that returns at once because a node is
readable or dead, `Poll(1)` one that runs into its time limit, `WriteDevices` what ends every pass. `Plug`, `Configure`, `Bind`,
`Unplug`, `Press`, `MediaAway` and `MediaBack` are the world. Every enumeration is a device of its own; port and index are
free as soon as it goes. The class of a device is that of its interfaces, which the kernel has only for a configured one (`HasClass`).

### Padkeys

`SendReport` is a report as the stack's keyboard parser passes it on: modifier keys for the bits of byte 0, a keycode for each other
byte, releases before presses; `early` are the keys that were down before padkeys opened the device and of which it is never told. `BtRead` is one `read()` of any part of the queue, with `bt_key` for each event and one
`bt_apply`; `UsbEvent` one event of a USB pad.

### BtWizard

One action for each screen is one frame; `Luna` ends the frame in the call and `AfterLuna` is the rest of it, two seconds later. `Tick`
is a second. `RadioOn`, `RadioOff` and `LoseRadioOn` are `btmonitor`, `ProfConnect` the last command of a script.

### BcspLink

`Send` and `Read` (or `Quiet`) are the two halves of the handshake's loop; a read feeds its bytes one by one to `LeFeed` and
`Answer`. Frames are real: SLIP, header checksum and CRC are translated from the code (`Slip`, `CrcNibble`, `Bitrev16`, `Contents`), and what the chip
makes of them is computed by another definition of the same CRC (`Crc16`, `Decode`), that of BCSP. `Lossy` is what is left of a frame of the chip. `RelayUp`, `RelayDown`,
`WriteFails` and `Signal` are the relay.

## 3. Runs

| Run | Configuration | Checks | Shows |
|---|---|---|---|
| shim | `Shim` | SlotsOwnLiveNodes, NodesAccountedFor, StructConsistent, ReportsReachOwnNode, OnlyOwnerDestroys, ImplementsRouter, CallsReturn | under any interleaving of two devices, with a table that is full when one is in it: table, kernel and device structs stay consistent, the shim implements `HidRouter`, every callback returns |
| ladder_open | `LadderOpen` | OwnDescriptorOnly, OwnBytesBeforeBuiltin, KeyboardsStayStock | each device is taken over with its own descriptor, its own bytes before the built-in ones, through crashes, short writes and garbled bytes that parse |
| wii_pairing | `WiiPairing` | NoPinTwice, OthersNeedConsent, StaleKeysForgotten | candidates cycle, nothing else is bonded without consent, no key blocks a remote |
| reports | `HidReports` | FieldsSitWhereDeclared, OwnReportsDecode | for every descriptor of up to eleven items, the tables overflowing included: fields sit where declared, and each report is decoded from its own payload in both framings |
| watchd | `Watchd` | NotRunTwice, PowerKept, ArmedMeansArmed, MountCacheRight, StatusSettles, HungryServed, PortFollowsCable | the safety of the daemon, and what it brings about in the end, with a death, a failed write and cable events |
| devmon | `DevmonLifecycle` | TypeOK, OneMonitor, KeepaliveGone, MonitorIsNamed, MonitorStops, ListCleared | the life of the monitor |
| devices | `Usbdevmon` | ListSettles, PressShown | once devices stop coming and going the list is right and fresh; a press of a listed device lights it |
| padkeys | `Padkeys` | GhostsEndAtRest, UsagesTrackReport | a USB and a Bluetooth pad that share keys leave none down that neither asks for, once the Bluetooth pad is at rest, whatever its stick looked like before; its report is reconstructed exactly |
| wizard | `BtWizard` | PatchTakesEffect, GrabFollows, PollRecovers | through lost calls, a radio that dies and nodes made anew, the patch is loaded, the open node is the present one, the display comes to the button byte |
| bcsp | `BcspLink` | HeardWhatWasSent, LinkAgreed, FramesUnderstood, LinkCompletes | with bytes and frames lost and reads that end anywhere, the handshake ends with a link that the kernel completes |
| wizard_pair | `BtWizardPair` | OnePass, violated | section 8 |
| padkeys_stick | `PadkeysStick` | NoGhostKeys, violated | section 8 |

The type invariants of the proved modules are theorems (section 6).

`ImplementsRouter` is the refinement `HidRouter!Spec` under the mapping at the end of `HidShim`: the route of a managed
device is the decoder of its slot, that of another one is its stock keyboard node if it has one.

## 4. Bounds

Every counter that could grow is a history or a budget with a named bound.

- HidShim: two devices suffice for every property that relates a device to another (its interference is always
  that of one other call); one slot, so that the table is full when one of them is in it; two descriptors, so that numbers
  run out and are used again. `ShimTable.cfg` is a larger instance of the safety part (two slots, three descriptors, device
  symmetry, no liveness), for a longer check by hand.
- RdescLadder: four devices, two gamepads and two keyboards, of each one whose garbled bytes parse as nothing and one whose garbled
  bytes may parse, as a mouse or gamepad or as a plain keyboard (`Deceptive`); the deceptive gamepad has a built-in descriptor. No bound on opens or
  crashes.
- WiiPairing: two Wii Remotes and another device, one restart (a restart resets the counter and ends the pairings; a
  second one meets no state that the first did not). Pairings are not bounded.
- UsbWatchd: two commands of the panel or of another program (the hazards are between a command and the next), two cable or program
  events, one death and one failed write. `StatusSettles` and `PortFollowsCable` suppose that no write failed (section 8 says why). One
  drive name: a second one adds the change of names, for which the theorem `MountCacheCorrect` stands.
- DevmonLifecycle: two pids, two calls under way, one late refresh, one death of the daemon and one of a monitor. A
  keepalive is stale after one tick: the daemon's round may fall on either side of it.
- HidReports: eleven items, the five or six global items with which nearly every descriptor begins included (a descriptor that
  begins so is one of `HidParser`'s behaviours). Two report ids and the unnumbered report with a table of two, three fields,
  two usages and one pushed state, so that each table overflows and is used beyond it; offsets modulo 32, so that a report can
  be longer than their range. Payloads: each single bit, and a first byte that looks like a header or an id.
- Usbdevmon: two ports, two enumerations and one more that cannot be shown (each table has one entry), an index that
  belongs to the tablet and two free ones; one event (a press or the loss of the file system). A period is two passes of the poll, the
  rescan one, because only their order matters: a rescan comes before a device stops being new, active or fresh.
- Padkeys: a USB stick and button and a Bluetooth pad; three stick positions (both ends and the middle), button bytes with and
  without keycode and two usages that share one; of the stick bytes 0x7F has no hat nibble, and 0x81, the one of the comment in `bt_apply`, looks like a
  button byte. One unread USB event and three of the Bluetooth pad, enough for a read to end inside a report.
- BtWizard: three seconds of PAIRING instead of 55 (it ends by time or by a pad), two frames a second (one would hide what a
  second one repeats), two calls lost, one death of the radio, three nodes, button bytes 0 (which has no keycode), 8 and 40.
- BcspLink: a chip in each mode of its own, one byte or frame lost in all (`MaxLost`, `MaxMissing`; each of the lines has every frame of the
  handshake, so the loss hits any of them), four rounds of the handshake, the buffer's real 64 bytes. A read returns all there is or a multiple of 12 bytes, which cuts
  the frames, of 12 to 16 bytes, at many places.

## 5. Fairness

- HidShim: a call that has begun runs on (weak fairness of its steps: a thread is scheduled), and a thread that waits for
  the mutex gets it if it is free again and again (strong fairness of `Lock`; `pthread_mutex_lock` with a handful of
  threads). Nothing makes the stack call.
- WiiPairing: the user keeps trying, the stack and the shim do their part (weak fairness of each device's pairing). That
  is what the comment on the candidates supposes.
- UsbWatchd: the service finishes a write it has begun; the daemon's loop goes on (it is a `while true`, and upstart
  restarts it). The panel need not send, the cable need not move, nothing need fail.
- DevmonLifecycle: service, time, daemon, timers of the panel and the first steps and the exit of a monitor. That a monitor writes its
  list is not assumed, nor that a panel ever leaves: `MonitorStops` and `ListCleared` speak of one that has left for
  good.
- Usbdevmon: the loop goes on (a process that is scheduled), and time passes although a poll may return at once (strong
  fairness of `Poll(1)`: the counters are clocks, not counts of passes); the PC gives the file system back. Devices need do nothing.
- BtWizard: frames, the rest of a frame after `luna()`, seconds and `btmonitor` go on; every 180th frame comes (strong fairness
  of `PressPSScreen(TRUE)`: it is a counter of frames). Neither pad, user, scripts nor the number of frames in a second are assumed.
- BcspLink: the program, the chip and its timer go on. Losses are bounded, as a line that loses everything carries nothing.
  `BLUETOOTH-KERNEL.md` (67-100) reports that on the TouchPad no byte from the host ever reached the chip. `LinkCompletes` is about the
  program on a line that works in both directions, which the repository has not had; the safety properties do not depend on it.

## 6. Proofs

All theorems are checked by TLAPS for every value of the constants that satisfies the named assumptions of the module.
Each module rests on an inductive invariant, stated in the component's module or before its proof, which TLC had confirmed first.

- `HidShim_proofs`: `TypeCorrect`, `TableCorrect`, `NoShimNodeLost`, `StructCorrect`, `ReportsCorrect`,
  `DestructionCorrect`. `ShimInv` is one conjunct of ten parts for each device. The properties are not inductive:
  they need that the mutex is held exactly from `Lock` to `FillAndUnlock` (`LockInv`), that a node just made is not yet in
  any slot (`OpeningInv`), that the slot picked is still free when it is filled (`FillInv`), that the slot of a report
  under way stays its device's (`SlotInv`), and where a device cannot have a slot (`UnmanagedInv`). The argument is one of
  isolation: `Isolated` states that a step of a device that keeps the slots, nodes and struct of another keeps the
  other's part of the invariant; each action then shows its own device's part. `RouterImplemented` is the refinement. It rests on `ShimInv` and a few facts about the mapping: a report under
  way is bound for its device's present route; a step of one device changes its own route only; a route is kept until the
  device's open or close. Each group of actions then maps to an action of `HidRouter` or to a stutter. That a device taken over finds room
  among the routes is a pigeonhole argument: the slots of the devices taken over inject into the table without the slot that is filled.
  Assumptions: at least one slot, `NoDev` and `NoNode` distinct from devices and nodes.
- `RdescLadder_proofs`: `TypeCorrect`, `OwnDescriptorCorrect`, `KeyboardsCorrect`, `OwnBytesCorrect`, for any set of devices and any of them
  with garbled bytes that parse. `LadderInv` adds that what was delivered is the device's own or made of it (`Genuine`), that only what parsed is
  saved, and that the last rung is reached past a cache that does not parse.
- `WiiPairing_proofs`: `TypeCorrect`, `NoPinTwiceCorrect`, `ConsentCorrect`. `MissedInv` says that what the remote answered last has
  refused is a run of candidates ending in the last one sent, which is why the next one cannot be among them before the
  right one is met; two lemmas do the arithmetic modulo 4.
- `HidReports_proofs`: `ParserCorrect`, `FieldsCorrect`, `ReportsDecodeCorrect`. `FieldsSitWhereDeclared` says of a report that fits the range of offsets
  that its fields have not wrapped. It is not inductive: that the table counts what was declared (`BitsCounted`) needs that ids
  are unique in it (`IdsUnique`) and that an id outside it has declared nothing unless the table is full (`LateIds`); a
  field made while its id was not in a full table never gets an entry later. Three lemmas do the arithmetic: a sum below the range is
  its own remainder (`ModSmall`), a remainder is in range (`ModRange`), and a control within an item ends before the
  item does (`ProductMonotone`). `ReportsDecodeCorrect` adds the bytes: what follows the id and the header in each framing is the payload,
  and the bits `Extract` takes are those of the field at its place. Assumptions: positive limits, counts and usages natural, sizes
  from 1 to 32; and, for the last theorem, no report with the id 161, which is the byte of the HIDP header and which the code cannot tell from it.
- `UsbWatchd_proofs`: `TypeCorrect`, `NotRunTwiceCorrect`, `PowerKeptCorrect`, `ArmedCorrect`, `MountCacheCorrect`. `MailInv` orders the
  numbers of the commands in the file, in the daemon and being written; `PowerInv` relates memory and file; `ArmedInv`
  adds that a port in host mode is armed; `MountInv` says where the cached mount state is right. No bound on commands,
  events, deaths or failures is used beyond their being natural numbers.
- `DevmonLifecycle_proofs`: `TypeCorrect`, `OneMonitorCorrect`, `MonitorIsNamedCorrect`, `KeepaliveCorrect`. `MonitorInv` says how the daemon knows
  every monitor: by `DEVMON_PID` in its loop, and by the pid file from its start until its sweep. It is not kept by a death
  between the fork and the pid file, which the hypothesis `CrashEarly = FALSE` of `OneMonitorCorrect` and `MonitorIsNamedCorrect` excludes (section 8).
  `KeepaliveInv` says that after a farewell the last call under way is that farewell, so that no refresh comes
  after it. `NoPid` and "blank" are no pids, and the bounds are natural.
- `Padkeys_proofs`: `ReconstructionCorrect`, `UsagesCorrect`, `KeysCorrect`. A read folds its events into the struct, so the invariant
  speaks of every prefix of the unread queue: `On` says which usages are on after the first k events, whatever pieces they will be read in.
  At every prefix at most two are on (`AtMostTwo`), which is why the table of eight never drops one, and at the end of the queue they are
  those of the report, as far as they changed since padkeys started (`Reconstructed`, `Sent`); `UsagesCorrect` is that at an empty queue. `Read` shows by
  induction over the prefix (`UpTo`) that the fold computes `On`. `GhostInv` adds what makes a key legitimate. A face button, or a direction that a Bluetooth pad
  has put down, cannot be tied to what the pad asks for at the moment: a stick byte may have been taken for the button byte. It is tied to what the struct
  says if it is settled (`BtFace`, `BtDir`): on exactly one usage with a hat, which is neutral (`Settled`), that usage has it. Every read keeps this, because on a
  settled struct `Candidates` can choose only that usage, whatever it tracked before (`CandidatesSettle`), and at rest the struct is settled. For the USB pads the last
  unread event of an axis or button says where it is (`Matches`); every direction, button and key that is on has a pad that asks for it or an event on its way
  (`DirAsked`, `FaceAsked`, `KeyAsked`). No theorem has a hypothesis about the stick bytes.
- `BcspLink_proofs`: `LinkCorrect`, `CrcCorrect`, `FramesCorrect`, `HeardCorrect`, for any time limit, buffer, losses and pieces.
  - `LinkInv` (`LinkInvariant`) is behind `LinkAgreed`. It follows one byte: 222, the first of the payload of a CONF RESP, is in no other frame
    (`Mark`). As long as it is on the line or in the buffer, or after the handshake succeeded, the chip is not shy and no SYNC that could make it so is on
    its way (`Confirmed`); that no SYNC follows a CONF (`SyncsBeforeConfs`) is why it does not come back.
  - `CrcCorrect`: by nibbles from the table and reversed, or bit by bit as BCSP defines it, the CRC of any bytes is the same. Numbers are sets of bits, so that
    a shift is a translation and a XOR a symmetric difference; a table entry is four steps of the mirrored register (`NibbleIs`, `StepMirrored`), and the
    two registers mirror each other after each byte. The sixteen entries of the table are the only numbers in it.
  - `FramesCorrect` needs `CrcCorrect`, that what SLIP escapes is what it restores (`UnslipSlip`), and that a frame with the right header, length and
    CRC is understood as its packet (`DecodeIs`, `ContentsIs`).
  - `HeardCorrect` counts. Each packet has two bytes that are next to each other in its own frame and in no other (`Lead`, `Follow`); they have to be in the
    buffer for it to be heard, so the pairs on the line and in the buffer are at most the packets not yet heard (`OwedIsSent`, `HeardInv`). A frame
    that keeps a byte of its END and header separates those around it, which is the hypothesis: `MaxMissing < 5`, no frame loses all five of them. With
    that, losses are not bounded in number. The frames of the chip are constants, whose CRC TLC computes (`ChipFramesAssumption`).

## 7. Only model-checked

Liveness (CallsReturn, StaleKeysForgotten, StatusSettles, HungryServed, PortFollowsCable, MonitorStops, ListCleared, ListSettles,
PressShown, PatchTakesEffect, GrabFollows, PollRecovers, LinkCompletes) is out of the prover's reach. Every safety property of a
passing run is a theorem. `Usbdevmon` and `BtWizard` have liveness properties only, and no theorems.

## 8. Where code and documentation disagree

- Run `wizard_pair` (`OnePass`): `btpair.sh` 2-3 calls itself "One pairing pass. NEVER loop profconnect", because each failed connect
  uses up one of seven sub-instances for good, and `README.md` 226 repeats it. The wizard starts the script in every frame in which
  `held == 1` (`btwizard.c` 412), and `held` is the same for all frames of a second: dozens of instances run at once.

- Run `padkeys_stick` (`NoGhostKeys`): the comment at `padkeys.c` 262-267 says how the button byte is told from a stick that rests at 0x81,
  and that "this survives d-pad presses". It does not when the byte of the stick appears in the same read as that of the press: the third rule (276-281) takes
  the first value that is new and has a legal hat nibble. Triangle and UP go down, which nobody holds, until the stick leaves 0x81 or padkeys is told of a released d-pad
  while the stick looks like no button byte; that they go then is `GhostsEndAtRest`.

Configurations that are not among the runs, in which TLC finds that the code does not do what a comment asks for or supposes:

- `WatchdDrive` (`ResetSparesDrive`): `usbctl-watchd.sh` 189 refuses the reset because "the cycle would yank the drive mid-use". After a lazy
  unmount (182) the mount table has no drive at the mount point, and the reset takes the port from one in use (192).
- `DevmonLate` (`RefreshedInFront`): `UsbSettingsApp.js` 157-158 says that the keepalive is refreshed only while the panel is in front. A
  refresh left by `setTimeout` (391, 399, 407) asks for the monitor after the panel left.
- `DevmonSweep` (`SweepSparesOthers`): `usbctl-watchd.sh` 235-236 says that a stale file "must never let us kill an unrelated process". The check
  is a `grep` for `usbdevmon` anywhere in the command line, which an editor of the source passes, and the pid may belong to another process by the time of the
  signal. `devmon_stop` (258) signals `DEVMON_PID` with no check but `kill -0`.
- `LadderGarbled` (`CacheHoldsDeviceBytes`): `shim.c` 203-204 calls the cache "written whenever a descriptor from the device itself parsed
  cleanly". The garbled bytes of the stack, compacted, are cached over the good ones as well if they parse (353).
- `BtWizardPoll` (`PollTellsTruth`): `btwizard.c` 486-490 says that polling cannot get stuck. A stick byte
  that stays on a value that looks like a button byte, while the pad holds d-pad UP (byte 0, which has no keycode), is decoded for as long as it stays.
- `WiiTwo` (`RetryingFindsThePin`): `shim.c` 555-556 says that retrying a few times finds the PIN that authenticates. The candidates of two Wii
  Remotes paired in turn come from one counter (559), and one of them may never get its PIN.

Two more, of a behaviour that no text rules out though the authors can hardly want it:

- `ShimOrphan` (`ClosedDevicesHaveNoNode`): a device opened by the stock library and then taken over keeps its stock keyboard
  node after it is closed (`shim.c` 404).
- `WatchdLost` (`CommandsPerformed`): a command written between the daemon's reading and removing the control file is lost
  (`usbctl-watchd.sh` 321).

Met on the way, recorded as hazards without a run of their own: a cache file cut short may parse, and its device loses fields
(`shim.c` 262); a failed write of the status is never tried again (`usbctl-watchd.sh` 301-303; `StatusSettles` supposes that none failed); a reset that dies halfway leaves the port in peripheral mode (197; `PortFollowsCable` excepts it); a
monitor orphaned before its pid is in the file is never swept (231; `CrashEarly = TRUE` violates `MonitorStops`). The hats of USB pads never press an arrow: with a
range of -1 to 1 the dead zone is 1 around 0 (`padkeys.c` 157-163; the repository's `README.md` 103 says they do). The handshake's time
limit counts reads, not tenths of a second, and a chip that talks shortens it (`btbridge.c`); bytes that arrive in one read with the
CONF RESP are dropped; a UART whose transmit queue is full ends the bridge (376); a signal during the handshake is not looked at; `le_feed`
checks neither CRC nor header.

## 9. Assumptions and abstractions

- The callbacks of one device do not overlap; those of different devices may. With overlapping callbacks of one device
  the slot that `HidSendToInput` uses after the unlock could be freed under it.
- `RdescLadder` has one open at a time, because the code has one static buffer and the stack one dispatcher thread for
  connections; `HidShim` is more general and does not depend on it.
- A descriptor is whose it is and what is left of it (whole, prefix, stub, garbled, built-in). The garbled bytes of a `Deceptive` device may parse, as
  a mouse or gamepad whatever it is (`mangled`) or as a plain keyboard (`keylike`); those of the others parse as nothing. `KeyboardsStayStock` excepts a keyboard
  among the former, which the code cannot tell from a gamepad.
- `WiiPairing`: the branch of `PmBtBsaifPassKey` that puts in a Wii Remote's PIN (`shim.c` 476-482) is no action: `handleScPasskeyInd` answers a Wii Remote before
  there is a dialog whose answer could come there, and without `real_passkey` neither answers.
- The hooks are installed. Each device has one right answer. The user removes a device or starts a pairing only while none is
  under way. The radio does not fail during a pairing.
- The OTG controller: the mode knob sets the mode and, for host, arms the port; an armed port follows the cable; a port
  that was never armed hangs on an OTG cable until a reboot, so no OTG cable is plugged into one. A reboot is
  not modelled.
- `write_status` is one step: it only looks at the hardware and the mount table, and what it missed is seen in the next round. `sleep` and logging are
  left out. `S_dev` is always probed before it is used.
- A mount fails or succeeds as a whole. A lazy unmount leaves open files in use.
- In `DevmonLifecycle` the test and the signal of `devmon_stop` (257-258) are one step, those of the sweep are two. The daemon dies only while every live monitor is named in the pid file, unless `CrashEarly`.
  A zombie is reaped by the shell before its next round.

- `HidParser`: an item has a value, not a width of one, two or four bytes, and Logical Minimum is signed as the code makes it.
  `FieldsSitWhereDeclared` claims nothing of a report outside the full table or longer than the range of offsets.
- `HidReports`: the framings are those the code and its comments know. A report id of 161 cannot be told from a header and is not
  among the ids; a report that is not in the descriptor means nothing.
- `Usbdevmon`: one pass over sysfs is one step, and a device is configured or not for all of it. Names are those of enumerations; a device that takes another's place on its port between two scans keeps
  its name in the table, as in the code, so the properties compare states, not names, of devices without a node.
- `Padkeys`: a Bluetooth report is byte 0 with its bits in two groups, the button byte and one other byte. What a byte 0
  holds before its bits change is unknown to the program, which takes it for 0 and so for LEFT (357): `Asked` counts what the program
  can know, and `Heard` leaves out a button byte that has not changed since the program started. A byte of 224 to 231 in place of the button or stick byte is a modifier to the stack and
  to `bt_key` alike and counts as one of the modifiers. Of the bytes from 240 on, those whose keycode `keycode_to_usage` finds are folded onto the lower
  one (243 onto 120, 244 onto 126); the others, which it does not find and `bt_key` drops, count as bytes without keycode. A pad that vanishes is one that sends nothing more: the keys it held stay down. There is room in the tables of pads, and in
  the kernel's queue of events (the guard of `Queue`; `Room` is any number). The assumptions on the keycode table are true of `hid_keyboard`: between 4 and
  223 it folds 49 and 50 onto one keycode, and 76 and 156, and nothing else.
- `BtWizard`: at least one frame in every second, so `held == 1` is never missed; a wizard that stalls for a second there starts no script
  and does not patch. Equal calls that wait in `btmonitor` count once, and from 18 on `held` matters modulo 6. `feed` and `resolve_batch`
  (208-271) are called by nothing. What is drawn is left out.
- `BcspLink`: bytes go both ways on the line, which the hardware did not let them (`BLUETOOTH-KERNEL.md` 67-100; section 5). A frame to the chip arrives whole, damaged or not at all, and damaged is lost to it; the chip's timer is far longer than
  a frame. The chip and the kernel are external.

## 10. Not modelled

Hook installation (`shim_init`, `got_patch`): it runs once, before any callback. The installers: planned below. The table of the Wii
Remote decoder, and `GetStatusAssistant`, which only reads: a lookup and a read without state. `USBDEVMON_GRAB` and `--btdump`, for diagnosis; the
loopback test and the setting up of UART and pty in the bridge, which end the program when they fail. Logging, constants, command line tools that issue one
`ioctl`, viewers, host tools and build scripts: no state that a property could be about.

## 11. Plan

The order was: first the shim's table (concurrent, in a process that must not crash), then the ladder, the pairing,
the daemon and the monitor's life; then the parser with the translation of reports, the monitor's list, `padkeys`, the wizard and the
bridge. These are done. What is left:

1. `Installer`: backup, regeneration and removal, interrupted at any command.
2. The panel's power latch and the buttons the status enables, composed with `UsbWatchd`.
3. Hook installation with a page that cannot be made writable: which of the three interposers may act without the others.
4. Proofs: abstract specifications of the daemon's mailbox and of the monitor's list, and their refinement; safety lemmas of `BtWizard`.
