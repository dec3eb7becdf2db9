----------------------------- MODULE Usbdevmon -----------------------------
(***************************************************************************)
(* usb-settings/.../usbdevmon.c: the monitor that lists the connected      *)
(* devices while the settings panel is open.  It keeps a table of the      *)
(* input nodes it has open and one of the USB devices that have no input   *)
(* node yet, and writes both, with what state each device is in, to the    *)
(* file the panel reads.                                                   *)
(*                                                                         *)
(* A device is the number of its enumeration: a device that is plugged in  *)
(* or reset gets a new number, on whatever port and with whatever event    *)
(* index are free, so that ports and indices are reused at once.  Time is  *)
(* counted in passes of the poll timeout, and every "last" or "first" time *)
(* is an age that stops at the first value that makes no more difference.  *)
(***************************************************************************)
EXTENDS Integers, FiniteSetsExt, SequencesExt

CONSTANTS Ports,         \* of the USB bus ("1-1", ...)
          Idx,           \* the /dev/input/eventN that are probed
          Builtin,       \*   and those of the tablet's own keys
          MaxDevs,       \* bound: enumerations
          Kinds,         \* "hid", "storage", "other"
          MaxEvents,     \* bound: times an input device is used, or
                         \*   /media/internal is taken away
          MAXIN, MAXNP,  \* room in the tables
          Rescan, Active, Connecting, Refresh,  \* the periods of the code
          Stale          \* the file is ignored at this age

ASSUME SizesAssumption ==
  /\ {MAXIN, MAXNP, Rescan, Active, Connecting, Refresh, Stale} \subseteq Nat \ {0}
  /\ {MaxDevs, MaxEvents} \subseteq Nat
ASSUME IndexAssumption == Builtin \subseteq Idx /\ Idx \subseteq Nat
ASSUME RefreshAssumption == Refresh + 1 < Stale

NoDev == [n |-> 0, node |-> -1]
NoNode == -1

VARIABLES
  usb,       \* the device on each port
  plugged,   \* how many enumerations there have been
  events,
  media,     \* whether /media/internal can be written
  in,        \* the table of open input nodes
  np,        \* the table of devices without one
  pc,        \* where the loop of main is
  scanage,   \* the age of last_scan,
  writeage,  \*   of last_write
  fileage,   \*   and of the file
  last_out,  \* the last list made
  file       \* the list in the file

world   == <<usb, plugged, events, media>>
monitor == <<in, np, pc, scanage, writeage, last_out>>
vars    == <<world, monitor, fileage, file>>

Plugged  == {p \in Ports : usb[p] # NoDev}
HasInput(p) == usb[p] # NoDev /\ usb[p].node # NoNode
Alive(n) == \E p \in Ports : HasInput(p) /\ usb[p].n = n
Indices  == {usb[p].node : p \in {q \in Ports : HasInput(q)}}
Sum1(age, cap) == IF age < cap THEN age + 1 ELSE age

Init == /\ usb = [p \in Ports |-> NoDev]
        /\ plugged = 0 /\ events = 0
        /\ media = TRUE
        /\ in = <<>> /\ np = <<>>
        /\ pc = "scan_input"
        /\ scanage = Rescan /\ writeage = Refresh /\ fileage = Stale
        /\ last_out = <<>> /\ file = <<>>

-----------------------------------------------------------------------------
(* The world: devices come, are configured if their power draw is allowed, *)
(* get an input node if a driver binds them, are used and go.              *)
Plug(p, kind) ==
  /\ usb[p] = NoDev /\ plugged < MaxDevs
  /\ plugged' = plugged + 1
  /\ \E conf \in BOOLEAN :
       usb' = [usb EXCEPT ![p] = [n |-> plugged + 1, kind |-> kind,
                                  configured |-> conf, node |-> NoNode]]
  /\ UNCHANGED <<events, media, monitor, fileage, file>>

Configure(p) ==
  /\ usb[p] # NoDev /\ ~usb[p].configured
  /\ usb' = [usb EXCEPT ![p].configured = TRUE]
  /\ UNCHANGED <<plugged, events, media, monitor, fileage, file>>

(* The kernel takes the lowest free index.                                 *)
Bind(p) ==
  /\ usb[p] # NoDev /\ usb[p].configured /\ usb[p].kind = "hid" /\ usb[p].node = NoNode
  /\ LET free == Idx \ (Builtin \cup Indices)
     IN  free # {} /\ usb' = [usb EXCEPT ![p].node = Min(free)]
  /\ UNCHANGED <<plugged, events, media, monitor, fileage, file>>

Unplug(p) ==
  /\ usb[p] # NoDev
  /\ usb' = [usb EXCEPT ![p] = NoDev]
  /\ UNCHANGED <<plugged, events, media, monitor, fileage, file>>

(* Events are queued for whoever has the node open.                        *)
Press(p) ==
  /\ HasInput(p) /\ events < MaxEvents
  /\ events' = events + 1
  /\ in' = [k \in DOMAIN in |-> IF in[k].n = usb[p].n THEN [in[k] EXCEPT !.unread = TRUE]
                                ELSE in[k]]
  /\ UNCHANGED <<usb, plugged, media, np, pc, scanage, writeage, last_out, fileage, file>>

(* In USB drive mode /media/internal belongs to the PC.                    *)
MediaAway ==
  /\ media /\ events < MaxEvents
  /\ media' = FALSE /\ events' = events + 1
  /\ UNCHANGED <<usb, plugged, monitor, fileage, file>>

MediaBack ==
  /\ ~media
  /\ media' = TRUE
  /\ UNCHANGED <<usb, plugged, events, monitor, fileage, file>>

-----------------------------------------------------------------------------
(* The loop of main: after each pass it rescans if it is time to.  The     *)
(* scans before the loop leave scanage at Rescan, so that it begins with   *)
(* another.                                                                *)
Top == IF scanage >= Rescan THEN scanage' = 0 /\ pc' = "probe"
       ELSE pc' = "poll" /\ UNCHANGED scanage

(* A read tells a removed device from an idle one, and whatever it returns *)
(* counts as activity.                                                     *)
(* Mutant: a node is probed by its name only.                              *)
Probe_ByName ==
  /\ pc = "probe"
  /\ in' = SelectSeq(in, LAMBDA e : e.idx \in Indices)
  /\ pc' = "scan_input"
  /\ UNCHANGED <<world, np, scanage, writeage, last_out, fileage, file>>

(* Mutant: what the probe has read is thrown away.                         *)
Probe_Discards ==
  /\ pc = "probe"
  /\ LET kept == SelectSeq(in, LAMBDA e : Alive(e.n))
     IN  in' = [k \in DOMAIN kept |-> [kept[k] EXCEPT !.unread = FALSE]]
  /\ pc' = "scan_input"
  /\ UNCHANGED <<world, np, scanage, writeage, last_out, fileage, file>>

Probe ==
  /\ pc = "probe"
  /\ LET kept == SelectSeq(in, LAMBDA e : Alive(e.n))
     IN  in' = [k \in DOMAIN kept |->
                 IF kept[k].unread THEN [kept[k] EXCEPT !.unread = FALSE, !.act = 0]
                 ELSE kept[k]]
  /\ pc' = "scan_input"
  /\ UNCHANGED <<world, np, scanage, writeage, last_out, fileage, file>>

(* Opens the nodes it does not hold, in the order of their indices, while  *)
(* there is room.  An index it holds is skipped, whoever has it now.       *)
ScanInput ==
  /\ pc = "scan_input"
  /\ LET held  == {in[k].idx : k \in DOMAIN in}
         found == {p \in Ports : HasInput(p) /\ usb[p].node \notin held}
         order == SetToSortSeq(found, LAMBDA p, q : usb[p].node < usb[q].node)
         room  == MAXIN - Len(in)
         taken == IF Len(order) <= room THEN order ELSE SubSeq(order, 1, room)
     IN  in' = in \o [k \in DOMAIN taken |->
                        [idx |-> usb[taken[k]].node, n |-> usb[taken[k]].n,
                         unread |-> FALSE, act |-> Active]]
  /\ pc' = "scan_usb_pending"
  /\ UNCHANGED <<world, np, scanage, writeage, last_out, fileage, file>>

(* What one readdir of /sys/bus/usb/devices updates.  An entry is its      *)
(* port's: a device that takes another's place between two scans keeps its *)
(* name and first_seen.  Only a configured device has interfaces, and so a *)
(* class.                                                                  *)
Pending(p) == usb[p] # NoDev /\ usb[p].node = NoNode

HasClass(p, kind) == usb[p].configured /\ usb[p].kind = kind

Refreshed(e) == [e EXCEPT !.configured = usb[e.port].configured,
                          !.is_hid = HasClass(e.port, "hid"),
                          !.is_storage = HasClass(e.port, "storage")]

ScanUsb ==
  /\ pc = "scan_usb_pending"
  /\ LET held  == {np[k].port : k \in DOMAIN np}
         found == {p \in Ports : Pending(p) /\ p \notin held}
         room  == MAXNP - Len(np)
         kept  == SelectSeq(np, LAMBDA e : Pending(e.port))
     IN  \E order \in SetToSeqs(found) :
           LET taken == IF Len(order) <= room THEN order ELSE SubSeq(order, 1, room)
               new   == [k \in DOMAIN taken |->
                          [port |-> taken[k], name |-> usb[taken[k]].n, age |-> 0,
                           configured |-> FALSE, is_hid |-> FALSE, is_storage |-> FALSE]]
               all   == kept \o new
           IN  np' = [k \in DOMAIN all |-> Refreshed(all[k])]
  /\ Top
  /\ UNCHANGED <<world, in, writeage, last_out, fileage, file>>

(* poll() returns at once when a node has something to read or is gone,    *)
(* and after POLL_MS otherwise.  A node that is gone and has something to  *)
(* read is read in vain, and stays until the next probe.                   *)
Readable(e) == e.unread
Gone(e) == ~Alive(e.n) /\ ~e.unread

Poll(d) ==
  /\ pc = "poll"
  /\ d = 0 => \E k \in DOMAIN in : Readable(in[k]) \/ Gone(in[k])
  /\ LET kept == SelectSeq(in, LAMBDA e : ~Gone(e))
     IN  in' = [k \in DOMAIN kept |->
                 IF Readable(kept[k]) /\ Alive(kept[k].n)
                 THEN [kept[k] EXCEPT !.unread = FALSE, !.act = 0]
                 ELSE IF d = 1 THEN [kept[k] EXCEPT !.act = Sum1(@, Active)] ELSE kept[k]]
  /\ np' = IF d = 1 THEN [k \in DOMAIN np |-> [np[k] EXCEPT !.age = Sum1(@, Connecting)]] ELSE np
  /\ scanage' = IF d = 1 THEN Sum1(scanage, Rescan) ELSE scanage
  /\ writeage' = IF d = 1 THEN Sum1(writeage, Refresh) ELSE writeage
  /\ fileage' = IF d = 1 THEN Sum1(fileage, Stale) ELSE fileage
  /\ pc' = "write_devices"
  /\ UNCHANGED <<world, last_out, file>>

(* write_devices().                                                        *)
State(e) ==
  IF ~e.configured THEN "needspower"
  ELSE IF e.is_storage THEN "ok"
  ELSE IF e.age < Connecting THEN "connecting"
  ELSE IF e.is_hid THEN "noinput"
  ELSE "ok"

List ==
  [k \in DOMAIN in |-> [name |-> in[k].n, type |-> "input", state |-> "ok",
                        active |-> in[k].act < Active]]
  \o [k \in DOMAIN np |-> [name |-> np[k].name,
                           type |-> IF np[k].is_storage THEN "storage" ELSE "generic",
                           state |-> State(np[k]), active |-> FALSE]]

WriteDevices ==
  /\ pc = "write_devices"
  /\ IF List = last_out /\ writeage < Refresh
     THEN UNCHANGED <<last_out, writeage, file, fileage>>
     ELSE /\ last_out' = List
          /\ writeage' = 0
          /\ IF media THEN file' = List /\ fileage' = 0 ELSE UNCHANGED <<file, fileage>>
  /\ Top
  /\ UNCHANGED <<world, in, np>>

Main == Probe \/ ScanInput \/ ScanUsb \/ Poll(0) \/ Poll(1) \/ WriteDevices

Next ==
  \/ \E p \in Ports : \/ \E kind \in Kinds : Plug(p, kind)
                      \/ Configure(p) \/ Bind(p) \/ Unplug(p) \/ Press(p)
  \/ MediaAway \/ MediaBack
  \/ Main

(* The monitor is a process that keeps running, time passes however often  *)
(* poll() returns at once, and the PC gives /media/internal back.          *)
Spec == /\ Init /\ [][Next]_vars
        /\ WF_vars(Main) /\ SF_vars(Poll(1)) /\ WF_vars(MediaBack)

-----------------------------------------------------------------------------
Shown == {file[k] : k \in DOMAIN file}

(* What the panel should show: the input devices, and the others with what *)
(* they lack.  One that is not configured does not tell what it is.        *)
InputDevices == {usb[p].n : p \in {q \in Ports : HasInput(q)}}
StateOf(p) ==
  IF ~usb[p].configured THEN "needspower"
  ELSE IF usb[p].kind = "hid" THEN "noinput"
  ELSE "ok"
TypeOf(p) == IF usb[p].configured /\ usb[p].kind = "storage" THEN "storage" ELSE "generic"
PendingStates == {[type |-> TypeOf(p),
                   state |-> StateOf(p)] : p \in {q \in Ports : Pending(q)}}

ListTrue ==
  /\ fileage < Stale
  /\ LET ins  == {e \in Shown : e.type = "input"}
         pend == Shown \ ins
     IN  /\ {e.name : e \in ins} \subseteq InputDevices
         /\ Cardinality(ins) = Min({MAXIN, Cardinality(InputDevices)})
         /\ {[type |-> e.type, state |-> e.state] : e \in pend} \subseteq PendingStates
         /\ Cardinality({p \in Ports : Pending(p)}) <= MAXNP =>
              PendingStates = {[type |-> e.type, state |-> e.state] : e \in pend}

(* Once devices stop coming and going, the list settles on what is there:  *)
(* through reused ports and indices, full tables, writes that failed and   *)
(* nodes that died with something to read, and it stays fresh.  The        *)
(* comments at 353-356 and 396-403 tell of the lists that did not.         *)
ListSettles == <>[]ListTrue

(* What an input device that is listed sends lights it up, unless it goes  *)
(* or the file cannot be written: whether the loop or the probe of a       *)
(* rescan reads it.  A light that stays off tells the user that the pad is *)
(* wedged.                                                                 *)
PressShown ==
  \A n \in 1..MaxDevs :
    (\E k \in DOMAIN in : in[k].n = n /\ in[k].unread)
      ~> \/ \E e \in Shown : e.name = n /\ e.active
         \/ ~Alive(n) \/ ~media
=============================================================================
