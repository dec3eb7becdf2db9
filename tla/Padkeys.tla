------------------------------ MODULE Padkeys ------------------------------
(***************************************************************************)
(* gamepad-keys/padkeys.c: controllers to arrow keys and a few others on a *)
(* virtual keyboard.  USB pads send axes and buttons; a Bluetooth pad is   *)
(* seen through the keyboard parser of Palm's stack, which turns byte 0 of *)
(* its report into modifier keys and every other byte into the keycode of  *)
(* the usage it looks like, and padkeys reconstructs the report from them. *)
(*                                                                         *)
(* All pads share the state of the four directions, dirstate, and the      *)
(* Bluetooth pads that of their buttons, btn_prev.  Events wait in a queue *)
(* for each pad.  A Bluetooth report is abstracted to byte 0, of which the *)
(* bits that move together are one modifier, the button byte and one stick *)
(* byte.  External: the pads, the kernel and Palm's stack.                 *)
(***************************************************************************)
EXTENDS Integers, FiniteSetsExt, SequencesExt

CONSTANTS UsbPads,     \* the USB pads,
          Axes,        \*   the axes each of them has,
          Lo, Hi,      \*   the range of each axis,
          Positions,   \*   where it may be
          Buttons,     \*   and the button codes
          KeyOf,       \* the key of each button code (map_120, map_130)
          BtPads,      \* the Bluetooth pads
          Weight,      \* the modifiers of byte 0, with the value of their bits
          Byte0s,      \* sets of modifiers that byte 0 may consist of
          ButtonBytes, StickBytes,
          Keycode,     \* the stack's table from usages to keycodes, 0 for none
          Room         \* bound: unread events of each pad

Usages == DOMAIN Keycode
Rest   == 8                         \* the button byte of a pad at rest
HatByte(u) == u % 16 <= 8           \* the low nibble is a direction or none

ASSUME PadsAssumption ==
  /\ UsbPads \cap BtPads = {}
  /\ \A p \in UsbPads \cup BtPads : Room[p] \in Nat
ASSUME RangeAssumption ==
  \A p \in UsbPads : \A a \in Axes[p] :
    /\ a \in {"X", "Y", "HAT0X", "HAT0Y"}
    /\ Lo[a] \in Int /\ Hi[a] \in Int /\ Lo[a] < Hi[a] /\ Positions[a] \subseteq Int
(* The table begins at usage 4.  A byte of 224 to 231 is a modifier key of *)
(* byte 0 to the stack and to bt_key alike, and is one of a report's mods; *)
(* of those from 240 on the keycodes that keycode_to_usage does not find   *)
(* count as none.                                                          *)
ASSUME KeycodeAssumption ==
  /\ Usages \subseteq (0..255) \ (224..231) /\ Rest \in Usages
  /\ \A u \in Usages :
       /\ Keycode[u] \in Nat
       /\ (u < 4 => Keycode[u] = 0)
       /\ (u > 231 /\ Keycode[u] # 0 => \E w \in Usages : w < 224 /\ Keycode[w] = Keycode[u])
ASSUME ReportAssumption ==
  /\ ButtonBytes \subseteq Usages /\ \A u \in ButtonBytes : HatByte(u)
  /\ StickBytes \subseteq Usages
  /\ IsFiniteSet(DOMAIN Weight) /\ \A m \in Byte0s : m \subseteq DOMAIN Weight

FaceKeys == <<"enter", "esc", "x", "space">>
FaceBits == <<32, 64, 16, 128>>     \* Cross, Circle, Square, Triangle
DirKeys  == <<"left", "right", "up", "down">>

VARIABLES
  pos,       \* where each axis of a USB pad is
  held,      \* its buttons that are held
  report,    \* the report of a Bluetooth pad: its modifiers, button and stick byte
  early,     \* its keys that are down since before padkeys opened its device
  queue,     \* the unread events of each pad
  bt,        \* what padkeys has made of a Bluetooth pad (struct btpad)
  dirstate,  \* the directions that are on
  btn_prev,  \* the face buttons that are on
  down       \* the keys down on the virtual keyboard

physical == <<pos, held, report, early>>
vars == <<physical, queue, bt, dirstate, btn_prev, down>>

(* C's division, which truncates.                                          *)
Middle(a) == LET sum == Lo[a] + Hi[a] IN IF sum < 0 THEN -((-sum) \div 2) ELSE sum \div 2

(* The keys the stack's parser has down for a report.                      *)
Keys(r) == {Keycode[u] : u \in {r.button, r.stick}} \ {0}

Init ==
  /\ pos = [p \in UsbPads |-> [a \in Axes[p] |-> Middle(a)]]
  /\ held = [p \in UsbPads |-> {}]
  /\ report \in [BtPads -> {[mods |-> m, button |-> Rest, stick |-> s] :
                              m \in Byte0s, s \in StickBytes}]
  /\ early = [b \in BtPads |-> Keys(report[b])]
  /\ queue = [p \in UsbPads \cup BtPads |-> <<>>]
  /\ bt = [b \in BtPads |-> [mods |-> {}, usage |-> <<>>, prev |-> {}, bbyte |-> Rest]]
  /\ dirstate = [i \in 1..4 |-> FALSE]
  /\ btn_prev = [i \in 1..4 |-> FALSE]
  /\ down = {}

-----------------------------------------------------------------------------
(* The pads.  The kernel reports changes only.                             *)
Queue(p, events) ==
  /\ Len(queue[p]) + Len(events) <= Room[p]
  /\ queue' = [queue EXCEPT ![p] = @ \o events]
  /\ UNCHANGED <<bt, dirstate, btn_prev, down>>

MoveAxis(p, a, v) ==
  /\ a \in Axes[p] /\ v \in Positions[a] /\ v # pos[p][a]
  /\ pos' = [pos EXCEPT ![p][a] = v]
  /\ Queue(p, <<[type |-> "abs", code |-> a, value |-> v]>>)
  /\ UNCHANGED <<held, report, early>>

PressButton(p, c) ==
  /\ held' = [held EXCEPT ![p] = IF c \in @ THEN @ \ {c} ELSE @ \cup {c}]
  /\ Queue(p, <<[type |-> "key", code |-> c, value |-> IF c \in held[p] THEN 0 ELSE 1]>>)
  /\ UNCHANGED <<pos, report, early>>

(* The events with which the stack goes from one report to the next:       *)
(* modifiers, releases, presses.                                           *)
KeyEvents(codes, v) ==
  LET order == SetToSeq(codes)
  IN  [k \in DOMAIN order |-> [type |-> "key", code |-> order[k], value |-> v]]
ModEvents(mods, v) ==
  LET order == SetToSeq(mods)
  IN  [k \in DOMAIN order |-> [type |-> "mod", code |-> order[k], value |-> v]]

SendReport(b, r) ==
  /\ r # report[b]
  /\ report' = [report EXCEPT ![b] = r]
  /\ early' = [early EXCEPT ![b] = @ \cap Keys(r)]
  /\ Queue(b, ModEvents(r.mods \ report[b].mods, 1) \o ModEvents(report[b].mods \ r.mods, 0)
              \o KeyEvents(Keys(report[b]) \ Keys(r), 0)
              \o KeyEvents(Keys(r) \ Keys(report[b]), 1))
  /\ UNCHANGED <<pos, held>>

-----------------------------------------------------------------------------
(* setdir() and btn_state(): keys are sent when the state changes.         *)
Keyboard(dirs, btns, others) ==
  LET off == {DirKeys[i] : i \in {j \in 1..4 : dirstate[j] /\ ~dirs[j]}}
             \cup {FaceKeys[i] : i \in {j \in 1..4 : btn_prev[j] /\ ~btns[j]}}
      on  == {DirKeys[i] : i \in {j \in 1..4 : ~dirstate[j] /\ dirs[j]}}
             \cup {FaceKeys[i] : i \in {j \in 1..4 : ~btn_prev[j] /\ btns[j]}}
  IN  /\ dirstate' = dirs
      /\ btn_prev' = btns
      /\ down' = ((others \ off) \cup on)

(* axis_to_dirs(): an axis decides about both directions it stands for.    *)
Negative(a) == IF a \in {"X", "HAT0X"} THEN 1 ELSE 3
Dead(a) == LET d == (Hi[a] - Lo[a]) \div 4 IN IF d < 1 THEN 1 ELSE d

AxisToDirs(a, v) ==
  [dirstate EXCEPT ![Negative(a)]     = v < Middle(a) - Dead(a),
                   ![Negative(a) + 1] = v > Middle(a) + Dead(a)]

(* The loop of main handles a USB pad's events one by one.                 *)
UsbEvent(p) ==
  /\ queue[p] # <<>>
  /\ LET e == Head(queue[p])
     IN  IF e.type = "abs" THEN Keyboard(AxisToDirs(e.code, e.value), btn_prev, down)
         ELSE Keyboard(dirstate, btn_prev,
                       IF e.value = 0 THEN down \ {KeyOf[e.code]} ELSE down \cup {KeyOf[e.code]})
  /\ queue' = [queue EXCEPT ![p] = Tail(@)]
  /\ UNCHANGED <<physical, bt>>

(* keycode_to_usage(): the lowest usage with that keycode, as other usages *)
(* are folded onto it.                                                     *)
Usage(code) == CHOOSE u \in Usages : /\ Keycode[u] = code
                                     /\ \A w \in Usages : Keycode[w] = code => u <= w

(* The first place of u goes, and what follows moves up.                   *)
Without(s, u) ==
  IF Contains(s, u) THEN RemoveAt(s, Min({i \in DOMAIN s : s[i] = u})) ELSE s

(* bt_key(): one event into the reconstruction.                            *)
(* Mutant: what follows the usage that is released goes with it, as if     *)
(* nothing moved up.                                                       *)
BtKey_Truncates(b, e) ==
  IF e.type = "mod"
  THEN [b EXCEPT !.mods = IF e.value = 1 THEN @ \cup {e.code} ELSE @ \ {e.code}]
  ELSE LET u == Usage(e.code)
       IN  IF e.value = 0
           THEN [b EXCEPT !.usage = IF Contains(@, u)
                                    THEN SubSeq(@, 1, Min({i \in DOMAIN @ : @[i] = u}) - 1) ELSE @]
           ELSE IF Contains(b.usage, u) \/ Len(b.usage) >= 8 THEN b
           ELSE [b EXCEPT !.usage = Append(@, u)]

BtKey(b, e) ==
  IF e.type = "mod"
  THEN [b EXCEPT !.mods = IF e.value = 1 THEN @ \cup {e.code} ELSE @ \ {e.code}]
  ELSE LET u == Usage(e.code)
       IN  IF e.value = 0 THEN [b EXCEPT !.usage = Without(@, u)]
           ELSE IF Contains(b.usage, u) \/ Len(b.usage) >= 8 THEN b
           ELSE [b EXCEPT !.usage = Append(@, u)]

(* bt_apply(): which usage is the button byte.  The one tracked so far, a  *)
(* neutral hat, or a value that has just appeared with a legal hat.        *)
(* Mutant: a neutral hat is not preferred.                                 *)
Candidates_NoNeutral(b) ==
  LET fresh == {i \in DOMAIN b.usage : HatByte(b.usage[i]) /\ b.usage[i] \notin b.prev}
  IN  IF Contains(b.usage, b.bbyte) THEN <<b.bbyte>>
      ELSE IF fresh # {} THEN <<b.usage[Min(fresh)]>>
      ELSE <<>>

Candidates(b) ==
  LET neutral == {i \in DOMAIN b.usage : b.usage[i] % 16 = 8}
      fresh   == {i \in DOMAIN b.usage : HatByte(b.usage[i]) /\ b.usage[i] \notin b.prev}
  IN  IF Contains(b.usage, b.bbyte) THEN <<b.bbyte>>
      ELSE IF neutral # {} THEN <<b.usage[Min(neutral)]>>
      ELSE IF fresh # {} THEN <<b.usage[Min(fresh)]>>
      ELSE <<>>

HatDirs == <<{3}, {2, 3}, {2}, {2, 4}, {4}, {1, 4}, {1}, {1, 3}, {}>>

Value(mods) == MapThenSumSet(LAMBDA m : Weight[m], mods)

(* Byte 0 also asks for left or right if the hat asks for neither.         *)
BtDirs(mods, button) ==
  LET hat == IF button # <<>> /\ HatByte(button[1]) THEN HatDirs[(button[1] % 16) + 1] ELSE {}
      analog == IF hat \cap {1, 2} # {} THEN {}
                ELSE IF Value(mods) < 64 THEN {1}
                ELSE IF Value(mods) > 192 THEN {2} ELSE {}
  IN  hat \cup analog

Face(button) == [i \in 1..4 |-> (button \div FaceBits[i]) % 2 = 1]

(* A read takes some of the events, which may end in the middle of those   *)
(* of one report, and then applies what it has.                            *)
BtRead(p, n) ==
  /\ n \in 1..Len(queue[p])
  /\ LET after[k \in 0..n] == IF k = 0 THEN bt[p] ELSE BtKey(after[k - 1], queue[p][k])
         b      == after[n]
         button == Candidates(b)
         dirs   == BtDirs(b.mods, button)
     IN  /\ bt' = [bt EXCEPT ![p] = [b EXCEPT !.bbyte = IF button # <<>> THEN button[1] ELSE @,
                                              !.prev = ToSet(b.usage)]]
         /\ Keyboard([i \in 1..4 |-> i \in dirs],
                     IF button # <<>> THEN Face(button[1]) ELSE btn_prev, down)
  /\ queue' = [queue EXCEPT ![p] = SubSeq(@, n + 1, Len(@))]
  /\ UNCHANGED physical

Next ==
  \/ \E p \in UsbPads :
       \/ \E a \in Axes[p] : \E v \in Positions[a] : MoveAxis(p, a, v)
       \/ \E c \in Buttons[p] : PressButton(p, c)
       \/ UsbEvent(p)
  \/ \E p \in BtPads :
       \/ \E m \in Byte0s, u \in ButtonBytes, s \in StickBytes :
            SendReport(p, [mods |-> m, button |-> u, stick |-> s])
       \/ \E n \in 1..Room[p] : BtRead(p, n)

Spec == Init /\ [][Next]_vars

-----------------------------------------------------------------------------
Drained == \A p \in UsbPads \cup BtPads : queue[p] = <<>>

(* What a pad asks for.  A Bluetooth pad's byte 0 counts as padkeys knows  *)
(* it, which is zero until its bits change (memset, line 357), and of a    *)
(* button byte that has no keycode padkeys keeps the buttons before it.    *)
UsbAsks(p) ==
  {KeyOf[c] : c \in held[p]}
  \cup {DirKeys[Negative(a)] : a \in {x \in Axes[p] : pos[p][x] < Middle(x)}}
  \cup {DirKeys[Negative(a) + 1] : a \in {x \in Axes[p] : pos[p][x] > Middle(x)}}

Transmitted(u) == Keycode[u] # 0
BtAsks(p) ==
  LET r == report[p]
      known == IF Transmitted(r.button) THEN <<Usage(Keycode[r.button])>> ELSE <<>>
  IN  {DirKeys[i] : i \in BtDirs(bt[p].mods, known)}
      \cup IF known # <<>> THEN {FaceKeys[i] : i \in {j \in 1..4 : Face(known[1])[j]}}
           ELSE ToSet(FaceKeys)

Asked == UNION ({UsbAsks(p) : p \in UsbPads} \cup {BtAsks(p) : p \in BtPads})

(* What padkeys is told of a byte that is transmitted, the button byte it  *)
(* has been told of since it started, and a pad whose d-pad is let go and  *)
(* whose stick does not look like a button byte.                           *)
Told(u) == Usage(Keycode[u])
Heard(p) == Transmitted(report[p].button) /\ Keycode[report[p].button] \notin early[p]
AtRest(p) ==
  LET r == report[p]
  IN  /\ Heard(p) /\ Told(r.button) % 16 = 8
      /\ ~(Transmitted(r.stick) /\ HatByte(Told(r.stick)))

(* When all events are handled and the Bluetooth pads are at rest, face    *)
(* buttons held or not, no key is down that no pad asks for.  A key that   *)
(* stays down repeats for ever.  On the way there, stick bytes may have    *)
(* been taken for the button byte, reads may have ended inside a report,   *)
(* sticks of USB pads may have gone from one end to the other, and all     *)
(* pads share the directions and buttons; a USB pad need not be at rest.   *)
GhostsEndAtRest ==
  Drained /\ (\A p \in BtPads : AtRest(p)) => down \subseteq Asked

(* The same without the rest, which the comment in bt_apply, lines 262 to  *)
(* 267, promises of sticks that look like a button byte and of d-pad       *)
(* presses: once padkeys has been told of every button byte, no key is     *)
(* down that no pad asks for.  The code does not keep it: the byte of a    *)
(* stick that arrives with that of a d-pad press may be taken for it.      *)
NoGhostKeys ==
  Drained /\ (\A p \in BtPads : Heard(p)) => down \subseteq Asked

(* Once everything is read, the reconstruction holds exactly the bytes of  *)
(* the report that have a keycode, as what they are folded onto, without   *)
(* those that have not changed since padkeys started; none is lost or kept *)
(* by the releases and presses, in whatever pieces they are read.          *)
UsagesTrackReport ==
  Drained =>
    \A p \in BtPads : ToSet(bt[p].usage) = {Usage(k) : k \in Keys(report[p]) \ early[p]}
=============================================================================
