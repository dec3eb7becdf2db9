------------------------------ MODULE BtWizard ------------------------------
(***************************************************************************)
(* bt-wizard/btwizard.c: the application that takes the screen, pairs a    *)
(* Bluetooth pad with btpair.sh, patches the record the stack has made of  *)
(* it, cycles the radio so that the stack loads the record, asks for the   *)
(* PS button, and reads the pad until it goes.                             *)
(*                                                                         *)
(* The main loop draws many frames in a second and decides by held, the    *)
(* seconds since the state was entered, what to do; a call to luna() stops *)
(* it for two seconds in the middle of a frame.  From 18 on, held matters  *)
(* only modulo 6 and is kept below 24.  External: btmonitor, which may     *)
(* lose a radioon, the stack, the pad and its user.                        *)
(***************************************************************************)
EXTENDS Integers, FiniteSetsExt, SequencesExt

CONSTANTS PairSeconds,   \* PAIRING lasts this long at most (55)
          MaxFrames,     \* bound: frames in a second
          MaxLost,       \* bound: radioons that are lost
          MaxDeaths,     \* bound: deaths of the radio by itself
          MaxNodes,      \* bound: input nodes the stack makes
          Buttons,       \* button bytes of the pad,
          Sticks,        \*   and values of another byte of its report
          Keycode        \* of the bytes that look like a button byte (kc2byte)

ASSUME BoundsAssumption == {MaxLost, MaxDeaths, MaxNodes} \subseteq Nat
                           /\ {PairSeconds, MaxFrames} \subseteq Nat \ {0}
ASSUME BytesAssumption == Buttons \cup Sticks \subseteq 0..255 /\ 0 \notin DOMAIN Keycode

Rest == 8

VARIABLES
  state, held,
  frames,    \* frames drawn in this second
  h,         \* held at the beginning of a frame that has called luna(), or -1
  requests,  \* calls on their way to btmonitor
  radio,     \* whether the stack runs
  loaded,    \* the subclass of the record it read when it started
  hid,       \* the subclass in /var/hid.j: 0 for no record, 8, or 64 when patched
  scripts,   \* instances of btpair.sh that have not connected yet
  connects,  \* history: profconnects that were made
  node,      \* the pad's input node, 0 for none
  made,      \* how many the stack has made
  btfd,      \* the node the wizard has open
  report,    \* the pad's button byte and the other byte
  bbyte,     \* the button byte as decoded
  lost, deaths

clock  == <<state, held, frames, h>>
stack  == <<requests, radio, loaded, hid, scripts, connects, node, made, lost, deaths>>
vars   == <<clock, stack, btfd, report, bbyte>>

Init ==
  /\ hid \in {0, 8, 64}
  /\ state \in {"INTRO"} \cup IF hid # 0 THEN {"PREPARE"} ELSE {}
  /\ held = 0 /\ frames = 0 /\ h = -1
  /\ radio \in BOOLEAN
  /\ loaded = IF radio THEN hid ELSE 0
  /\ requests = <<>> /\ scripts = 0 /\ connects = 0
  /\ node = 0 /\ made = 0 /\ btfd = 0
  /\ report = [button |-> Rest, stick |-> CHOOSE s \in Sticks : TRUE]
  /\ bbyte = Rest
  /\ lost = 0 /\ deaths = 0

-----------------------------------------------------------------------------
(* The stack, its monitor and the pad.                                     *)
RadioOff ==
  /\ requests # <<>> /\ Head(requests) = "radiooff"
  /\ requests' = Tail(requests)
  /\ radio' = FALSE /\ node' = 0 /\ loaded' = 0
  /\ UNCHANGED <<clock, hid, scripts, connects, made, lost, deaths, btfd, report, bbyte>>

RadioOn ==
  /\ requests # <<>> /\ Head(requests) = "radioon"
  /\ requests' = Tail(requests)
  /\ radio' = TRUE
  /\ loaded' = IF radio THEN loaded ELSE hid
  /\ UNCHANGED <<clock, hid, scripts, connects, node, made, lost, deaths, btfd, report, bbyte>>

(* "Message status unknown": btmonitor was not ready yet.                  *)
LoseRadioOn ==
  /\ requests # <<>> /\ Head(requests) = "radioon" /\ lost < MaxLost
  /\ requests' = Tail(requests)
  /\ lost' = lost + 1
  /\ UNCHANGED <<clock, radio, loaded, hid, scripts, connects, node, made, deaths,
                 btfd, report, bbyte>>

RadioDies ==
  /\ radio /\ deaths < MaxDeaths
  /\ radio' = FALSE /\ node' = 0 /\ loaded' = 0
  /\ deaths' = deaths + 1
  /\ UNCHANGED <<clock, requests, hid, scripts, connects, made, lost, btfd, report, bbyte>>

(* The last command of btpair.sh.  A connect that succeeds writes the      *)
(* record and makes a node.  The script is over before PAIRING is.         *)
ProfConnect(ok) ==
  /\ scripts > 0 /\ state = "PAIRING"
  /\ ok => radio /\ node = 0 /\ made < MaxNodes
  /\ scripts' = scripts - 1
  /\ connects' = connects + 1
  /\ hid' = IF ok THEN 8 ELSE hid
  /\ node' = IF ok THEN made + 1 ELSE node
  /\ made' = IF ok THEN made + 1 ELSE made
  /\ UNCHANGED <<clock, requests, radio, loaded, lost, deaths, btfd, report, bbyte>>

(* The PS button, when the stack has a record; the stack makes a new node  *)
(* for every connection.                                                   *)
PressPS ==
  /\ radio /\ loaded # 0 /\ node = 0 /\ made < MaxNodes
  /\ node' = made + 1 /\ made' = made + 1
  /\ UNCHANGED <<clock, requests, radio, loaded, hid, scripts, connects, lost, deaths,
                 btfd, report, bbyte>>

PadGoes ==
  /\ node # 0
  /\ node' = 0
  /\ UNCHANGED <<clock, requests, radio, loaded, hid, scripts, connects, made, lost, deaths,
                 btfd, report, bbyte>>

UsePad ==
  /\ state = "RUN"
  /\ report' \in [button : Buttons, stick : Sticks]
  /\ UNCHANGED <<clock, stack, btfd, bbyte>>

-----------------------------------------------------------------------------
(* The clock.  At least one frame is drawn in every second.                *)
Wrap(s) == IF s < 24 THEN s ELSE 18 + ((s - 18) % 6)

Tick ==
  /\ h = -1 /\ frames > 0
  /\ held' = Wrap(held + 1)
  /\ frames' = 0
  /\ UNCHANGED <<state, h, stack, btfd, report, bbyte>>

Timed == state \in {"INTRO", "PAIRMODE", "PAIRING", "PREPARE"}
Drawn == /\ h = -1 /\ frames < MaxFrames
         /\ frames' = IF Timed THEN frames + 1 ELSE 0

Enter(s) == state' = s /\ held' = 0 /\ frames' = 0 /\ h' = -1
Stay     == UNCHANGED <<state, held, h>>
(* luna(): the call is made and the frame goes on two seconds later.  Equal *)
(* calls that wait for btmonitor count once, which bounds the requests.    *)
Luna(call) ==
  /\ requests' = IF requests # <<>> /\ Last(requests) = call THEN requests
                 ELSE Append(requests, call)
  /\ h' = held /\ frames' = 0
  /\ UNCHANGED <<state, held>>

Present == node # 0

Intro ==
  /\ state = "INTRO" /\ h = -1
  /\ IF held >= 2 THEN Luna("radioon")
     ELSE Drawn /\ Stay /\ UNCHANGED requests
  /\ UNCHANGED <<radio, loaded, hid, scripts, connects, node, made, lost, deaths,
                 btfd, report, bbyte>>

PairMode ==
  /\ state = "PAIRMODE" /\ h = -1
  /\ IF held >= 6 THEN Enter("PAIRING") ELSE Drawn /\ Stay
  /\ UNCHANGED <<stack, btfd, report, bbyte>>

(* The script is started by every frame of the second second.              *)
Pairing ==
  /\ state = "PAIRING" /\ h = -1
  /\ scripts' = IF held = 1 THEN scripts + 1 ELSE scripts
  /\ IF held >= PairSeconds \/ Present THEN Enter("PREPARE") ELSE Drawn /\ Stay
  /\ UNCHANGED <<requests, radio, loaded, hid, connects, node, made, lost, deaths,
                 btfd, report, bbyte>>

Patched == IF hid = 8 THEN 64 ELSE hid

(* Mutant: radioon is sent once only.                                      *)
RadioOnDue_Once == held = 6

RadioOnDue == held = 6 \/ (held > 6 /\ held % 6 = 0 /\ ~radio)

Ready(s) == s >= 18 /\ radio

Prepare ==
  /\ state = "PREPARE" /\ h = -1
  /\ hid' = IF held = 1 THEN Patched ELSE hid
  /\ IF held = 1 THEN Luna("radiooff")
     ELSE IF RadioOnDue THEN Luna("radioon")
     ELSE /\ UNCHANGED requests
          /\ IF Ready(held) THEN Enter("PRESSPS") ELSE Drawn /\ Stay
  /\ UNCHANGED <<radio, loaded, scripts, connects, node, made, lost, deaths,
                 btfd, report, bbyte>>

(* The keys that are down, as the kernel knows them.  The stack drops the  *)
(* reports of a pad whose record it has not loaded with the patch.         *)
Looks(u) == u \in DOMAIN Keycode
Keys == IF loaded = 64 THEN {u \in {report.button, report.stick} : Looks(u)} ELSE {}

(* grab_pad(): the last of the keys that are down.                         *)
Synced == IF Keys = {} THEN Rest
          ELSE CHOOSE u \in Keys : \A w \in Keys : Keycode[w] <= Keycode[u]

Grab ==
  IF Present
  THEN btfd' = node /\ bbyte' = Synced /\ Enter("RUN")
  ELSE h' = -1 /\ UNCHANGED <<state, held, frames, btfd, bbyte>>

(* Every 180th frame looks after the radio.                                *)
PressPSScreen(every180) ==
  /\ state = "PRESSPS" /\ h = -1
  /\ IF every180 /\ ~radio
     THEN Luna("radioon") /\ UNCHANGED <<btfd, bbyte>>
     ELSE Grab /\ UNCHANGED requests
  /\ UNCHANGED <<radio, loaded, hid, scripts, connects, node, made, lost, deaths, report>>

(* The rest of a frame that has called luna().                             *)
AfterLuna ==
  /\ h # -1
  /\ CASE state = "INTRO"   -> Enter("PAIRMODE") /\ UNCHANGED <<btfd, bbyte>>
       [] state = "PREPARE" ->
            /\ IF Ready(h) THEN Enter("PRESSPS")
               ELSE held' = Wrap(h + 2) /\ h' = -1 /\ frames' = 0 /\ UNCHANGED state
            /\ UNCHANGED <<btfd, bbyte>>
       [] state = "PRESSPS" -> Grab
  /\ UNCHANGED <<stack, report>>

Bits(u, v) == Cardinality({i \in 0..7 : (u \div 2^i) % 2 # (v \div 2^i) % 2})

(* The poll: the key nearest to what was decoded last, the lowest keycode  *)
(* of those, and d-pad UP (0) if there is none.                            *)
(* Mutant: without a key the last byte is kept.                            *)
Decoded_Latched ==
  IF Keys = {} THEN bbyte
  ELSE CHOOSE u \in Keys : \A w \in Keys : Bits(u, bbyte) <= Bits(w, bbyte)

Decoded ==
  IF Keys = {} THEN 0
  ELSE CHOOSE u \in Keys :
         \A w \in Keys : \/ Bits(u, bbyte) < Bits(w, bbyte)
                         \/ Bits(u, bbyte) = Bits(w, bbyte) /\ Keycode[u] <= Keycode[w]

(* A node that is gone answers neither the poll nor the read.              *)
(* Mutant: the read is looked at only if the pad has gone.                 *)
Run_ByName ==
  /\ state = "RUN" /\ h = -1
  /\ IF btfd = node THEN bbyte' = Decoded /\ UNCHANGED <<clock, btfd>>
     ELSE IF node = 0 THEN Enter("PRESSPS") /\ btfd' = 0 /\ UNCHANGED bbyte
     ELSE UNCHANGED <<clock, btfd, bbyte>>
  /\ UNCHANGED <<stack, report>>

Run ==
  /\ state = "RUN" /\ h = -1
  /\ IF btfd = node THEN bbyte' = Decoded /\ UNCHANGED <<clock, btfd>>
     ELSE Enter("PRESSPS") /\ btfd' = 0 /\ UNCHANGED bbyte
  /\ UNCHANGED <<stack, report>>

Frame == Intro \/ PairMode \/ Pairing \/ Prepare
         \/ PressPSScreen(FALSE) \/ PressPSScreen(TRUE) \/ Run

Stack == RadioOff \/ RadioOn \/ LoseRadioOn

Next ==
  \/ Frame \/ AfterLuna \/ Tick
  \/ Stack \/ RadioDies
  \/ \E ok \in BOOLEAN : ProfConnect(ok)
  \/ PressPS \/ PadGoes \/ UsePad

(* The loop and the clock go on, every 180th frame comes, btmonitor takes  *)
(* its calls, and a script comes to its end.                               *)
Spec == /\ Init /\ [][Next]_vars
        /\ WF_vars(Frame) /\ WF_vars(AfterLuna) /\ WF_vars(Tick)
        /\ SF_vars(PressPSScreen(TRUE))
        /\ WF_vars(Stack)

-----------------------------------------------------------------------------
(* A record patched in PREPARE is loaded by the stack in the end, although *)
(* the radio is switched off and on by calls that come late or are lost.   *)
(* Without it the stack drops every report of the pad.                     *)
PatchTakesEffect ==
  (state = "PREPARE" /\ held > 1 /\ hid = 64) ~> (radio /\ loaded = 64)

(* However often the pad goes and the stack makes it a new node, the       *)
(* wizard ends up with the present one open: a descriptor of an old node   *)
(* is silent and its grab is void (17-19).                                 *)
GrabFollows == <>[](node # 0 => btfd = node)

Reading == state = "RUN" /\ btfd = node /\ loaded = 64

(* What was decoded before does not last: the display comes to the pad's   *)
(* button byte, d-pad UP included, as long as no other byte of the report  *)
(* looks like a button byte.                                               *)
PollRecovers ==
  \A b \in Buttons :
    (Reading /\ report.button = b /\ ~Looks(report.stick))
      ~> (bbyte = b \/ ~(Reading /\ report.button = b /\ ~Looks(report.stick)))

(* btpair.sh says it is one pairing pass and must not be looped, because a *)
(* connect that fails uses up one of seven sub-instances for good.         *)
OnePass == connects + scripts <= 1

(* The comment at 486-490: polling cannot get stuck, whatever a frame      *)
(* misses.                                                                 *)
PollTellsTruth ==
  \A b \in Buttons :
    (Reading /\ report.button = b) ~> (bbyte = b \/ ~(Reading /\ report.button = b))
=============================================================================
