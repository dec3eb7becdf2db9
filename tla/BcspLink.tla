------------------------------ MODULE BcspLink ------------------------------
(***************************************************************************)
(* btbridge of bt-bridge/btbridge.c: the BCSP link establishment on the    *)
(* Bluetooth UART (send_le, le_feed, bcsp_link_establish) and the relay    *)
(* between the UART and the kernel's hci_bcsp on a pty (main).             *)
(*                                                                         *)
(* The line from the chip is a sequence of bytes, read in pieces of any    *)
(* length, because the program reads it with a decoder of its own; the     *)
(* line to the chip is a sequence of frames, each of which is delivered    *)
(* whole or lost.  The chip and the kernel are external: the chip follows  *)
(* the BCSP link establishment (shy, curious, garrulous) and the kernel    *)
(* only answers a CONF (btbridge.c:66-67).                                 *)
(***************************************************************************)
EXTENDS Integers, SequencesExt

CONSTANTS UseCrc,                  \* --nocrc is not given
          Timeout,                 \* ticks of the handshake: letmo * 10
          BufSize,                 \* le_feed's buffer
          MaxLost,                 \* bound: bytes and frames lost on the line
          MaxMissing,              \* bound: bytes missing from one frame of the chip
          Piece                    \* bound: a read returns all there is or a multiple of this

ASSUME BoundsAssumption ==
  /\ UseCrc \in BOOLEAN
  /\ {Timeout, BufSize, MaxLost, MaxMissing} \subseteq Nat /\ Piece \in Nat \ {0}

END == 192
ESC == 219
Payloads == [sync      |-> <<218, 220, 237, 237>>,
             sync_resp |-> <<172, 175, 239, 238>>,
             conf      |-> <<173, 239, 172, 237>>,
             conf_resp |-> <<222, 173, 208, 208>>,
             data      |-> <<192, 219, 14, 4>>]    \* any other packet of four bytes
Packets == DOMAIN Payloads

-----------------------------------------------------------------------------
(* A 16-bit number as the set of its bits, and the byte that has given ones. *)
Weight == <<1, 2, 4, 8, 16, 32, 64, 128, 256, 512, 1024, 2048, 4096, 8192, 16384, 32768>>
Bits(x) == {n \in 0..15 : (x \div Weight[n + 1]) % 2 = 1}
Byte(B) == CHOOSE x \in 0..255 : Bits(x) = B
Xor(A, B) == (A \cup B) \ (A \cap B)

(* slip_put(), crc_update(), bitrev16() and send_le().                     *)
SlipPut(out, b) ==
  out \o (IF b = END THEN <<ESC, 220>> ELSE IF b = ESC THEN <<ESC, 221>> ELSE <<b>>)

CrcTable ==
  <<0, 4225, 8450, 12675, 16900, 21125, 25350, 29575,
    33800, 38025, 42250, 46475, 50700, 54925, 59150, 63375>>

CrcNibble(reg, x) ==
  Xor({n - 4 : n \in reg \ 0..3}, Bits(CrcTable[Byte(Xor(reg, Bits(x)) \cap 0..3) + 1]))

CrcUpdate(crc, d) == CrcNibble(CrcNibble(crc, d), d \div 16)

Crc(bytes) ==
  LET crc[n \in 0..Len(bytes)] ==
        IF n = 0 THEN 0..15 ELSE CrcUpdate(crc[n - 1], bytes[n])
  IN  crc[Len(bytes)]

(* Mutant: the CRC goes out as it was computed.                            *)
Bitrev16_Identity(B) == B

Bitrev16(B) == {15 - n : n \in B}

(* A frame of channel 1 with four bytes of payload.                        *)
Contents(payload, crc) ==
  LET flags == IF crc THEN 64 ELSE 0
      body  == <<flags, 65, 0, 255 - ((flags + 65) % 256)>> \o payload
      check == Bitrev16(Crc(body))
  IN  IF crc THEN body \o <<Byte({n - 8 : n \in check \ 0..7}), Byte(check \cap 0..7)>> ELSE body

Slip(bytes) ==
  LET out[n \in 0..Len(bytes)] == IF n = 0 THEN <<>> ELSE SlipPut(out[n - 1], bytes[n])
  IN  out[Len(bytes)]

FrameOf(payload, crc) == <<END>> \o Slip(Contents(payload, crc)) \o <<END>>

(* What the receivers outside the program make of the bytes between two    *)
(* ENDs: header checksum, length and, when announced, the CRC of the BCSP  *)
(* definition (polynomial 0x1021, least significant bit of a byte first).  *)
Unescaped(b) == IF b = 220 THEN END ELSE IF b = 221 THEN ESC ELSE b

UnslipByte(u, b) ==
  IF ~u.esc /\ b = ESC THEN [u EXCEPT !.esc = TRUE]
  ELSE [esc |-> FALSE, out |-> Append(u.out, IF u.esc THEN Unescaped(b) ELSE b)]

Unslip(bytes) ==
  LET after[n \in 0..Len(bytes)] ==
        IF n = 0 THEN [esc |-> FALSE, out |-> <<>>] ELSE UnslipByte(after[n - 1], bytes[n])
  IN  after[Len(bytes)].out

Crc16Shift(r, byte, n) ==
  Xor({k + 1 : k \in r \ {15}}, IF (15 \in r) # (n \in Bits(byte)) THEN Bits(4129) ELSE {})

Crc16(bytes) ==
  LET reg[n \in 0..(8 * Len(bytes))] ==
        IF n = 0 THEN 0..15
        ELSE Crc16Shift(reg[n - 1], bytes[((n - 1) \div 8) + 1], (n - 1) % 8)
  IN  reg[8 * Len(bytes)]

Decode(bytes) ==
  LET u == Unslip(bytes)
      ps == {p \in Packets : Len(u) \in {8, 10} /\ Payloads[p] = SubSeq(u, 5, 8)}
  IN  IF /\ ps # {}
         /\ (u[1] + u[2] + u[3] + u[4]) % 256 = 255 /\ u[2] = 65 /\ u[3] = 0
         /\ CASE u[1] = 0  -> Len(u) = 8
              [] u[1] = 64 -> Len(u) = 10 /\ Crc16(SubSeq(u, 1, 8)) = Bits(u[9] * 256 + u[10])
              [] OTHER -> FALSE
      THEN CHOOSE p \in ps : TRUE
      ELSE "bad"

Inside(frame) == SubSeq(frame, 2, Len(frame) - 1)
Sent(p) == Decode(Inside(FrameOf(Payloads[p], UseCrc)))

(* What the chip makes of the frames of the program, and the chip's own,   *)
(* each with its header, its CRC and its escapes.                          *)
Understood == [sync |-> Sent("sync"), sync_resp |-> Sent("sync_resp"),
               conf |-> Sent("conf"), conf_resp |-> Sent("conf_resp")]
ChipFrame == [sync      |-> <<END, 64, 65, 0, 126, 218, 220, 237, 237, 169, 122, END>>,
              sync_resp |-> <<END, 64, 65, 0, 126, 172, 175, 239, 238, 187, 132, END>>,
              conf      |-> <<END, 64, 65, 0, 126, 173, 239, 172, 237, 161, 166, END>>,
              conf_resp |-> <<END, 64, 65, 0, 126, 222, 173, 208, 208, 131, 88, END>>,
              data      |-> <<END, 64, 65, 0, 126, ESC, 220, ESC, 221, 14, 4, 133, 46, END>>]

ASSUME ChipFramesAssumption == \A p \in Packets : Decode(Inside(ChipFrame[p])) = p

(* The frames of the chip with up to MaxMissing bytes missing.             *)
Lossy(frame) ==
  LET less[k \in 0..MaxMissing] ==
        IF k = 0 THEN {frame}
        ELSE less[k - 1] \cup UNION {{RemoveAt(b, n) : n \in DOMAIN b} : b \in less[k - 1]}
  IN  less[MaxMissing]
Arrivals == [sync      |-> Lossy(ChipFrame.sync),
             sync_resp |-> Lossy(ChipFrame.sync_resp),
             conf      |-> Lossy(ChipFrame.conf),
             conf_resp |-> Lossy(ChipFrame.conf_resp),
             data      |-> Lossy(ChipFrame.data)]

VARIABLES
  phase,     \* "send" and "read" in the handshake, "relay", "failed", "stopped"
  state,     \* 0 = shy (want sync), 1 = curious (want conf)
  ticks,
  le,        \* the static decoder of le_feed
  linked,    \* ghost: the handshake succeeded
  unheard,   \* ghost: packets sent by the chip less those le_feed has returned
  chip,      \* external: the mode of the chip
  toChip,    \* packets on their way to the chip, as it will understand them
  toHost,    \* bytes on their way to the program
  kernel,    \* external: [in: bytes since the last END, out: packets to send]
  lost

host == <<phase, state, ticks, le, linked>>
vars == <<host, unheard, chip, toChip, toHost, kernel, lost>>

(* With --noreset the chip is wherever an earlier run has left it.         *)
Init ==
  /\ phase \in {"send", "relay"}       \* --skip-le
  /\ chip \in {"shy", "curious", "garrulous"}
  /\ state = 0 /\ ticks = 0 /\ linked = FALSE
  /\ le = [in |-> FALSE, esc |-> FALSE, buf |-> <<>>]
  /\ unheard = [p \in Packets |-> 0]
  /\ toChip = <<>> /\ toHost = <<>> /\ lost = 0
  /\ kernel = [in |-> <<>>, out |-> <<>>]

-----------------------------------------------------------------------------
(* The chip, as long as the program runs.                                  *)
Attached == phase \notin {"failed", "stopped"}

Emit(p) ==
  /\ \E bytes \in Arrivals[p] :
       LET missing == Len(ChipFrame[p]) - Len(bytes)
       IN  /\ lost + missing <= MaxLost
           /\ toHost' = toHost \o bytes
           /\ lost' = lost + missing
  /\ unheard' = IF phase = "relay" THEN unheard ELSE [unheard EXCEPT ![p] = @ + 1]

Silent == UNCHANGED <<toHost, lost, unheard>>

ChipHear ==
  /\ Attached /\ toChip # <<>>
  /\ toChip' = Tail(toChip)
  /\ LET p == Head(toChip)
     IN  CASE chip = "shy" /\ p = "sync_resp" -> chip' = "curious" /\ Silent
           [] chip = "curious" /\ p = "conf_resp" -> chip' = "garrulous" /\ Silent
           [] chip # "garrulous" /\ p = "sync" -> chip' = chip /\ Emit("sync_resp")
           [] chip = "garrulous" /\ p = "sync" -> chip' = "shy" /\ Silent
           [] chip # "shy" /\ p = "conf" -> chip' = chip /\ Emit("conf_resp")
           [] OTHER -> chip' = chip /\ Silent
  /\ UNCHANGED <<host, kernel>>

ChipTimer ==
  /\ Attached /\ toHost = <<>>      \* bound: its period is far longer than a frame
  /\ phase = "relay" => toChip = <<>> /\ kernel.out = <<>>
  /\ CASE chip = "shy"     -> Emit("sync")
       [] chip = "curious" -> Emit("conf")
       [] OTHER -> phase # "relay" /\ unheard["data"] = 0 /\ Emit("data")
  /\ UNCHANGED <<host, chip, toChip, kernel>>

(* A frame to the chip is lost or damaged, by a short write for instance.  *)
LoseFrame ==
  /\ Attached /\ toChip # <<>> /\ lost < MaxLost
  /\ toChip' = Tail(toChip)
  /\ lost' = lost + 1
  /\ UNCHANGED <<host, unheard, chip, toHost, kernel>>

-----------------------------------------------------------------------------
(* le_feed().                                                              *)
Completed(l, b) ==
  b = END /\ l.in /\ Len(l.buf) >= 8 /\ (l.buf[2] \div 16) + 16 * l.buf[3] = 4

Packet(l) == SubSeq(l.buf, 5, 8)

(* Mutant: an END does not empty the buffer.                               *)
LeFeed_KeepsBuffer(l, b) ==
  IF b = END THEN [l EXCEPT !.in = TRUE, !.esc = FALSE]
  ELSE IF ~l.in THEN l
  ELSE IF ~l.esc /\ b = ESC THEN [l EXCEPT !.esc = TRUE]
  ELSE [l EXCEPT !.esc = FALSE,
                 !.buf = IF Len(@) = BufSize THEN @
                         ELSE Append(@, IF l.esc THEN Unescaped(b) ELSE b)]

LeFeed(l, b) ==
  IF b = END THEN [in |-> TRUE, esc |-> FALSE, buf |-> <<>>]
  ELSE IF ~l.in THEN l
  ELSE IF ~l.esc /\ b = ESC THEN [l EXCEPT !.esc = TRUE]
  ELSE [l EXCEPT !.esc = FALSE,
                 !.buf = IF Len(@) = BufSize THEN @
                         ELSE Append(@, IF l.esc THEN Unescaped(b) ELSE b)]

(* bcsp_link_establish(): h is [le, state, replies, active, heard].        *)
(* Mutant: the answer to our SYNC is taken for the end of the handshake.   *)
Answer_SyncIsEnough(h, p) ==
  CASE p = Payloads.sync      -> [h EXCEPT !.replies = Append(@, "sync_resp")]
    [] p = Payloads.conf      -> [h EXCEPT !.replies = Append(@, "conf_resp")]
    [] p \in {Payloads.sync_resp, Payloads.conf_resp} -> [h EXCEPT !.active = TRUE]
    [] OTHER -> h

Answer(h, p) ==
  CASE p = Payloads.sync      -> [h EXCEPT !.replies = Append(@, "sync_resp")]
    [] p = Payloads.sync_resp -> [h EXCEPT !.state = 1]
    [] p = Payloads.conf      -> [h EXCEPT !.replies = Append(@, "conf_resp")]
    [] p = Payloads.conf_resp -> [h EXCEPT !.active = TRUE]
    [] OTHER -> h

(* One byte of a read; after the CONF RESP the others are thrown away.     *)
TakeByte(h, b) ==
  LET fed == [h EXCEPT !.le = LeFeed(@, b)]
  IN  IF h.active THEN h
      ELSE IF Completed(h.le, b)
      THEN Answer([fed EXCEPT !.heard = [p \in Packets |-> @[p] + IF Payloads[p] = Packet(h.le) THEN 1 ELSE 0]],
                  Packet(h.le))
      ELSE fed

Send ==
  /\ phase = "send" /\ ticks < Timeout
  /\ toChip' = Append(toChip, IF state = 0 THEN Understood.sync ELSE Understood.conf)
  /\ phase' = "read"
  /\ UNCHANGED <<state, ticks, le, linked, unheard, chip, toHost, kernel, lost>>

Available == {n \in 1..Len(toHost) : n = Len(toHost) \/ n % Piece = 0}

Read ==
  /\ phase = "read"
  /\ \E n \in Available :
       LET after[k \in 0..n] ==         \* the only state after k bytes
             IF k = 0 THEN {[le |-> le, state |-> state, replies |-> <<>>, active |-> FALSE,
                             heard |-> [p \in Packets |-> 0]]}
             ELSE {TakeByte(h, toHost[k]) : h \in after[k - 1]}
       IN  \E h \in after[n] :
             /\ le' = h.le /\ state' = h.state
             /\ toChip' = toChip \o [i \in DOMAIN h.replies |-> Understood[h.replies[i]]]
             /\ linked' = h.active
             /\ phase' = IF h.active THEN "relay" ELSE "send"
             /\ unheard' = [p \in Packets |-> unheard[p] - h.heard[p]]
             /\ toHost' = SubSeq(toHost, n + 1, Len(toHost))
  /\ ticks' = ticks + 1
  /\ UNCHANGED <<chip, kernel, lost>>

(* The select runs into its tenth of a second.                             *)
Quiet ==
  /\ phase = "read" /\ toHost = <<>>
  /\ phase' = "send" /\ ticks' = ticks + 1
  /\ UNCHANGED <<state, le, linked, unheard, chip, toChip, toHost, kernel, lost>>

TimedOut ==
  /\ phase = "send" /\ ticks = Timeout
  /\ phase' \in {"relay", "failed"}    \* --force
  /\ UNCHANGED <<state, ticks, le, linked, unheard, chip, toChip, toHost, kernel, lost>>

-----------------------------------------------------------------------------
(* main(): the relay, which the kernel answers through.                    *)
KernelHear(k, b) ==
  IF b # END THEN [k EXCEPT !.in = Append(@, b)]
  ELSE [in |-> <<>>, out |-> IF k.in = Inside(ChipFrame.conf) THEN Append(k.out, "conf_resp") ELSE k.out]

RelayUp ==
  /\ phase = "relay"
  /\ \E n \in Available :
       /\ LET after[k \in 0..n] ==
                IF k = 0 THEN {kernel} ELSE {KernelHear(s, toHost[k]) : s \in after[k - 1]}
          IN  kernel' \in after[n]
       /\ toHost' = SubSeq(toHost, n + 1, Len(toHost))
  /\ UNCHANGED <<host, unheard, chip, toChip, lost>>

RelayDown ==
  /\ phase = "relay" /\ kernel.out # <<>>
  /\ toChip' = Append(toChip, Head(kernel.out))
  /\ kernel' = [kernel EXCEPT !.out = Tail(@)]
  /\ UNCHANGED <<host, unheard, chip, toHost, lost>>

(* The UART is not blocking: a full transmit queue ends the bridge.        *)
WriteFails ==
  /\ phase = "relay" /\ kernel.out # <<>>
  /\ phase' = "stopped"
  /\ UNCHANGED <<state, ticks, le, linked, unheard, chip, toChip, toHost, kernel, lost>>

(* onsig(): the handshake does not look at it, and the relay ends.         *)
Signal ==
  /\ phase = "relay"
  /\ phase' = "stopped"
  /\ UNCHANGED <<state, ticks, le, linked, unheard, chip, toChip, toHost, kernel, lost>>

Next ==
  \/ ChipHear \/ ChipTimer \/ LoseFrame
  \/ Send \/ Read \/ Quiet \/ TimedOut
  \/ RelayUp \/ RelayDown \/ WriteFails \/ Signal

(* The program runs, the chip answers and its timer keeps firing.          *)
Fairness ==
  /\ WF_vars(ChipHear) /\ WF_vars(ChipTimer)
  /\ WF_vars(Send) /\ WF_vars(Read \/ Quiet) /\ WF_vars(TimedOut)
  /\ WF_vars(RelayUp) /\ WF_vars(RelayDown)

Spec == Init /\ [][Next]_vars
FairSpec == Spec /\ Fairness

-----------------------------------------------------------------------------
(* le_feed returns only what the chip has sent, and each packet once, of   *)
(* frames that lack fewer than five bytes: whichever are missing, wherever *)
(* a read begins and ends, and although it checks neither the CRC nor the  *)
(* header.                                                                 *)
HeardWhatWasSent == \A p \in Packets : unheard[p] >= 0

(* A handshake that succeeded leaves a chip that has our answer to its own *)
(* SYNC: the kernel, which takes over, would never give it one.            *)
LinkAgreed == linked => chip # "shy"

(* After it, the chip gets the answer to its CONF from the kernel through  *)
(* the relay, though lines lose frames and the first bytes after the CONF  *)
(* RESP are thrown away; unless the bridge is stopped.                     *)
LinkCompletes == linked ~> (chip = "garrulous" \/ phase = "stopped")

(* Every frame the program sends is one that BCSP allows the chip to       *)
(* accept: checksum, escapes and CRC are those of the definition.          *)
FramesUnderstood == \A n \in DOMAIN toChip : toChip[n] # "bad"
=============================================================================
