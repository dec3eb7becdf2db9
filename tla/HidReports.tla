----------------------------- MODULE HidReports -----------------------------
(***************************************************************************)
(* uinput_emit_report of bluetooth-shim/src/uinput_dev.c, composed with    *)
(* the parser: the framing of an incoming report, the extraction of each   *)
(* field's bits and the input events written to the node.                  *)
(*                                                                         *)
(* A report is a sequence of bytes, an event [type, code, value].  The     *)
(* profile is the one HidParser has made when it is done.                  *)
(***************************************************************************)
EXTENDS HidParser, FiniteSetsExt, SequencesExt

DATA_INPUT == 161                  \* 0xA1, the HIDP header of an input report

(* hid_report_payload_bits().                                              *)
PayloadBits(i) == IF Tracked(i) THEN Base(i) ELSE -1

(* The positions at which a declared id is followed by enough bytes.       *)
Ids(report) ==
  {skip \in 0..2 :
     /\ skip < Len(report)
     /\ LET bits == PayloadBits(report[skip + 1])
        IN  bits >= 0 /\ (Len(report) - skip - 1) * 8 >= bits}

(* Without report ids, a header is stripped if the rest still suffices.    *)
(* Mutant: every leading 0xA1 is taken for a header.                       *)
HasHeader_Any(report) == Len(report) > 1 /\ report[1] = DATA_INPUT

HasHeader(report) ==
  LET bits == PayloadBits(0)
  IN  /\ bits >= 0 /\ Len(report) > 1 /\ report[1] = DATA_INPUT
      /\ Len(report) * 8 > bits /\ (Len(report) - 1) * 8 >= bits

Bit(bytes, n) ==
  IF n \div 8 < Len(bytes) THEN (bytes[(n \div 8) + 1] \div 2^(n % 8)) % 2 ELSE 0

(* extract(): little endian, what lies beyond the buffer reads as zero.    *)
(* The shift by -1 of a signed field of no bits is undefined in C, but     *)
(* masks a value that is zero.  The result is an int32_t.                  *)
Extract(bytes, pos, nbits, signed) ==
  LET v == SumSet({2^i * Bit(bytes, pos + i) : i \in 0..(nbits - 1)} \ {0})
  IN  IF (signed \/ nbits = 32) /\ nbits \in 1..32 /\ v >= 2^(nbits - 1) THEN v - 2^nbits ELSE v

(* hat_to_xy(): clockwise from up; anything outside the range is centred.  *)
Compass8 == <<<<0, -1>>, <<1, -1>>, <<1, 0>>, <<1, 1>>, <<0, 1>>, <<-1, 1>>, <<-1, 0>>, <<-1, -1>>>>
Compass4 == <<<<0, -1>>, <<1, 0>>, <<0, 1>>, <<-1, 0>>>>
HatXY(f, value) ==
  LET v     == value - f.lmin
      range == f.lmax - f.lmin + 1
  IN  IF value \notin f.lmin..f.lmax THEN <<0, 0>>
      ELSE IF range >= 8 THEN Compass8[(v % 8) + 1]
      ELSE IF range = 4 THEN Compass4[(v % 4) + 1]
      ELSE <<0, 0>>

(* The second pass of hid_parse(): button numbers by class of device.      *)
ButtonCode(n) ==
  <<IF out.is_mouse /\ ~out.is_gamepad THEN "BTN_MOUSE" ELSE "BTN_JOYSTICK",
    IF n < 1 THEN 1 ELSE n>>

(* map_axis(): relative sliders and dials share the codes of Z and RZ.     *)
AxisCode(f) ==
  CASE f.evtype = "rel" /\ f.usage = 54 -> 50
    [] f.evtype = "rel" /\ f.usage = 55 -> 53
    [] OTHER -> f.usage

Event(type, code, value) == [type |-> type, code |-> code, value |-> value]

FieldEvents(f, val) ==
  CASE f.evtype = "key" -> <<Event("key", ButtonCode(f.usage), IF val # 0 THEN 1 ELSE 0)>>
    [] f.evtype = "rel" -> IF val # 0 THEN <<Event("rel", AxisCode(f), val)>> ELSE <<>>
    [] f.evtype = "abs" -> <<Event("abs", AxisCode(f), val)>>
    [] f.evtype = "hat" -> <<Event("abs", "HAT0X", HatXY(f, val)[1]),
                             Event("abs", "HAT0Y", HatXY(f, val)[2])>>

WithSyn(events) == IF events = <<>> THEN <<>> ELSE Append(events, Event("syn", 0, 0))

(* The events of some of the fields, in the order of the profile's array;  *)
(* a report without any is not even synchronised.                          *)
InOrder(events) ==
  WithSyn(FlattenSeq([n \in 1..Cardinality(fields) |->
            LET nth == {f \in DOMAIN events : f.index = n - 1}
            IN  IF nth = {} THEN <<>> ELSE events[CHOOSE f \in nth : TRUE]]))

(* The events of the fields a report carries, each read at its offset.     *)
Emitted(report, start, rid) ==
  InOrder([f \in {e \in fields : ~out.uses_report_id \/ e.report_id = rid} |->
             FieldEvents(f, Extract(report, start + f.bit_offset, f.bit_size, f.lmin < 0))])

(* uinput_emit_report().                                                   *)
EmitReport(report) ==
  IF ~out.uses_report_id THEN Emitted(report, IF HasHeader(report) THEN 8 ELSE 0, 0)
  ELSE IF Ids(report) = {} THEN <<>>
  ELSE LET found == Min(Ids(report))
       IN  Emitted(report, (found + 1) * 8, report[found + 1])

-----------------------------------------------------------------------------
Bytes(bits) == (bits + 7) \div 8

(* Payloads of report i: one bit set, or a first byte that looks like a    *)
(* header or like a report id.                                             *)
Payloads(i) ==
  LET n == Bytes(declared[i])
      firstByte(b) == [k \in 1..n |-> IF k = 1 THEN b ELSE 0]
  IN  {[k \in 1..n |-> IF k = (b \div 8) + 1 THEN 2^(b % 8) ELSE 0] : b \in 0..(8 * n - 1)}
      \cup {firstByte(b) : b \in ReportIds \cup {DATA_INPUT}}

(* The framings the stack is known to use.                                 *)
Framings(i, payload) ==
  IF out.uses_report_id THEN {<<i>> \o payload, <<DATA_INPUT, i>> \o payload}
  ELSE {payload, <<DATA_INPUT>> \o payload}

(* What a report means by its descriptor, whatever it was framed in.       *)
Meaning(i, payload) ==
  InOrder([f \in {e \in fields : e.report_id = i} |->
             FieldEvents(f, Extract(payload, f.place, f.bit_size, f.lmin < 0))])

(* Every report the device declares is decoded by its own fields from its  *)
(* own payload, in either framing, though the code has to guess where the  *)
(* report starts and a payload may begin like a header or an id.           *)
OwnReportsDecode ==
  done =>
    \A i \in {idtab[n].id : n \in DOMAIN idtab} :
      (/\ out.uses_report_id <=> i # 0
       /\ 0 < declared[i] /\ declared[i] < OffsetRange)
        => \A payload \in Payloads(i) : \A report \in Framings(i, payload) :
             EmitReport(report) = Meaning(i, payload)
=============================================================================
