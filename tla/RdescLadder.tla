---------------------------- MODULE RdescLadder ----------------------------
(***************************************************************************)
(* The descriptor recovery ladder of bluetooth-shim/src/shim.c: how        *)
(* PmBtBsaifHidOpenUInput finds a report descriptor for a connecting       *)
(* device, and the shim's own cache of descriptors under /var/btshim.d,    *)
(* which outlives the process.                                             *)
(*                                                                         *)
(* A descriptor is abstracted to whose it is and what is left of it.  The  *)
(* stack delivers the device's own bytes after an SDP query and the        *)
(* garbled hid.j record on a reconnect, either of them possibly widened to *)
(* 16-bit elements.  The process may die at any step and is started again. *)
(***************************************************************************)
EXTENDS Naturals

CONSTANTS Devs,           \* devices, one BD_ADDR each
          Pads,           \* those whose descriptor the shim takes over
          BuiltinDevs,    \* those whose vendor and product are in BUILTIN_DESC
          Deceptive,      \* those whose garbled descriptor may parse
          MayFail,        \* whether the process may die or a write be short
          NoDev,
          Empty,          \* no bytes
          NoFile

ASSUME PadsAssumption    == Pads \subseteq Devs
ASSUME BuiltinAssumption == BuiltinDevs \subseteq Pads
ASSUME NoDevAssumption   == NoDev \notin Devs
ASSUME DeceptiveAssumption == Deceptive \subseteq Devs
ASSUME FlagsAssumption   == MayFail \in BOOLEAN

(* "prefix": cut off, with enough left to parse; "stub": too little left.  *)
(* Garbled bytes parse as nothing, or ("mangled") as a mouse or gamepad,   *)
(* or ("keylike") as a plain keyboard, whatever the device is.             *)
Forms  == {"whole", "prefix", "stub", "garbled", "mangled", "keylike", "builtin"}
Desc   == [of : Devs, form : Forms]

ASSUME EmptyAssumption == Empty \notin Desc /\ NoFile \notin Desc /\ Empty # NoFile

Whole(d)   == [of |-> d, form |-> "whole"]
Garblings(d) ==
  [of : {d}, form : {"garbled"} \cup {f \in {"mangled", "keylike"} : d \in Deceptive}]
Builtin(d) == [of |-> d, form |-> "builtin"]

VARIABLES
  cache,   \* the files of /var/btshim.d, by device
  cur,     \* the device being opened, or NoDev
  pc,      \* the step of that open
  desc,    \* the bytes delivered for it
  wide,    \* whether they are widened to 16-bit elements
  prof,    \* the descriptor prof was parsed from
  buf      \* the static buffer of the ladder

vars == <<cache, cur, pc, desc, wide, prof, buf>>

Init == /\ cache = [d \in Devs |-> NoFile]
        /\ cur = NoDev
        /\ pc = "idle"
        /\ desc = Empty
        /\ wide = FALSE
        /\ prof = Empty
        /\ buf = Empty

(* Mutant: any parsed descriptor is taken over, keyboards included.        *)
Takeable_AnyClass(x) ==
  x \in Desc /\ x.form \in {"whole", "prefix", "mangled", "builtin"}

(* try_parse(): a mouse or gamepad with at least one field.                *)
Takeable(x) ==
  /\ x \in Desc
  /\ \/ x.form \in {"whole", "prefix"} /\ x.of \in Pads
     \/ x.form = "mangled"
     \/ x.form = "builtin" /\ x.of \in BuiltinDevs

KeyboardOnly(x) ==
  /\ x \in Desc
  /\ \/ x.form = "whole" /\ x.of \notin Pads
     \/ x.form = "keylike"

-----------------------------------------------------------------------------
(* The stack opens the device with what it has of its descriptor.          *)
OpenCall(d) ==
  /\ pc = "idle"
  /\ cur' = d
  /\ desc' \in {Whole(d), Empty} \cup Garblings(d)
  /\ wide' \in {w \in BOOLEAN : w => desc' # Empty}
  /\ pc' = "device"
  /\ UNCHANGED <<cache, prof, buf>>

(* Rung 1, the bytes as delivered.  A plain keyboard goes to the stock     *)
(* function at once.                                                       *)
TryDevice ==
  /\ pc = "device"
  /\ \/ /\ ~ wide /\ Takeable(desc)
        /\ prof' = desc
        /\ pc' = "save"
     \/ /\ ~ wide /\ KeyboardOnly(desc)
        /\ pc' = "delegated"
        /\ UNCHANGED prof
     \/ /\ wide \/ ~ (Takeable(desc) \/ KeyboardOnly(desc))
        /\ pc' = "compact"
        /\ UNCHANGED prof
  /\ UNCHANGED <<cache, cur, desc, wide, buf>>

(* Mutant: the built-in descriptors are preferred to the cache.            *)
TryCompacted_BuiltinFirst ==
  /\ pc = "compact"
  /\ pc' = IF cur \in BuiltinDevs THEN "builtin" ELSE "load"
  /\ UNCHANGED <<cache, cur, desc, wide, prof, buf>>

(* Rung 2, widened bytes compacted into the buffer.                        *)
TryCompacted ==
  /\ pc = "compact"
  /\ \/ /\ wide
        /\ buf' = desc
        /\ IF Takeable(desc) THEN prof' = desc /\ pc' = "save"
                             ELSE pc' = "load" /\ UNCHANGED prof
     \/ ~ wide /\ pc' = "load" /\ UNCHANGED <<prof, buf>>
  /\ UNCHANGED <<cache, cur, desc, wide>>

(* cache_save opens with O_TRUNC: the old file is gone before the new one  *)
(* is written.                                                             *)
Truncate ==
  /\ pc = "save"
  /\ \/ cache' = [cache EXCEPT ![cur] = Empty] /\ pc' = "write"
     \/ MayFail /\ pc' = "taken" /\ UNCHANGED cache      \* open failed
  /\ UNCHANGED <<cur, desc, wide, prof, buf>>

(* What a short write leaves of x.                                         *)
Partial(x) ==
  {Empty} \cup [of : {x.of}, form : IF x.form = "whole" THEN {"prefix", "stub"}
                                                       ELSE {"mangled", "garbled"}]

Write ==
  /\ pc = "write"
  /\ \/ cache' = [cache EXCEPT ![cur] = prof]
     \/ MayFail /\ \E x \in Partial(prof) : cache' = [cache EXCEPT ![cur] = x]
  /\ pc' = "taken"
  /\ UNCHANGED <<cur, desc, wide, prof, buf>>

(* cache_load(): the file is there and has bytes in it.                    *)
Loaded(d) == cache[d] \in Desc

(* Mutant: what cache_load returned is not looked at.                      *)
TryCache_NoCheck ==
  /\ pc = "load"
  /\ buf' = IF Loaded(cur) THEN cache[cur] ELSE buf
  /\ IF Takeable(buf') THEN prof' = buf' /\ pc' = "taken"
                       ELSE pc' = "builtin" /\ UNCHANGED prof
  /\ UNCHANGED <<cache, cur, desc, wide>>

(* Rung 3, the shim's cache, read into the same buffer.                    *)
TryCache ==
  /\ pc = "load"
  /\ \/ /\ Loaded(cur)
        /\ buf' = cache[cur]
        /\ IF Takeable(buf') THEN prof' = buf' /\ pc' = "taken"
                             ELSE pc' = "builtin" /\ UNCHANGED prof
     \/ ~ Loaded(cur) /\ pc' = "builtin" /\ UNCHANGED <<prof, buf>>
  /\ UNCHANGED <<cache, cur, desc, wide>>

(* Rung 4, a built-in descriptor, else the stock function.                 *)
TryBuiltin ==
  /\ pc = "builtin"
  /\ IF cur \in BuiltinDevs
     THEN prof' = Builtin(cur) /\ pc' = "taken"
     ELSE pc' = "delegated" /\ UNCHANGED prof
  /\ UNCHANGED <<cache, cur, desc, wide, buf>>

(* The open goes on to make the node, or to the stock function.            *)
Return ==
  /\ pc \in {"taken", "delegated"}
  /\ cur' = NoDev /\ pc' = "idle" /\ desc' = Empty /\ wide' = FALSE
  /\ prof' = Empty
  /\ UNCHANGED <<cache, buf>>

(* The process dies and is started again; only the files are left.         *)
Crash ==
  /\ MayFail
  /\ cur' = NoDev /\ pc' = "idle" /\ desc' = Empty /\ wide' = FALSE
  /\ prof' = Empty /\ buf' = Empty
  /\ UNCHANGED cache

Ladder == \/ TryDevice \/ TryCompacted \/ Truncate \/ Write
          \/ TryCache \/ TryBuiltin \/ Return

Next == (\E d \in Devs : OpenCall(d)) \/ Ladder \/ Crash

Spec == Init /\ [][Next]_vars

-----------------------------------------------------------------------------
Labels == {"idle", "device", "compact", "save", "write", "load", "builtin",
           "taken", "delegated"}

TypeOK ==
  /\ cache \in [Devs -> Desc \cup {Empty, NoFile}]
  /\ cur \in Devs \cup {NoDev}
  /\ pc \in Labels
  /\ desc \in Desc \cup {Empty}
  /\ wide \in BOOLEAN
  /\ prof \in Desc \cup {Empty}
  /\ buf \in Desc \cup {Empty}
  /\ pc # "idle" <=> cur # NoDev

(* A device is never taken over with another device's descriptor, nor is   *)
(* another's saved under its address, although all opens share one buffer  *)
(* that keeps the last one's bytes, and the process may die in any of them *)
OwnDescriptorOnly ==
  /\ pc = "taken" => prof \in Desc /\ prof.of = cur
  /\ \A d \in Devs : cache[d] \in Desc => cache[d].of = d

(* A device with a usable descriptor of its own in its file is taken over  *)
(* with that or with what the stack delivers now, never with a built-in    *)
(* one and never left to the stock function, unless the bytes delivered    *)
(* parse as a plain keyboard.  This is the order of trust of the ladder;   *)
(* the file may be whole, cut short by a death or hold garbled bytes.      *)
OwnBytesBeforeBuiltin ==
  pc \in {"taken", "delegated"} /\ Takeable(cache[cur])
    => \/ pc = "taken" /\ prof \in {desc, cache[cur]}
       \/ pc = "delegated" /\ ~ wide /\ KeyboardOnly(desc)

(* A keyboard is left to the stock function whatever was cached or         *)
(* delivered before, unless its garbled bytes parse as another class.      *)
KeyboardsStayStock == pc = "taken" => cur \in Pads \cup Deceptive

(* What the comment on the ladder says of the cache: it is written         *)
(* "whenever a descriptor from the device itself parsed cleanly".  False:  *)
(* garbled bytes that parse are cached as well, over the device's own.     *)
CacheHoldsDeviceBytes ==
  \A d \in Devs : cache[d] \in Desc => cache[d].form # "mangled"

-----------------------------------------------------------------------------
(* The inductive invariant behind these properties.                        *)

(* Bytes that are the device's own, or made of them.                       *)
Genuine(x, d) == /\ x.of = d
                 /\ x.form \in {"mangled", "keylike"} => d \in Deceptive

(* What is delivered is the device's own, and only what parsed is saved.   *)
DescInv ==
  /\ desc \in Desc => Genuine(desc, cur) /\ desc.form \notin {"prefix", "stub", "builtin"}
  /\ pc \in {"save", "write", "taken"} =>
       prof \in Desc /\ Genuine(prof, cur) /\ Takeable(prof)
  /\ pc \in {"save", "write"} => prof = desc /\ prof.form \in {"whole", "mangled"}

CacheInv == \A d \in Devs : cache[d] \in Desc => Genuine(cache[d], d)

(* The last rung is reached only past a cache that does not parse.         *)
RungInv == pc = "builtin" => ~ Takeable(cache[cur])

LadderInv == TypeOK /\ DescInv /\ CacheInv /\ RungInv
=============================================================================
