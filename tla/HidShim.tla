------------------------------ MODULE HidShim ------------------------------
(***************************************************************************)
(* The interposer of bluetooth-shim/src/shim.c: the three functions of     *)
(* libPmBtBsaif it replaces (HidOpenUInput, HidSendToInput,                *)
(* HidCloseUInput), the table of managed devices and the mutex around it,  *)
(* the kernel's uinput file descriptors and the stock functions it         *)
(* delegates to.                                                           *)
(*                                                                         *)
(* The stack may run the callbacks of different devices on different       *)
(* threads, which is what the mutex is for; it runs one callback of a      *)
(* device at a time.  So a call is identified by its device: pc[d] is      *)
(* where d's current call is, kind[d], fd[d] and m[d] are its locals.      *)
(***************************************************************************)
EXTENDS Naturals, FiniteSets

CONSTANTS Devs,        \* device instances of the stack
          MaxManaged,  \* MAX_MANAGED
          MaxFd,       \* highest file descriptor the process may use
          NoDev, NoNode

ASSUME MaxManagedAssumption == MaxManaged \in Nat \ {0}
ASSUME MaxFdAssumption      == MaxFd \in Nat
ASSUME NoDevAssumption      == NoDev \notin Devs

Slots  == 1 .. MaxManaged
NoSlot == 0
Fds    == 1 .. MaxFd
NoFd   == 0

Kinds == {"hid", "wii"}              \* what the shim's own nodes decode
Node  == [dev : Devs, kind : Kinds \cup {"kbd"}]

ASSUME NoNodeAssumption == NoNode \notin Node

VARIABLES
  g_tab,        \* the managed table
  g_lock,       \* the device whose call holds the mutex, or NoDev
  uinput_flag,  \* DEV_UINPUT_FLAG of each device struct
  uinput_fd,    \* DEV_UINPUT_FD of each device struct
  node,         \* the kernel: what each file descriptor is open on
  pc, kind, fd, m

tabvars == <<g_tab, g_lock>>
devvars == <<uinput_flag, uinput_fd>>
locals  == <<kind, fd, m>>
vars    == <<g_tab, g_lock, uinput_flag, uinput_fd, node, pc, kind, fd, m>>

Goto(d, label) == pc' = [pc EXCEPT ![d] = label]
At(d, label)   == pc[d] = label

(* A call returns and its locals are gone.                                 *)
Return(d) == /\ Goto(d, "idle")
             /\ kind' = [kind EXCEPT ![d] = "hid"]
             /\ fd' = [fd EXCEPT ![d] = NoFd]
             /\ m' = [m EXCEPT ![d] = NoSlot]

(* shim.c find(): the first active slot of the device.                     *)
Holds(s, d)   == g_tab[s].active /\ g_tab[s].dev = d
Found(d, s)   == Holds(s, d) /\ \A r \in Slots : r < s => ~ Holds(r, d)
Managed(d)    == \E s \in Slots : Holds(s, d)

(* Mutant: a full table gives up its first entry.                          *)
FirstFree_Evicts(s) ==
  \/ ~ g_tab[s].active /\ \A r \in Slots : r < s => g_tab[r].active
  \/ s = 1 /\ \A r \in Slots : g_tab[r].active

(* shim.c alloc_slot(): the first slot that is not active.                 *)
FirstFree(s)  == ~ g_tab[s].active /\ \A r \in Slots : r < s => g_tab[r].active

(* open(2) returns the lowest descriptor that is not in use.               *)
LowestFree(f) == node[f] = NoNode /\ \A g \in Fds : g < f => node[g] # NoNode

(* What a descriptor is open on.                                           *)
OpenOn(f) == IF f \in Fds THEN node[f] ELSE NoNode

(* The descriptor table after uinput_destroy(f), a no-op on a bad one.     *)
Destroyed(f)  == [g \in Fds |-> IF g = f THEN NoNode ELSE node[g]]

(* struct managed; is_wiimote and prof are one field, kind.                *)
Entry     == [active : BOOLEAN, dev : Devs \cup {NoDev},
              fd : Fds \cup {NoFd}, kind : Kinds]
EmptySlot == [active |-> FALSE, dev |-> NoDev, fd |-> NoFd, kind |-> "hid"]

Init ==
  /\ g_tab = [s \in Slots |-> EmptySlot]
  /\ g_lock = NoDev
  /\ uinput_flag = [d \in Devs |-> FALSE]
  /\ uinput_fd = [d \in Devs |-> NoFd]
  /\ node = [f \in Fds |-> NoNode]
  /\ pc = [d \in Devs |-> "idle"]
  /\ kind = [d \in Devs |-> "hid"]
  /\ fd = [d \in Devs |-> NoFd]
  /\ m = [d \in Devs |-> NoSlot]

-----------------------------------------------------------------------------
(* PmBtBsaifHidOpenUInput                                                  *)

(* The name and address test and the descriptor ladder decide what becomes *)
(* of the device.  How the ladder decides is module RdescLadder.           *)
OpenCall(d) ==
  /\ At(d, "idle")
  /\ \/ \E k \in Kinds : kind' = [kind EXCEPT ![d] = k] /\ Goto(d, "create")
     \/ Goto(d, "delegate") /\ UNCHANGED kind
  /\ UNCHANGED <<tabvars, devvars, node, fd, m>>

(* uinput_create or wiimote_create_uinput.                                 *)
CreateNode(d) ==
  /\ At(d, "create")
  /\ \E f \in Fds :
       /\ LowestFree(f)
       /\ node' = [node EXCEPT ![f] = [dev |-> d, kind |-> kind[d]]]
       /\ fd' = [fd EXCEPT ![d] = f]
  /\ Goto(d, "lock")
  /\ UNCHANGED <<tabvars, devvars, kind, m>>

(* No descriptor left, or the kernel refuses: the stock function is called *)
CreateFails(d) ==
  /\ At(d, "create")
  /\ Goto(d, "delegate")
  /\ UNCHANGED <<tabvars, devvars, node, locals>>

(* The stock open: nothing if the flag is up, else a keyboard node.  It    *)
(* raises the flag even when it got no descriptor.                         *)
StockOpen(d) ==
  IF uinput_flag[d]
  THEN UNCHANGED <<devvars, node>>
  ELSE /\ uinput_flag' = [uinput_flag EXCEPT ![d] = TRUE]
       /\ \/ \E f \in Fds :
               /\ LowestFree(f)
               /\ node' = [node EXCEPT ![f] = [dev |-> d, kind |-> "kbd"]]
               /\ uinput_fd' = [uinput_fd EXCEPT ![d] = f]
          \/ /\ \A f \in Fds : node[f] # NoNode
             /\ uinput_fd' = [uinput_fd EXCEPT ![d] = NoFd]
             /\ UNCHANGED node

DelegateOpen(d) ==
  /\ At(d, "delegate")
  /\ StockOpen(d)
  /\ Return(d)
  /\ UNCHANGED tabvars

(* Mutant: the mutex does not exclude.                                     *)
Lock_Open(d) ==
  /\ At(d, "lock")
  /\ g_lock' = d
  /\ Goto(d, "replace")
  /\ UNCHANGED <<g_tab, devvars, node, locals>>

Lock(d) ==
  /\ At(d, "lock")
  /\ g_lock = NoDev
  /\ g_lock' = d
  /\ Goto(d, "replace")
  /\ UNCHANGED <<g_tab, devvars, node, locals>>

(* A device opened again: its old node goes and its slot is freed.         *)
ReplaceOld(d) ==
  /\ At(d, "replace")
  /\ \/ \E s \in Slots : /\ Found(d, s)
                         /\ node' = Destroyed(g_tab[s].fd)
                         /\ g_tab' = [g_tab EXCEPT ![s].active = FALSE]
     \/ ~ Managed(d) /\ UNCHANGED <<g_tab, node>>
  /\ Goto(d, "pick")
  /\ UNCHANGED <<g_lock, devvars, locals>>

PickSlot(d) ==
  /\ At(d, "pick")
  /\ \/ \E s \in Slots : FirstFree(s) /\ m' = [m EXCEPT ![d] = s]
     \/ /\ \A s \in Slots : g_tab[s].active
        /\ m' = [m EXCEPT ![d] = NoSlot]
  /\ Goto(d, "fill")
  /\ UNCHANGED <<tabvars, devvars, node, kind, fd>>

(* Mutant: the slot is not cleared, so is_wiimote survives.                *)
NewEntry_NoMemset(d) ==
  [active |-> TRUE, dev |-> d, fd |-> fd[d],
   kind |-> IF g_tab[m[d]].kind = "wii" THEN "wii" ELSE kind[d]]

(* The slot as alloc_slot and its caller leave it: cleared, then set.      *)
NewEntry(d) == [active |-> TRUE, dev |-> d, fd |-> fd[d], kind |-> kind[d]]

(* Mutant: the path of the full table returns with the mutex held.         *)
FillAndUnlock_KeepsLock(d) ==
  /\ At(d, "fill")
  /\ \/ /\ m[d] # NoSlot
        /\ g_tab' = [g_tab EXCEPT ![m[d]] = NewEntry(d)]
        /\ g_lock' = NoDev
        /\ Goto(d, "publish")
     \/ /\ m[d] = NoSlot
        /\ UNCHANGED <<g_tab, g_lock>>
        /\ Goto(d, "full")
  /\ UNCHANGED <<devvars, node, locals>>

FillAndUnlock(d) ==
  /\ At(d, "fill")
  /\ \/ /\ m[d] # NoSlot
        /\ g_tab' = [g_tab EXCEPT ![m[d]] = NewEntry(d)]
        /\ Goto(d, "publish")
     \/ /\ m[d] = NoSlot
        /\ UNCHANGED g_tab
        /\ Goto(d, "full")
  /\ g_lock' = NoDev
  /\ UNCHANGED <<devvars, node, locals>>

(* Table full: the node just created is closed and the call returns.       *)
TableFull(d) ==
  /\ At(d, "full")
  /\ node' = Destroyed(fd[d])
  /\ Return(d)
  /\ UNCHANGED <<tabvars, devvars>>

(* Mark uinput up in the device struct and record the descriptor.          *)
Publish(d) ==
  /\ At(d, "publish")
  /\ uinput_flag' = [uinput_flag EXCEPT ![d] = TRUE]
  /\ uinput_fd' = [uinput_fd EXCEPT ![d] = fd[d]]
  /\ Return(d)
  /\ UNCHANGED <<tabvars, node>>

-----------------------------------------------------------------------------
(* PmBtBsaifHidSendToInput                                                 *)

(* find() under the mutex.  A managed device's report that is not an INPUT *)
(* report, or is empty, is dropped there and then.                         *)
SendCall(d) ==
  /\ At(d, "idle")
  /\ g_lock = NoDev
  /\ \/ \E s \in Slots : /\ Found(d, s)
                         /\ m' = [m EXCEPT ![d] = s]
                         /\ Goto(d, "emit")
     \/ Managed(d) /\ UNCHANGED <<pc, m>>    \* not an INPUT report
     \/ /\ ~ Managed(d)
        /\ Goto(d, "sendstock")
        /\ UNCHANGED m
  /\ UNCHANGED <<tabvars, devvars, node, kind, fd>>

(* The slot is read after the mutex was released: the events go to the     *)
(* node its descriptor is open on, decoded by its kind.                    *)
EmitReport(d) ==
  /\ At(d, "emit")
  /\ Return(d)
  /\ UNCHANGED <<tabvars, devvars, node>>

EmitTarget(d) ==
  LET e == g_tab[m[d]]
  IN  IF OpenOn(e.fd) = NoNode THEN "lost"
      ELSE IF OpenOn(e.fd) = [dev |-> d, kind |-> e.kind] THEN e.kind
      ELSE "astray"

(* The stock translator writes to the descriptor of the device struct.     *)
StockSend(d) ==
  /\ At(d, "sendstock")
  /\ Return(d)
  /\ UNCHANGED <<tabvars, devvars, node>>

StockTarget(d) ==
  IF ~ uinput_flag[d] \/ OpenOn(uinput_fd[d]) = NoNode THEN "none"
  ELSE IF OpenOn(uinput_fd[d]) = [dev |-> d, kind |-> "kbd"] THEN "kbd"
  ELSE "astray"

-----------------------------------------------------------------------------
(* PmBtBsaifHidCloseUInput                                                 *)

CloseCall(d) ==
  /\ At(d, "idle")
  /\ g_lock = NoDev
  /\ \/ \E s \in Slots : /\ Found(d, s)
                         /\ fd' = [fd EXCEPT ![d] = g_tab[s].fd]
                         /\ g_tab' = [g_tab EXCEPT ![s].active = FALSE]
                         /\ Goto(d, "destroy")
     \/ /\ ~ Managed(d)
        /\ Goto(d, "closestock")
        /\ UNCHANGED <<g_tab, fd>>
  /\ UNCHANGED <<g_lock, devvars, node, kind, m>>

DestroyNode(d) ==
  /\ At(d, "destroy")
  /\ node' = Destroyed(fd[d])
  /\ Goto(d, "clear")
  /\ UNCHANGED <<tabvars, devvars, locals>>

(* Mutant: the flag of the device struct is left up.                       *)
ClearFlag_Skipped(d) ==
  /\ At(d, "clear")
  /\ Return(d)
  /\ UNCHANGED <<tabvars, devvars, node>>

(* Mutant: a managed close falls through to the stock close.               *)
ClearFlag_FallsThrough(d) ==
  /\ At(d, "clear")
  /\ Goto(d, "closestock")
  /\ UNCHANGED <<tabvars, devvars, node, locals>>

ClearFlag(d) ==
  /\ At(d, "clear")
  /\ uinput_flag' = [uinput_flag EXCEPT ![d] = FALSE]
  /\ Return(d)
  /\ UNCHANGED <<tabvars, uinput_fd, node>>

(* The stock close destroys the node of the device struct and lowers the   *)
(* flag.                                                                   *)
StockClose(d) ==
  /\ At(d, "closestock")
  /\ node' = IF uinput_flag[d] THEN Destroyed(uinput_fd[d]) ELSE node
  /\ uinput_flag' = [uinput_flag EXCEPT ![d] = FALSE]
  /\ Return(d)
  /\ UNCHANGED <<tabvars, uinput_fd>>

-----------------------------------------------------------------------------
Call(d)  == OpenCall(d) \/ SendCall(d) \/ CloseCall(d)

(* The steps of a call in progress.                                        *)
Step(d)  == \/ CreateNode(d) \/ CreateFails(d) \/ DelegateOpen(d)
            \/ ReplaceOld(d) \/ PickSlot(d) \/ FillAndUnlock(d)
            \/ TableFull(d) \/ Publish(d)
            \/ EmitReport(d) \/ StockSend(d)
            \/ DestroyNode(d) \/ ClearFlag(d) \/ StockClose(d)

Next == \E d \in Devs : Call(d) \/ Lock(d) \/ Step(d)

Spec == Init /\ [][Next]_vars

(* A call that has begun runs on; a thread waiting for the mutex gets it   *)
(* if it is free again and again.  Nothing makes the stack call at all.    *)
Fairness == \A d \in Devs : WF_vars(Step(d)) /\ SF_vars(Lock(d))

FairSpec == Spec /\ Fairness

-----------------------------------------------------------------------------
Labels == {"idle", "create", "delegate", "lock", "replace", "pick", "fill",
           "full", "publish", "emit", "sendstock", "destroy", "clear",
           "closestock"}

(* Steps of an open that hold a node which is not in the table yet.        *)
Opening == {"lock", "replace", "pick", "fill", "full"}

(* Types.  A local slot is one of the table or none, a descriptor is one   *)
(* of the process or none.                                                 *)
TypeOK ==
  /\ g_tab \in [Slots -> Entry]
  /\ g_lock \in Devs \cup {NoDev}
  /\ uinput_flag \in [Devs -> BOOLEAN]
  /\ uinput_fd \in [Devs -> Fds \cup {NoFd}]
  /\ node \in [Fds -> Node \cup {NoNode}]
  /\ pc \in [Devs -> Labels]
  /\ kind \in [Devs -> Kinds]
  /\ fd \in [Devs -> Fds \cup {NoFd}]
  /\ m \in [Devs -> Slots \cup {NoSlot}]

(* Every active slot stands for one device, no two for the same, and its   *)
(* descriptor is open on the node the shim made for that device with that  *)
(* decoder, whatever other devices connect, reconnect and disconnect.      *)
SlotsOwnLiveNodes ==
  /\ \A s \in Slots : g_tab[s].active =>
       OpenOn(g_tab[s].fd) = [dev |-> g_tab[s].dev, kind |-> g_tab[s].kind]
  /\ \A s, r \in Slots :
       g_tab[s].active /\ g_tab[r].active /\ g_tab[s].dev = g_tab[r].dev
         => s = r

(* No node of the shim is lost: each is the one in its device's slot, or   *)
(* the one the device's current call is about to register or to destroy.   *)
NodesAccountedFor ==
  \A f \in Fds : node[f] # NoNode /\ node[f].kind \in Kinds =>
    LET d == node[f].dev
    IN  \/ \E s \in Slots : Holds(s, d) /\ g_tab[s].fd = f
        \/ fd[d] = f /\ pc[d] \in Opening \cup {"destroy"}

(* Between calls the device struct agrees with the table: the flag is up   *)
(* and the descriptor recorded is the slot's if the device is managed, and *)
(* the device's own keyboard node (or none) if it is not.                  *)
StructConsistent ==
  \A d \in Devs : At(d, "idle") =>
    /\ \A s \in Slots : Holds(s, d) =>
         uinput_flag[d] /\ uinput_fd[d] = g_tab[s].fd
    /\ ~ Managed(d) /\ uinput_flag[d] =>
         OpenOn(uinput_fd[d]) \in {NoNode, [dev |-> d, kind |-> "kbd"]}

(* Where a report being handled will end up.                               *)
InFlight(d) == CASE At(d, "emit")      -> EmitTarget(d)
                 [] At(d, "sendstock") -> StockTarget(d)
                 [] OTHER              -> "idle"

(* A report goes to an open node of the device that sent it, decoded the   *)
(* way that node was set up, although the slot is used after the mutex was *)
(* released and other devices come and go meanwhile.                       *)
ReportsReachOwnNode == \A d \in Devs : InFlight(d) \notin {"lost", "astray"}

(* A node is destroyed by a call of its own device only, one that replaces *)
(* or closes it: no close of a descriptor whose number another device was  *)
(* given in the meantime.                                                  *)
OwnerDestroys ==
  \A f \in Fds : node[f] # NoNode /\ node'[f] # node[f] =>
    /\ node'[f] = NoNode
    /\ pc[node[f].dev] \in {"replace", "full", "destroy", "closestock"}

OnlyOwnerDestroys == [][OwnerDestroys]_vars

(* Every call returns: the mutex is released on every path, the full table *)
(* included.                                                               *)
CallsReturn == \A d \in Devs : ~ At(d, "idle") ~> At(d, "idle")

(* ARCHITECTURE.md says HidCloseUInput is UI_DEV_DESTROY + close: a device *)
(* whose flag is down has no node left open.                               *)
ClosedDevicesHaveNoNode ==
  \A d \in Devs : At(d, "idle") /\ ~ uinput_flag[d] =>
    \A f \in Fds : node[f] # NoNode => node[f].dev # d

-----------------------------------------------------------------------------
(* The inductive invariant: what is true of each device d at any time,     *)
(* wherever the calls of the others are.                                   *)

(* The mutex is held exactly between Lock and FillAndUnlock.               *)
LockInv(d) == pc[d] \in {"replace", "pick", "fill"} <=> g_lock = d

(* The slots and the nodes of d, as in SlotsOwnLiveNodes and               *)
(* NodesAccountedFor.                                                      *)
EntryInv(d) ==
  /\ \A s \in Slots : Holds(s, d) =>
       OpenOn(g_tab[s].fd) = [dev |-> d, kind |-> g_tab[s].kind]
  /\ \A s, r \in Slots : Holds(s, d) /\ Holds(r, d) => s = r

NodeInv(d) ==
  \A f \in Fds : (\E k \in Kinds : node[f] = [dev |-> d, kind |-> k]) =>
    \/ \E s \in Slots : Holds(s, d) /\ g_tab[s].fd = f
    \/ fd[d] = f /\ pc[d] \in Opening \cup {"destroy"}

(* The new node of an open is d's own, and not yet the one in its slot.    *)
OpeningInv(d) == pc[d] \in Opening =>
  /\ OpenOn(fd[d]) = [dev |-> d, kind |-> kind[d]]
  /\ \A s \in Slots : Holds(s, d) => g_tab[s].fd # fd[d]

(* The slot picked is still free when it is filled.                        *)
FillInv(d) == At(d, "fill") /\ m[d] # NoSlot => ~ g_tab[m[d]].active

(* The slot a call refers to without the mutex is still d's.               *)
SlotInv(d) ==
  /\ At(d, "emit") => m[d] # NoSlot /\ Holds(m[d], d)
  /\ At(d, "publish") => /\ m[d] # NoSlot /\ Holds(m[d], d)
                         /\ g_tab[m[d]].fd = fd[d]

(* Where d has no slot.                                                    *)
UnmanagedInv(d) ==
  pc[d] \in {"pick", "fill", "full", "destroy", "clear", "sendstock",
             "closestock"} => ~ Managed(d)

(* The node a close is about to destroy is d's own.                        *)
DestroyInv(d) == At(d, "destroy") =>
  \E k \in Kinds : OpenOn(fd[d]) = [dev |-> d, kind |-> k]

(* The device struct while d is managed, and while it is not.              *)
ManagedStructInv(d) == \A s \in Slots : Holds(s, d) /\ ~ At(d, "publish") =>
  uinput_flag[d] /\ uinput_fd[d] = g_tab[s].fd

StockOwn(d) == uinput_flag[d] =>
  \/ uinput_fd[d] = NoFd
  \/ OpenOn(uinput_fd[d]) = [dev |-> d, kind |-> "kbd"]

StockInv(d) == \/ StockOwn(d)
               \/ Managed(d)
               \/ pc[d] \in {"destroy", "clear"}
               \/ At(d, "pick") /\ \E s \in Slots : ~ g_tab[s].active
               \/ At(d, "fill") /\ m[d] # NoSlot

DevInv(d) == /\ LockInv(d) /\ EntryInv(d) /\ NodeInv(d) /\ OpeningInv(d)
             /\ FillInv(d) /\ SlotInv(d) /\ UnmanagedInv(d) /\ DestroyInv(d)
             /\ ManagedStructInv(d) /\ StockInv(d)

ShimInv == /\ TypeOK
           /\ \A s \in Slots : g_tab[s].active => g_tab[s].dev \in Devs
           /\ \A d \in Devs : DevInv(d)

-----------------------------------------------------------------------------
(* The shim implements HidRouter.                                          *)

RouteOf(d) ==
  IF Managed(d)
  THEN g_tab[CHOOSE s \in Slots : Holds(s, d)].kind
  ELSE IF uinput_flag[d] /\ OpenOn(uinput_fd[d]) = [dev |-> d, kind |-> "kbd"]
       THEN "kbd" ELSE "none"

Router == INSTANCE HidRouter WITH
            Capacity <- MaxManaged,
            route    <- [d \in Devs |-> RouteOf(d)],
            inflight <- [d \in Devs |-> InFlight(d)]

(* Routes change and reports travel only the way HidRouter allows.         *)
ImplementsRouter == Router!Spec
=============================================================================
