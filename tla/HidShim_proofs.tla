-------------------------- MODULE HidShim_proofs ---------------------------
(***************************************************************************)
(* Proofs about HidShim, for any set of devices, any table size and any    *)
(* number of file descriptors.                                             *)
(***************************************************************************)
EXTENDS HidShim, FiniteSetTheorems, TLAPS

(* Freeing a slot leaves a table of entries.                               *)
LEMMA FreeSlotType ==
  ASSUME g_tab \in [Slots -> Entry], NEW s \in Slots
  PROVE  /\ [g_tab EXCEPT ![s].active = FALSE] \in [Slots -> Entry]
         /\ g_tab[s].fd \in Fds \cup {NoFd}
<1>1. g_tab[s] \in Entry
  OBVIOUS
<1>2. [g_tab[s] EXCEPT !.active = FALSE] \in Entry
  BY <1>1 DEF Entry
<1> QED
  BY <1>1, <1>2 DEF Entry

(* What every step keeps: the locals and the tables have their types.      *)
LEMMA TypeInductive ==
  ASSUME TypeOK, [Next]_vars
  PROVE  TypeOK'
<1> USE DEF TypeOK, Goto, At, Return, tabvars, devvars, locals, Slots, Fds,
            Kinds, Node, NoFd, NoSlot, Labels
<1>1. ASSUME NEW d \in Devs, OpenCall(d) PROVE TypeOK'
  BY <1>1 DEF OpenCall
<1>2. ASSUME NEW d \in Devs, SendCall(d) PROVE TypeOK'
  BY <1>2 DEF SendCall
<1>3. ASSUME NEW d \in Devs, CloseCall(d) PROVE TypeOK'
  <2>1. g_tab' \in [Slots -> Entry] /\ fd' \in [Devs -> Fds \cup {NoFd}]
    BY <1>3, FreeSlotType DEF CloseCall
  <2> QED
    BY <1>3, <2>1 DEF CloseCall
<1>4. ASSUME NEW d \in Devs, Lock(d) PROVE TypeOK'
  BY <1>4 DEF Lock
<1>5. ASSUME NEW d \in Devs, CreateNode(d) PROVE TypeOK'
  BY <1>5 DEF CreateNode
<1>6. ASSUME NEW d \in Devs, CreateFails(d) PROVE TypeOK'
  BY <1>6 DEF CreateFails
<1>7. ASSUME NEW d \in Devs, DelegateOpen(d) PROVE TypeOK'
  <2>1. CASE uinput_flag[d]
    BY <1>7, <2>1 DEF DelegateOpen, StockOpen
  <2>2. CASE ~ uinput_flag[d]
    <3>1. uinput_flag' \in [Devs -> BOOLEAN]
      BY <1>7, <2>2 DEF DelegateOpen, StockOpen
    <3>2. uinput_fd' \in [Devs -> Fds \cup {NoFd}]
      BY <1>7, <2>2 DEF DelegateOpen, StockOpen
    <3>3. node' \in [Fds -> Node \cup {NoNode}]
      <4>1. [dev |-> d, kind |-> "kbd"] \in Node
        OBVIOUS
      <4> QED
        BY <1>7, <2>2, <4>1 DEF DelegateOpen, StockOpen
    <3> QED
      BY <1>7, <3>1, <3>2, <3>3 DEF DelegateOpen
  <2> QED
    BY <2>1, <2>2
<1>8. ASSUME NEW d \in Devs, ReplaceOld(d) PROVE TypeOK'
  <2>1. g_tab' \in [Slots -> Entry]
    BY <1>8, FreeSlotType DEF ReplaceOld
  <2>2. node' \in [Fds -> Node \cup {NoNode}]
    BY <1>8 DEF ReplaceOld, Destroyed
  <2> QED
    BY <1>8, <2>1, <2>2 DEF ReplaceOld
<1>9. ASSUME NEW d \in Devs, PickSlot(d) PROVE TypeOK'
  BY <1>9 DEF PickSlot
<1>10. ASSUME NEW d \in Devs, FillAndUnlock(d) PROVE TypeOK'
  <2>1. NewEntry(d) \in Entry
    BY DEF NewEntry, Entry
  <2>2. g_tab' \in [Slots -> Entry]
    BY <1>10, <2>1 DEF FillAndUnlock
  <2> QED
    BY <1>10, <2>2 DEF FillAndUnlock
<1>11. ASSUME NEW d \in Devs, TableFull(d) PROVE TypeOK'
  BY <1>11 DEF TableFull, Destroyed
<1>12. ASSUME NEW d \in Devs, Publish(d) PROVE TypeOK'
  BY <1>12 DEF Publish
<1>13. ASSUME NEW d \in Devs, EmitReport(d) PROVE TypeOK'
  BY <1>13 DEF EmitReport
<1>14. ASSUME NEW d \in Devs, StockSend(d) PROVE TypeOK'
  BY <1>14 DEF StockSend
<1>15. ASSUME NEW d \in Devs, DestroyNode(d) PROVE TypeOK'
  BY <1>15 DEF DestroyNode, Destroyed
<1>16. ASSUME NEW d \in Devs, ClearFlag(d) PROVE TypeOK'
  BY <1>16 DEF ClearFlag
<1>17. ASSUME NEW d \in Devs, StockClose(d) PROVE TypeOK'
  BY <1>17 DEF StockClose, Destroyed
<1>18. CASE UNCHANGED vars
  BY <1>18 DEF vars
<1> QED
  BY <1>1, <1>2, <1>3, <1>4, <1>5, <1>6, <1>7, <1>8, <1>9, <1>10, <1>11,
     <1>12, <1>13, <1>14, <1>15, <1>16, <1>17, <1>18 DEF Next, Call, Step

(* The table, the kernel's descriptors, the device structs and the locals  *)
(* of the calls always have their types.                                   *)
THEOREM TypeCorrect == Spec => []TypeOK
<1>1. Init => TypeOK
  BY MaxManagedAssumption
     DEF Init, TypeOK, EmptySlot, Entry, Kinds, Labels, NoFd, NoSlot
<1>2. TypeOK /\ [Next]_vars => TypeOK'
  BY TypeInductive
<1> QED
  BY <1>1, <1>2, PTL DEF Spec

-----------------------------------------------------------------------------
(* What a step of e's call may touch: its own slots and nodes, free slots  *)
(* (filled only under the mutex) and free descriptors, its own struct and  *)
(* locals, and the mutex when it is free or e's.                           *)
Footprint(e) ==
  /\ \A s \in Slots : g_tab'[s] # g_tab[s] =>
       /\ g_tab[s].active => g_tab[s].dev = e
       /\ g_tab'[s].active => g_tab'[s].dev = e /\ g_lock = e
  /\ \A f \in Fds : node'[f] # node[f] =>
       /\ node[f] # NoNode => node[f].dev = e
       /\ node'[f] # NoNode => node'[f].dev = e
  /\ \A d \in Devs \ {e} :
       /\ pc'[d] = pc[d] /\ kind'[d] = kind[d] /\ fd'[d] = fd[d]
       /\ m'[d] = m[d] /\ uinput_flag'[d] = uinput_flag[d]
       /\ uinput_fd'[d] = uinput_fd[d]
  /\ g_lock' # g_lock => {g_lock, g_lock'} \subseteq {NoDev, e}

(* The slots of another device keep their entries, and it gets no new one. *)
LEMMA SlotsKept ==
  ASSUME NEW e \in Devs, NEW d \in Devs \ {e}, Footprint(e), NEW s \in Slots
  PROVE  /\ Holds(s, d)' <=> Holds(s, d)
         /\ Holds(s, d) => g_tab'[s] = g_tab[s]
BY DEF Footprint, Holds

(* The nodes of another device stay open, and it gets no new one.          *)
LEMMA NodesKept ==
  ASSUME NEW e \in Devs, NEW d \in Devs \ {e}, Footprint(e), TypeOK, TypeOK',
         NEW k \in Kinds \cup {"kbd"}
  PROVE  \A f : OpenOn(f)' = [dev |-> d, kind |-> k]
                  <=> OpenOn(f) = [dev |-> d, kind |-> k]
<1> SUFFICES ASSUME NEW f \in Fds
             PROVE  node'[f] = [dev |-> d, kind |-> k]
                      <=> node[f] = [dev |-> d, kind |-> k]
  <2>1. [dev |-> d, kind |-> k] \in Node
    BY DEF Node
  <2> QED
    BY <2>1, NoNodeAssumption DEF OpenOn
<1>1. node[f] \in Node \cup {NoNode} /\ node'[f] \in Node \cup {NoNode}
  BY DEF TypeOK
<1>2. [dev |-> d, kind |-> k] # NoNode
  BY NoNodeAssumption DEF Node
<1>3. CASE node'[f] = node[f]
  BY <1>3
<1>4. CASE node'[f] # node[f]
  BY <1>1, <1>2, <1>4 DEF Footprint
<1> QED
  BY <1>3, <1>4

(* A step of one device's call disturbs nothing of another device.         *)
LEMMA Isolated ==
  ASSUME ShimInv, TypeOK', NEW e \in Devs, NEW d \in Devs \ {e}, Footprint(e)
  PROVE  DevInv(d)'
<1> DEFINE Of(k) == [dev |-> d, kind |-> k]
<1>1. \A s \in Slots : /\ Holds(s, d)' <=> Holds(s, d)
                       /\ Holds(s, d) => g_tab'[s] = g_tab[s]
  BY SlotsKept
<1>2. \A k \in Kinds \cup {"kbd"} : \A f : OpenOn(f)' = Of(k) <=> OpenOn(f) = Of(k)
  BY NodesKept DEF ShimInv
<1>3. /\ pc'[d] = pc[d] /\ kind'[d] = kind[d] /\ fd'[d] = fd[d]
      /\ m'[d] = m[d] /\ uinput_flag'[d] = uinput_flag[d]
      /\ uinput_fd'[d] = uinput_fd[d]
  BY DEF Footprint
<1>4. DevInv(d)
  BY DEF ShimInv
<1>5. LockInv(d)'
  BY <1>3, <1>4, NoDevAssumption DEF DevInv, LockInv, Footprint
<1>6. EntryInv(d)'
  <2>1. \A s \in Slots : g_tab[s].kind \in Kinds
    BY DEF ShimInv, TypeOK, Entry
  <2> QED
    BY <2>1, <1>1, <1>2, <1>4 DEF DevInv, EntryInv
<1>7. NodeInv(d)'
  <2> SUFFICES ASSUME NEW f \in Fds, NEW k \in Kinds, node'[f] = Of(k)
               PROVE  \/ \E s \in Slots : Holds(s, d)' /\ g_tab'[s].fd = f
                      \/ fd'[d] = f /\ pc'[d] \in Opening \cup {"destroy"}
    BY DEF NodeInv
  <2>1. node[f] = Of(k)
    BY <1>2 DEF OpenOn
  <2> QED
    BY <2>1, <1>1, <1>3, <1>4 DEF DevInv, NodeInv
<1>8. OpeningInv(d)'
  <2>1. kind[d] \in Kinds
    BY DEF ShimInv, TypeOK
  <2> QED
    BY <2>1, <1>1, <1>2, <1>3, <1>4 DEF DevInv, OpeningInv
<1>9. FillInv(d)'
  BY <1>3, <1>4 DEF DevInv, FillInv, LockInv, Footprint, At, ShimInv, TypeOK
<1>10. SlotInv(d)'
  BY <1>1, <1>3, <1>4 DEF DevInv, SlotInv, At, ShimInv, TypeOK
<1>11. UnmanagedInv(d)'
  BY <1>1, <1>3, <1>4 DEF DevInv, UnmanagedInv, Managed
<1>12. DestroyInv(d)'
  BY <1>2, <1>3, <1>4 DEF DevInv, DestroyInv, At
<1>13. ManagedStructInv(d)'
  BY <1>1, <1>3, <1>4 DEF DevInv, ManagedStructInv, At
<1>14. StockInv(d)'
  <2>1. StockOwn(d)' <=> StockOwn(d)
    BY <1>2, <1>3 DEF StockOwn
  <2>2. Managed(d)' <=> Managed(d)
    BY <1>1 DEF Managed
  <2>3. At(d, "pick") => \A s \in Slots : g_tab'[s].active => g_tab[s].active
    BY <1>4 DEF DevInv, LockInv, At, Footprint
  <2> QED
    BY <2>1, <2>2, <2>3, <1>3, <1>4 DEF DevInv, StockInv, At
<1> QED
  BY <1>5, <1>6, <1>7, <1>8, <1>9, <1>10, <1>11, <1>12, <1>13, <1>14
     DEF DevInv

-----------------------------------------------------------------------------
(* Each action keeps its own device's invariant and its footprint.         *)

OthersKept(d) == \A e \in Devs \ {d} :
  /\ pc'[e] = pc[e] /\ kind'[e] = kind[e] /\ fd'[e] = fd[e]
  /\ m'[e] = m[e] /\ uinput_flag'[e] = uinput_flag[e]
  /\ uinput_fd'[e] = uinput_fd[e]

(* The control points at which a call holds nothing.                       *)
Quiet == {"idle", "create", "delegate", "emit", "sendstock", "closestock"}

(* A step between two such points that touches neither the table, the      *)
(* kernel nor the device structs.                                          *)
LEMMA QuietMove ==
  ASSUME ShimInv, NEW d \in Devs, OthersKept(d),
         UNCHANGED <<g_tab, g_lock, uinput_flag, uinput_fd, node>>,
         pc[d] \in Quiet, pc'[d] \in Quiet,
         pc'[d] = "emit" => m'[d] # NoSlot /\ Holds(m'[d], d),
         pc'[d] \in {"sendstock", "closestock"} => ~ Managed(d)
  PROVE  Footprint(d) /\ DevInv(d)'
<1>1. Footprint(d)
  BY DEF Footprint, OthersKept
<1>2. /\ \A s : Holds(s, d)' <=> Holds(s, d)
      /\ \A f : OpenOn(f)' = OpenOn(f)
  BY DEF Holds, OpenOn
<1>3. Managed(d)' <=> Managed(d)
  BY <1>2 DEF Managed
<1>4. DevInv(d)
  BY DEF ShimInv
<1>5. LockInv(d)'
  BY <1>4 DEF DevInv, LockInv, Quiet
<1>6. EntryInv(d)'
  BY <1>2, <1>4 DEF DevInv, EntryInv
<1>7. NodeInv(d)'
  BY <1>2, <1>4 DEF DevInv, NodeInv, Quiet, Opening
<1>8. OpeningInv(d)' /\ FillInv(d)' /\ DestroyInv(d)'
  BY DEF OpeningInv, FillInv, DestroyInv, Quiet, Opening, At
<1>9. SlotInv(d)'
  BY <1>2 DEF SlotInv, Quiet, At
<1>10. UnmanagedInv(d)'
  BY <1>3 DEF UnmanagedInv, Quiet
<1>11. ManagedStructInv(d)'
  BY <1>2, <1>4 DEF DevInv, ManagedStructInv, Quiet, At
<1>12. StockInv(d)'
  <2>1. StockOwn(d)' <=> StockOwn(d)
    BY <1>2 DEF StockOwn
  <2> QED
    BY <2>1, <1>3, <1>4 DEF DevInv, StockInv, Quiet, At
<1> QED
  BY <1>1, <1>5, <1>6, <1>7, <1>8, <1>9, <1>10, <1>11, <1>12 DEF DevInv

LEMMA OpenCallKeeps ==
  ASSUME ShimInv, NEW d \in Devs, OpenCall(d)
  PROVE  Footprint(d) /\ DevInv(d)'
<1>1. pc[d] \in Quiet /\ pc'[d] \in {"create", "delegate"} /\ OthersKept(d)
  BY DEF OpenCall, Goto, At, locals, devvars, OthersKept, Quiet, ShimInv, TypeOK
<1> QED
  BY <1>1, QuietMove DEF OpenCall, Quiet, tabvars, devvars

LEMMA CreateFailsKeeps ==
  ASSUME ShimInv, NEW d \in Devs, CreateFails(d)
  PROVE  Footprint(d) /\ DevInv(d)'
<1>1. pc[d] \in Quiet /\ pc'[d] = "delegate" /\ OthersKept(d)
  BY DEF CreateFails, Goto, At, locals, devvars, OthersKept, Quiet, ShimInv, TypeOK
<1> QED
  BY <1>1, QuietMove DEF CreateFails, Quiet, tabvars, devvars

LEMMA SendCallKeeps ==
  ASSUME ShimInv, NEW d \in Devs, SendCall(d)
  PROVE  Footprint(d) /\ DevInv(d)'
<1>1. pc[d] \in Quiet /\ OthersKept(d)
  BY DEF SendCall, Goto, At, locals, devvars, OthersKept, Quiet, ShimInv, TypeOK
<1>2. \/ pc'[d] = "emit" /\ m'[d] # NoSlot /\ Holds(m'[d], d)
      \/ pc'[d] = "idle"
      \/ pc'[d] = "sendstock" /\ ~ Managed(d)
  BY DEF SendCall, Goto, At, Found, ShimInv, TypeOK, Slots, NoSlot
<1> QED
  BY <1>1, <1>2, QuietMove DEF SendCall, Quiet, tabvars, devvars

LEMMA EmitReportKeeps ==
  ASSUME ShimInv, NEW d \in Devs, EmitReport(d)
  PROVE  Footprint(d) /\ DevInv(d)'
<1>1. pc[d] \in Quiet /\ pc'[d] = "idle" /\ OthersKept(d)
  BY DEF EmitReport, Return, Goto, At, devvars, OthersKept, Quiet, ShimInv, TypeOK
<1> QED
  BY <1>1, QuietMove DEF EmitReport, Quiet, tabvars, devvars

LEMMA StockSendKeeps ==
  ASSUME ShimInv, NEW d \in Devs, StockSend(d)
  PROVE  Footprint(d) /\ DevInv(d)'
<1>1. pc[d] \in Quiet /\ pc'[d] = "idle" /\ OthersKept(d)
  BY DEF StockSend, Return, Goto, At, devvars, OthersKept, Quiet, ShimInv, TypeOK
<1> QED
  BY <1>1, QuietMove DEF StockSend, Quiet, tabvars, devvars

LEMMA LockKeeps ==
  ASSUME ShimInv, NEW d \in Devs, Lock(d)
  PROVE  Footprint(d) /\ DevInv(d)'
<1>1. /\ pc[d] = "lock" /\ pc'[d] = "replace" /\ OthersKept(d)
      /\ g_lock = NoDev /\ g_lock' = d
  BY DEF Lock, Goto, At, locals, devvars, OthersKept, ShimInv, TypeOK
<1>2. UNCHANGED <<g_tab, uinput_flag, uinput_fd, node, kind, fd, m>>
  BY DEF Lock, devvars, locals
<1>3. /\ \A s : Holds(s, d)' <=> Holds(s, d)
      /\ \A f : OpenOn(f)' = OpenOn(f)
      /\ Managed(d)' <=> Managed(d)
      /\ StockOwn(d)' <=> StockOwn(d)
  BY <1>2 DEF Holds, OpenOn, Managed, StockOwn
<1>4. Footprint(d)
  BY <1>1, <1>2 DEF Footprint, OthersKept
<1>5. DevInv(d)
  BY DEF ShimInv
<1>6. LockInv(d)' /\ FillInv(d)' /\ SlotInv(d)' /\ UnmanagedInv(d)' /\ DestroyInv(d)'
  BY <1>1 DEF LockInv, FillInv, SlotInv, UnmanagedInv, DestroyInv, At
<1>7. EntryInv(d)' /\ ManagedStructInv(d)'
  BY <1>1, <1>2, <1>3, <1>5 DEF DevInv, EntryInv, ManagedStructInv, At
<1>8. NodeInv(d)'
  BY <1>1, <1>2, <1>3, <1>5 DEF DevInv, NodeInv, Opening
<1>9. OpeningInv(d)'
  BY <1>1, <1>2, <1>3, <1>5 DEF DevInv, OpeningInv, Opening
<1>10. StockInv(d)'
  BY <1>1, <1>3, <1>5 DEF DevInv, StockInv, At
<1> QED
  BY <1>4, <1>6, <1>7, <1>8, <1>9, <1>10 DEF DevInv

LEMMA CreateNodeKeeps ==
  ASSUME ShimInv, NEW d \in Devs, CreateNode(d)
  PROVE  Footprint(d) /\ DevInv(d)'
<1> PICK f \in Fds :
      /\ LowestFree(f)
      /\ node' = [node EXCEPT ![f] = [dev |-> d, kind |-> kind[d]]]
      /\ fd' = [fd EXCEPT ![d] = f]
  BY DEF CreateNode
<1> DEFINE New == [dev |-> d, kind |-> kind[d]]
<1>1. /\ pc[d] = "create" /\ pc'[d] = "lock" /\ fd'[d] = f /\ OthersKept(d)
  BY DEF CreateNode, Goto, At, devvars, OthersKept, ShimInv, TypeOK
<1>2. UNCHANGED <<g_tab, g_lock, uinput_flag, uinput_fd, kind, m>>
  BY DEF CreateNode, tabvars, devvars
<1>3. New \in Node /\ New # NoNode
  BY NoNodeAssumption DEF Node, ShimInv, TypeOK
<1>4. /\ \A s : Holds(s, d)' <=> Holds(s, d)
      /\ Managed(d)' <=> Managed(d)
  BY <1>2 DEF Holds, Managed
<1>5. /\ OpenOn(f) = NoNode /\ OpenOn(f)' = New
      /\ \A g : g # f => OpenOn(g)' = OpenOn(g)
  BY DEF OpenOn, LowestFree, ShimInv, TypeOK
<1>6. DevInv(d)
  BY DEF ShimInv
<1>7. Footprint(d)
  BY <1>1, <1>2 DEF Footprint, OthersKept, LowestFree, ShimInv, TypeOK
<1>8. \A s \in Slots : Holds(s, d) => g_tab[s].fd # f
  <2> SUFFICES ASSUME NEW s \in Slots, Holds(s, d), g_tab[s].fd = f
               PROVE  FALSE
    OBVIOUS
  <2>1. [dev |-> d, kind |-> g_tab[s].kind] # NoNode
    BY NoNodeAssumption DEF Node, ShimInv, TypeOK, Entry
  <2> QED
    BY <2>1, <1>5, <1>6 DEF DevInv, EntryInv
<1>9. LockInv(d)' /\ FillInv(d)' /\ SlotInv(d)' /\ UnmanagedInv(d)' /\ DestroyInv(d)'
  BY <1>1, <1>2, <1>6
     DEF DevInv, LockInv, FillInv, SlotInv, UnmanagedInv, DestroyInv, At
<1>10. EntryInv(d)' /\ ManagedStructInv(d)'
  BY <1>1, <1>2, <1>4, <1>5, <1>6, <1>8 DEF DevInv, EntryInv, ManagedStructInv, At
<1>11. NodeInv(d)'
  <2> SUFFICES ASSUME NEW g \in Fds, NEW k \in Kinds, g # f,
                      node'[g] = [dev |-> d, kind |-> k]
               PROVE  \E s \in Slots : Holds(s, d)' /\ g_tab'[s].fd = g
    BY <1>1 DEF NodeInv, Opening
  <2>1. node[g] = [dev |-> d, kind |-> k]
    BY <1>5 DEF OpenOn
  <2> QED
    BY <2>1, <1>1, <1>2, <1>4, <1>6 DEF DevInv, NodeInv, Opening
<1>12. OpeningInv(d)'
  BY <1>1, <1>2, <1>4, <1>5, <1>8 DEF OpeningInv
<1>13. StockInv(d)'
  <2>1. [dev |-> d, kind |-> "kbd"] # NoNode
    BY NoNodeAssumption DEF Node
  <2>2. StockOwn(d) => StockOwn(d)'
    BY <2>1, <1>2, <1>5 DEF StockOwn
  <2> QED
    BY <2>2, <1>1, <1>4, <1>6 DEF DevInv, StockInv, At
<1> QED
  BY <1>7, <1>9, <1>10, <1>11, <1>12, <1>13 DEF DevInv

LEMMA DelegateOpenKeeps ==
  ASSUME ShimInv, NEW d \in Devs, DelegateOpen(d)
  PROVE  Footprint(d) /\ DevInv(d)'
<1>1. pc[d] = "delegate" /\ pc'[d] = "idle" /\ OthersKept(d)
  BY DEF DelegateOpen, StockOpen, Return, Goto, At, devvars, OthersKept,
         ShimInv, TypeOK
<1>2. CASE uinput_flag[d]
  <2>1. UNCHANGED <<g_tab, g_lock, uinput_flag, uinput_fd, node>>
    BY <1>2 DEF DelegateOpen, StockOpen, tabvars, devvars
  <2> QED
    BY <1>1, <2>1, QuietMove DEF Quiet
<1>3. CASE ~ uinput_flag[d]
  <2>1. UNCHANGED <<g_tab, g_lock>>
    BY DEF DelegateOpen, tabvars
  <2>2. DevInv(d)
    BY DEF ShimInv
  <2>3. ~ Managed(d)
    BY <1>1, <1>3, <2>2 DEF DevInv, ManagedStructInv, Managed, At
  <2>4. \A s \in Slots : ~ Holds(s, d)'
    BY <2>1, <2>3 DEF Managed, Holds
  <2> DEFINE Kbd == [dev |-> d, kind |-> "kbd"]
  <2>5. /\ \A g \in Fds : node'[g] # node[g] => node[g] = NoNode /\ node'[g] = Kbd
        /\ StockOwn(d)'
    <3>1. CASE \E f \in Fds : /\ LowestFree(f)
                              /\ node' = [node EXCEPT ![f] = Kbd]
                              /\ uinput_fd' = [uinput_fd EXCEPT ![d] = f]
      BY <3>1 DEF StockOwn, OpenOn, LowestFree, ShimInv, TypeOK
    <3>2. CASE uinput_fd' = [uinput_fd EXCEPT ![d] = NoFd] /\ UNCHANGED node
      BY <3>2 DEF StockOwn, ShimInv, TypeOK
    <3> QED
      BY <1>3, <3>1, <3>2 DEF DelegateOpen, StockOpen
  <2>6. Footprint(d)
    BY <1>1, <2>1, <2>5 DEF Footprint, OthersKept
  <2>7. LockInv(d)' /\ OpeningInv(d)' /\ FillInv(d)' /\ SlotInv(d)' /\ UnmanagedInv(d)'
          /\ DestroyInv(d)'
    BY <1>1, <2>1, <2>2 DEF DevInv, LockInv, OpeningInv, FillInv, SlotInv,
       UnmanagedInv, DestroyInv, Opening, At
  <2>8. EntryInv(d)' /\ ManagedStructInv(d)'
    BY <2>4 DEF EntryInv, ManagedStructInv
  <2>9. NodeInv(d)'
    <3> SUFFICES ASSUME NEW g \in Fds, NEW k \in Kinds,
                        node'[g] = [dev |-> d, kind |-> k]
                 PROVE  FALSE
      BY DEF NodeInv
    <3>1. Kbd # [dev |-> d, kind |-> k]
      BY DEF Kinds
    <3>2. node[g] = [dev |-> d, kind |-> k]
      BY <2>5, <3>1
    <3> QED
      BY <3>2, <1>1, <2>2, <2>3 DEF DevInv, NodeInv, Opening, Managed
  <2>10. StockInv(d)'
    BY <2>5 DEF StockInv
  <2> QED
    BY <2>6, <2>7, <2>8, <2>9, <2>10 DEF DevInv
<1> QED
  BY <1>2, <1>3

(* uinput_destroy closes its argument and nothing else.                    *)
LEMMA DestroyEffect ==
  ASSUME NEW f, node' = Destroyed(f)
  PROVE  /\ OpenOn(f)' = NoNode
         /\ \A g : g # f => OpenOn(g)' = OpenOn(g)
         /\ \A g \in Fds : node'[g] # node[g] => g = f /\ node'[g] = NoNode
BY DEF Destroyed, OpenOn

LEMMA ReplaceOldKeeps ==
  ASSUME ShimInv, NEW d \in Devs, ReplaceOld(d)
  PROVE  Footprint(d) /\ DevInv(d)'
<1>1. /\ pc[d] = "replace" /\ pc'[d] = "pick" /\ OthersKept(d)
  BY DEF ReplaceOld, Goto, At, locals, devvars, OthersKept, ShimInv, TypeOK
<1>2. UNCHANGED <<g_lock, uinput_flag, uinput_fd, kind, fd, m>>
  BY DEF ReplaceOld, devvars, locals
<1>3. DevInv(d)
  BY DEF ShimInv
<1>4. g_lock = d
  BY <1>1, <1>3 DEF DevInv, LockInv
<1>5. CASE ~ Managed(d) /\ UNCHANGED <<g_tab, node>>
  <2>1. /\ \A s : Holds(s, d)' <=> Holds(s, d)
        /\ \A f : OpenOn(f)' = OpenOn(f)
        /\ Managed(d)' <=> Managed(d)
        /\ StockOwn(d)' <=> StockOwn(d)
    BY <1>2, <1>5 DEF Holds, OpenOn, Managed, StockOwn
  <2>2. Footprint(d)
    BY <1>1, <1>2, <1>5 DEF Footprint, OthersKept
  <2>3. LockInv(d)' /\ FillInv(d)' /\ SlotInv(d)' /\ DestroyInv(d)'
    BY <1>1, <1>2, <1>4 DEF LockInv, FillInv, SlotInv, DestroyInv, At
  <2>4. EntryInv(d)' /\ ManagedStructInv(d)' /\ UnmanagedInv(d)'
    BY <2>1, <1>5 DEF EntryInv, ManagedStructInv, UnmanagedInv, Managed
  <2>5. NodeInv(d)'
    BY <1>1, <1>2, <1>3, <1>5, <2>1 DEF DevInv, NodeInv, Opening
  <2>6. OpeningInv(d)'
    BY <1>1, <1>2, <1>3, <1>5, <2>1 DEF DevInv, OpeningInv, Opening
  <2>7. StockInv(d)'
    BY <1>1, <1>3, <1>5, <2>1 DEF DevInv, StockInv, At
  <2> QED
    BY <2>2, <2>3, <2>4, <2>5, <2>6, <2>7 DEF DevInv
<1>6. CASE \E s \in Slots : /\ Found(d, s)
                            /\ node' = Destroyed(g_tab[s].fd)
                            /\ g_tab' = [g_tab EXCEPT ![s].active = FALSE]
  <2> PICK s \in Slots : /\ Found(d, s)
                         /\ node' = Destroyed(g_tab[s].fd)
                         /\ g_tab' = [g_tab EXCEPT ![s].active = FALSE]
    BY <1>6
  <2> DEFINE old == g_tab[s].fd
  <2>1. /\ Holds(s, d)
        /\ ~ g_tab'[s].active
        /\ \A r \in Slots : r # s => g_tab'[r] = g_tab[r]
    BY DEF Found, ShimInv, TypeOK, Entry
  <2>2. \A r \in Slots : Holds(r, d) => r = s
    BY <1>3, <2>1 DEF DevInv, EntryInv
  <2>3. \A r \in Slots : ~ Holds(r, d)'
    BY <2>1, <2>2 DEF Holds
  <2>4. OpenOn(old) = [dev |-> d, kind |-> g_tab[s].kind] /\ fd[d] # old
    BY <1>1, <1>3, <2>1 DEF DevInv, EntryInv, OpeningInv, Opening
  <2>5. /\ OpenOn(old)' = NoNode
        /\ \A g : g # old => OpenOn(g)' = OpenOn(g)
        /\ \A g \in Fds : node'[g] # node[g] => g = old /\ node'[g] = NoNode
    BY DestroyEffect
  <2>6. Footprint(d)
    BY <1>1, <1>2, <2>1, <2>4, <2>5 DEF Footprint, OthersKept, OpenOn, Holds
  <2>7. LockInv(d)' /\ FillInv(d)' /\ SlotInv(d)' /\ DestroyInv(d)'
    BY <1>1, <1>2, <1>4 DEF LockInv, FillInv, SlotInv, DestroyInv, At
  <2>8. EntryInv(d)' /\ ManagedStructInv(d)' /\ UnmanagedInv(d)'
    BY <2>3 DEF EntryInv, ManagedStructInv, UnmanagedInv, Managed
  <2>9. OpeningInv(d)'
    BY <1>1, <1>2, <1>3, <2>3, <2>4, <2>5 DEF DevInv, OpeningInv, Opening
  <2>10. NodeInv(d)'
    <3> SUFFICES ASSUME NEW g \in Fds, NEW k \in Kinds,
                        node'[g] = [dev |-> d, kind |-> k]
                 PROVE  fd'[d] = g
      BY <1>1 DEF NodeInv, Opening
    <3>1. [dev |-> d, kind |-> k] # NoNode
      BY NoNodeAssumption DEF Node
    <3>2. g # old /\ node[g] = [dev |-> d, kind |-> k]
      BY <2>5, <3>1 DEF OpenOn
    <3> QED
      BY <3>2, <1>2, <1>3, <2>2 DEF DevInv, NodeInv
  <2>11. StockInv(d)'
    BY <1>1, <2>1 DEF StockInv, At
  <2> QED
    BY <2>6, <2>7, <2>8, <2>9, <2>10, <2>11 DEF DevInv
<1> QED
  BY <1>5, <1>6 DEF ReplaceOld

LEMMA PickSlotKeeps ==
  ASSUME ShimInv, NEW d \in Devs, PickSlot(d)
  PROVE  Footprint(d) /\ DevInv(d)'
<1>1. /\ pc[d] = "pick" /\ pc'[d] = "fill" /\ OthersKept(d)
  BY DEF PickSlot, Goto, At, devvars, OthersKept, ShimInv, TypeOK
<1>2. UNCHANGED <<g_tab, g_lock, uinput_flag, uinput_fd, node, kind, fd>>
  BY DEF PickSlot, tabvars, devvars
<1>3. /\ m'[d] # NoSlot => ~ g_tab[m'[d]].active
      /\ m'[d] = NoSlot => \A s \in Slots : g_tab[s].active
  BY DEF PickSlot, FirstFree, ShimInv, TypeOK, Slots, NoSlot
<1>4. DevInv(d)
  BY DEF ShimInv
<1>5. /\ \A s : Holds(s, d)' <=> Holds(s, d)
      /\ \A f : OpenOn(f)' = OpenOn(f)
      /\ Managed(d)' <=> Managed(d)
      /\ StockOwn(d)' <=> StockOwn(d)
  BY <1>2 DEF Holds, OpenOn, Managed, StockOwn
<1>6. Footprint(d)
  BY <1>1, <1>2 DEF Footprint, OthersKept
<1>7. LockInv(d)' /\ FillInv(d)' /\ SlotInv(d)' /\ DestroyInv(d)'
  BY <1>1, <1>2, <1>3, <1>4 DEF DevInv, LockInv, FillInv, SlotInv, DestroyInv, At
<1>8. EntryInv(d)' /\ ManagedStructInv(d)' /\ UnmanagedInv(d)'
  BY <1>1, <1>4, <1>5 DEF DevInv, EntryInv, ManagedStructInv, UnmanagedInv, Managed
<1>9. NodeInv(d)'
  BY <1>1, <1>2, <1>4, <1>5 DEF DevInv, NodeInv, Opening
<1>10. OpeningInv(d)'
  BY <1>1, <1>2, <1>4, <1>5 DEF DevInv, OpeningInv, Opening
<1>11. StockInv(d)'
  BY <1>1, <1>3, <1>4, <1>5 DEF DevInv, StockInv, UnmanagedInv, At
<1> QED
  BY <1>6, <1>7, <1>8, <1>9, <1>10, <1>11 DEF DevInv

LEMMA FillAndUnlockKeeps ==
  ASSUME ShimInv, NEW d \in Devs, FillAndUnlock(d)
  PROVE  Footprint(d) /\ DevInv(d)'
<1>1. pc[d] = "fill" /\ OthersKept(d) /\ g_lock' = NoDev
  BY DEF FillAndUnlock, Goto, At, locals, devvars, OthersKept, ShimInv, TypeOK
<1>2. UNCHANGED <<uinput_flag, uinput_fd, node, kind, fd, m>>
  BY DEF FillAndUnlock, devvars, locals
<1>3. DevInv(d)
  BY DEF ShimInv
<1>4. g_lock = d /\ ~ Managed(d) /\ d # NoDev
  BY <1>1, <1>3, NoDevAssumption DEF DevInv, LockInv, UnmanagedInv
<1>5. \A f : OpenOn(f)' = OpenOn(f)
  BY <1>2 DEF OpenOn
<1>6. CASE m[d] = NoSlot
  <2>1. pc'[d] = "full" /\ UNCHANGED g_tab
    BY <1>6 DEF FillAndUnlock, Goto, ShimInv, TypeOK
  <2>2. (\A s : Holds(s, d)' <=> Holds(s, d)) /\ ~ Managed(d)'
    BY <1>4, <2>1 DEF Holds, Managed
  <2>3. Footprint(d)
    BY <1>1, <1>2, <1>4, <2>1 DEF Footprint, OthersKept
  <2>4. LockInv(d)' /\ FillInv(d)' /\ SlotInv(d)' /\ DestroyInv(d)' /\ UnmanagedInv(d)'
    BY <1>1, <1>4, <2>1, <2>2
       DEF LockInv, FillInv, SlotInv, DestroyInv, UnmanagedInv, At
  <2>5. EntryInv(d)' /\ ManagedStructInv(d)'
    BY <2>2 DEF EntryInv, ManagedStructInv, Managed
  <2>6. NodeInv(d)' /\ OpeningInv(d)'
    BY <1>1, <1>2, <1>3, <1>5, <2>1, <2>2 DEF DevInv, NodeInv, OpeningInv, Opening
  <2>7. StockInv(d)'
    BY <1>1, <1>2, <1>3, <1>4, <1>5, <1>6 DEF DevInv, StockInv, StockOwn, At
  <2> QED
    BY <2>3, <2>4, <2>5, <2>6, <2>7 DEF DevInv
<1>7. CASE m[d] # NoSlot
  <2>1. /\ pc'[d] = "publish" /\ m[d] \in Slots
        /\ g_tab' = [g_tab EXCEPT ![m[d]] = NewEntry(d)]
    BY <1>7 DEF FillAndUnlock, Goto, ShimInv, TypeOK
  <2>2. /\ g_tab'[m[d]] = NewEntry(d)
        /\ \A r \in Slots : r # m[d] => g_tab'[r] = g_tab[r]
    BY <2>1 DEF ShimInv, TypeOK
  <2>3. \A r \in Slots : Holds(r, d)' <=> r = m[d]
    BY <1>4, <2>1, <2>2 DEF Holds, Managed, NewEntry
  <2>4. ~ g_tab[m[d]].active
    BY <1>1, <1>3, <1>7 DEF DevInv, FillInv, At
  <2>5. Footprint(d)
    BY <1>1, <1>2, <1>4, <2>2, <2>4 DEF Footprint, OthersKept, NewEntry
  <2>6. OpenOn(fd[d]) = [dev |-> d, kind |-> kind[d]]
    BY <1>1, <1>3 DEF DevInv, OpeningInv, Opening
  <2>7. LockInv(d)' /\ FillInv(d)' /\ DestroyInv(d)' /\ UnmanagedInv(d)' /\ OpeningInv(d)'
    BY <1>1, <1>4, <2>1
       DEF LockInv, FillInv, DestroyInv, UnmanagedInv, OpeningInv, Opening, At
  <2>8. SlotInv(d)' /\ ManagedStructInv(d)'
    BY <1>2, <1>7, <2>1, <2>2, <2>3 DEF SlotInv, ManagedStructInv, At, NewEntry
  <2>9. EntryInv(d)'
    BY <1>5, <2>2, <2>3, <2>6 DEF EntryInv, NewEntry
  <2>10. NodeInv(d)'
    <3> SUFFICES ASSUME NEW g \in Fds, NEW k \in Kinds,
                        node[g] = [dev |-> d, kind |-> k]
                 PROVE  \E s \in Slots : Holds(s, d)' /\ g_tab'[s].fd = g
      BY <1>2, <2>1 DEF NodeInv
    <3>1. fd[d] = g
      BY <1>3, <1>4 DEF DevInv, NodeInv, Managed
    <3> QED
      BY <3>1, <2>1, <2>2, <2>3 DEF NewEntry
  <2>11. StockInv(d)'
    BY <2>1, <2>3 DEF StockInv, Managed
  <2> QED
    BY <2>5, <2>7, <2>8, <2>9, <2>10, <2>11 DEF DevInv
<1> QED
  BY <1>6, <1>7

LEMMA TableFullKeeps ==
  ASSUME ShimInv, NEW d \in Devs, TableFull(d)
  PROVE  Footprint(d) /\ DevInv(d)'
<1>1. pc[d] = "full" /\ pc'[d] = "idle" /\ OthersKept(d)
  BY DEF TableFull, Return, Goto, At, devvars, OthersKept, ShimInv, TypeOK
<1>2. UNCHANGED <<g_tab, g_lock, uinput_flag, uinput_fd>>
  BY DEF TableFull, tabvars, devvars
<1>3. DevInv(d)
  BY DEF ShimInv
<1>4. /\ \A s : Holds(s, d)' <=> Holds(s, d)
      /\ \A s \in Slots : ~ Holds(s, d)
  BY <1>1, <1>2, <1>3 DEF DevInv, UnmanagedInv, Managed, Holds
<1>5. OpenOn(fd[d]) = [dev |-> d, kind |-> kind[d]]
  BY <1>1, <1>3 DEF DevInv, OpeningInv, Opening
<1> PICK f : f = fd[d]
  OBVIOUS
<1>6. /\ OpenOn(f)' = NoNode
      /\ \A g : g # f => OpenOn(g)' = OpenOn(g)
      /\ \A g \in Fds : node'[g] # node[g] => g = f /\ node'[g] = NoNode
  BY DestroyEffect DEF TableFull
<1>7. Footprint(d)
  BY <1>1, <1>2, <1>5, <1>6 DEF Footprint, OthersKept, OpenOn
<1>8. LockInv(d)' /\ FillInv(d)' /\ SlotInv(d)' /\ DestroyInv(d)' /\ UnmanagedInv(d)'
        /\ OpeningInv(d)'
  BY <1>1, <1>2, <1>3 DEF DevInv, LockInv, FillInv, SlotInv, DestroyInv,
     UnmanagedInv, OpeningInv, Opening, At
<1>9. EntryInv(d)' /\ ManagedStructInv(d)'
  BY <1>4 DEF EntryInv, ManagedStructInv
<1>10. NodeInv(d)'
  <2> SUFFICES ASSUME NEW g \in Fds, NEW k \in Kinds,
                      node'[g] = [dev |-> d, kind |-> k]
               PROVE  FALSE
    BY DEF NodeInv
  <2>1. [dev |-> d, kind |-> k] # NoNode
    BY NoNodeAssumption DEF Node
  <2>2. g # f /\ node[g] = [dev |-> d, kind |-> k]
    BY <1>6, <2>1 DEF OpenOn
  <2> QED
    BY <2>2, <1>3, <1>4 DEF DevInv, NodeInv
<1>11. StockInv(d)'
  <2>1. StockOwn(d)
    BY <1>1, <1>3, <1>4 DEF DevInv, StockInv, Managed, At
  <2>2. [dev |-> d, kind |-> "kbd"] # [dev |-> d, kind |-> kind[d]]
    BY DEF ShimInv, TypeOK, Kinds
  <2>3. StockOwn(d)'
    BY <2>1, <2>2, <1>2, <1>5, <1>6 DEF StockOwn
  <2> QED
    BY <2>3 DEF StockInv
<1> QED
  BY <1>7, <1>8, <1>9, <1>10, <1>11 DEF DevInv

LEMMA PublishKeeps ==
  ASSUME ShimInv, NEW d \in Devs, Publish(d)
  PROVE  Footprint(d) /\ DevInv(d)'
<1>1. /\ pc[d] = "publish" /\ pc'[d] = "idle" /\ OthersKept(d)
      /\ uinput_flag'[d] /\ uinput_fd'[d] = fd[d]
  BY DEF Publish, Return, Goto, At, OthersKept, ShimInv, TypeOK
<1>2. UNCHANGED <<g_tab, g_lock, node>>
  BY DEF Publish, tabvars
<1>3. DevInv(d)
  BY DEF ShimInv
<1>4. /\ \A s : Holds(s, d)' <=> Holds(s, d)
      /\ \A f : OpenOn(f)' = OpenOn(f)
      /\ m[d] \in Slots /\ Holds(m[d], d) /\ g_tab[m[d]].fd = fd[d]
  BY <1>1, <1>2, <1>3 DEF Holds, OpenOn, DevInv, SlotInv, At, ShimInv, TypeOK
<1>5. Footprint(d)
  BY <1>1, <1>2 DEF Footprint, OthersKept
<1>6. LockInv(d)' /\ FillInv(d)' /\ SlotInv(d)' /\ DestroyInv(d)' /\ UnmanagedInv(d)'
        /\ OpeningInv(d)'
  BY <1>1, <1>2, <1>3 DEF DevInv, LockInv, FillInv, SlotInv, DestroyInv,
     UnmanagedInv, OpeningInv, Opening, At
<1>7. EntryInv(d)' /\ ManagedStructInv(d)'
  BY <1>1, <1>2, <1>3, <1>4 DEF DevInv, EntryInv, ManagedStructInv
<1>8. NodeInv(d)'
  BY <1>1, <1>2, <1>3, <1>4 DEF DevInv, NodeInv, Opening
<1>9. StockInv(d)'
  BY <1>4 DEF StockInv, Managed
<1> QED
  BY <1>5, <1>6, <1>7, <1>8, <1>9 DEF DevInv

LEMMA CloseCallKeeps ==
  ASSUME ShimInv, NEW d \in Devs, CloseCall(d)
  PROVE  Footprint(d) /\ DevInv(d)'
<1>1. pc[d] = "idle" /\ OthersKept(d)
  BY DEF CloseCall, Goto, At, locals, devvars, OthersKept, ShimInv, TypeOK
<1>2. UNCHANGED <<g_lock, uinput_flag, uinput_fd, node, kind, m>>
  BY DEF CloseCall, devvars
<1>3. CASE ~ Managed(d) /\ Goto(d, "closestock") /\ UNCHANGED <<g_tab, fd>>
  <2>1. pc'[d] = "closestock"
    BY <1>3 DEF Goto, ShimInv, TypeOK
  <2> QED
    BY <1>1, <1>2, <1>3, <2>1, QuietMove DEF Quiet
<1>4. CASE \E s \in Slots : /\ Found(d, s)
                            /\ fd' = [fd EXCEPT ![d] = g_tab[s].fd]
                            /\ g_tab' = [g_tab EXCEPT ![s].active = FALSE]
                            /\ Goto(d, "destroy")
  <2> PICK s \in Slots : /\ Found(d, s)
                         /\ fd' = [fd EXCEPT ![d] = g_tab[s].fd]
                         /\ g_tab' = [g_tab EXCEPT ![s].active = FALSE]
                         /\ Goto(d, "destroy")
    BY <1>4
  <2>1. /\ Holds(s, d)
        /\ pc'[d] = "destroy"
        /\ fd'[d] = g_tab[s].fd
        /\ ~ g_tab'[s].active
        /\ \A r \in Slots : r # s => g_tab'[r] = g_tab[r]
    BY DEF Found, Goto, ShimInv, TypeOK, Entry
  <2>2. DevInv(d)
    BY DEF ShimInv
  <2>3. \A r \in Slots : Holds(r, d) => r = s
    BY <2>1, <2>2 DEF DevInv, EntryInv
  <2>4. \A r \in Slots : ~ Holds(r, d)'
    BY <2>1, <2>3 DEF Holds
  <2>5. Footprint(d)
    BY <1>1, <1>2, <2>1 DEF Footprint, OthersKept, Holds
  <2>6. LockInv(d)' /\ FillInv(d)' /\ SlotInv(d)' /\ OpeningInv(d)' /\ StockInv(d)'
    BY <1>1, <1>2, <2>1, <2>2 DEF DevInv, LockInv, FillInv, SlotInv,
       OpeningInv, Opening, StockInv, At
  <2>7. EntryInv(d)' /\ ManagedStructInv(d)' /\ UnmanagedInv(d)'
    BY <2>4 DEF EntryInv, ManagedStructInv, UnmanagedInv, Managed
  <2>8. DestroyInv(d)'
    <3>1. g_tab[s].kind \in Kinds
      BY DEF ShimInv, TypeOK, Entry
    <3>2. OpenOn(fd[d])' = [dev |-> d, kind |-> g_tab[s].kind]
      BY <1>2, <2>1, <2>2 DEF DevInv, EntryInv, OpenOn
    <3> QED
      BY <3>1, <3>2 DEF DestroyInv
  <2>9. NodeInv(d)'
    <3> SUFFICES ASSUME NEW g \in Fds, NEW k \in Kinds,
                        node[g] = [dev |-> d, kind |-> k]
                 PROVE  fd'[d] = g
      BY <1>2, <2>1 DEF NodeInv
    <3> QED
      BY <1>1, <2>1, <2>2, <2>3 DEF DevInv, NodeInv, Opening
  <2> QED
    BY <2>5, <2>6, <2>7, <2>8, <2>9 DEF DevInv
<1> QED
  BY <1>3, <1>4 DEF CloseCall

LEMMA DestroyNodeKeeps ==
  ASSUME ShimInv, NEW d \in Devs, DestroyNode(d)
  PROVE  Footprint(d) /\ DevInv(d)'
<1>1. pc[d] = "destroy" /\ pc'[d] = "clear" /\ OthersKept(d)
  BY DEF DestroyNode, Goto, At, locals, devvars, OthersKept, ShimInv, TypeOK
<1>2. UNCHANGED <<g_tab, g_lock, uinput_flag, uinput_fd, kind, fd, m>>
  BY DEF DestroyNode, tabvars, devvars, locals
<1>3. DevInv(d)
  BY DEF ShimInv
<1>4. \A s \in Slots : ~ Holds(s, d) /\ ~ Holds(s, d)'
  BY <1>1, <1>2, <1>3 DEF DevInv, UnmanagedInv, Managed, Holds
<1>5. PICK k \in Kinds : OpenOn(fd[d]) = [dev |-> d, kind |-> k]
  BY <1>1, <1>3 DEF DevInv, DestroyInv, At
<1>6. /\ OpenOn(fd[d])' = NoNode
      /\ \A g \in Fds : node'[g] # node[g] => g = fd[d] /\ node'[g] = NoNode
  BY <1>2 DEF DestroyNode, Destroyed, OpenOn
<1>7. Footprint(d)
  BY <1>1, <1>2, <1>5, <1>6 DEF Footprint, OthersKept, OpenOn
<1>8. LockInv(d)' /\ FillInv(d)' /\ SlotInv(d)' /\ DestroyInv(d)' /\ OpeningInv(d)'
        /\ StockInv(d)'
  BY <1>1, <1>2, <1>3 DEF DevInv, LockInv, FillInv, SlotInv, DestroyInv,
     OpeningInv, Opening, StockInv, At
<1>9. EntryInv(d)' /\ ManagedStructInv(d)' /\ UnmanagedInv(d)'
  BY <1>4 DEF EntryInv, ManagedStructInv, UnmanagedInv, Managed
<1>10. NodeInv(d)'
  <2> SUFFICES ASSUME NEW g \in Fds, NEW j \in Kinds,
                      node'[g] = [dev |-> d, kind |-> j]
               PROVE  FALSE
    BY DEF NodeInv
  <2>1. [dev |-> d, kind |-> j] # NoNode
    BY NoNodeAssumption DEF Node
  <2>2. g # fd[d] /\ node[g] = [dev |-> d, kind |-> j]
    BY <1>2, <1>6, <2>1 DEF OpenOn
  <2> QED
    BY <2>2, <1>3, <1>4 DEF DevInv, NodeInv
<1> QED
  BY <1>7, <1>8, <1>9, <1>10 DEF DevInv

LEMMA ClearFlagKeeps ==
  ASSUME ShimInv, NEW d \in Devs, ClearFlag(d)
  PROVE  Footprint(d) /\ DevInv(d)'
<1>1. pc[d] = "clear" /\ pc'[d] = "idle" /\ OthersKept(d) /\ ~ uinput_flag'[d]
  BY DEF ClearFlag, Return, Goto, At, OthersKept, ShimInv, TypeOK
<1>2. UNCHANGED <<g_tab, g_lock, node>>
  BY DEF ClearFlag, tabvars
<1>3. DevInv(d)
  BY DEF ShimInv
<1>4. \A s \in Slots : ~ Holds(s, d) /\ ~ Holds(s, d)'
  BY <1>1, <1>2, <1>3 DEF DevInv, UnmanagedInv, Managed, Holds
<1>5. Footprint(d)
  BY <1>1, <1>2 DEF Footprint, OthersKept
<1>6. LockInv(d)' /\ FillInv(d)' /\ SlotInv(d)' /\ DestroyInv(d)' /\ OpeningInv(d)'
        /\ StockInv(d)'
  BY <1>1, <1>2, <1>3 DEF DevInv, LockInv, FillInv, SlotInv, DestroyInv,
     OpeningInv, Opening, StockInv, StockOwn, At
<1>7. EntryInv(d)' /\ ManagedStructInv(d)' /\ UnmanagedInv(d)'
  BY <1>4 DEF EntryInv, ManagedStructInv, UnmanagedInv, Managed
<1>8. NodeInv(d)'
  BY <1>1, <1>2, <1>3, <1>4 DEF DevInv, NodeInv, Opening
<1> QED
  BY <1>5, <1>6, <1>7, <1>8 DEF DevInv

LEMMA StockCloseKeeps ==
  ASSUME ShimInv, NEW d \in Devs, StockClose(d)
  PROVE  Footprint(d) /\ DevInv(d)'
<1>1. /\ pc[d] = "closestock" /\ pc'[d] = "idle" /\ OthersKept(d)
      /\ ~ uinput_flag'[d]
  BY DEF StockClose, Return, Goto, At, OthersKept, ShimInv, TypeOK
<1>2. UNCHANGED <<g_tab, g_lock>>
  BY DEF StockClose, tabvars
<1>3. DevInv(d)
  BY DEF ShimInv
<1>4. \A s \in Slots : ~ Holds(s, d) /\ ~ Holds(s, d)'
  BY <1>1, <1>2, <1>3 DEF DevInv, UnmanagedInv, Managed, Holds
<1>5. StockOwn(d)
  BY <1>1, <1>3, <1>4 DEF DevInv, StockInv, Managed, At
<1>6. \A g \in Fds : node'[g] # node[g] =>
        /\ node[g] = [dev |-> d, kind |-> "kbd"]
        /\ node'[g] = NoNode
  BY <1>5 DEF StockClose, Destroyed, StockOwn, OpenOn, Fds, NoFd, ShimInv, TypeOK
<1>7. Footprint(d)
  BY <1>1, <1>2, <1>6 DEF Footprint, OthersKept
<1>8. LockInv(d)' /\ FillInv(d)' /\ SlotInv(d)' /\ DestroyInv(d)' /\ OpeningInv(d)'
        /\ StockInv(d)'
  BY <1>1, <1>2, <1>3 DEF DevInv, LockInv, FillInv, SlotInv, DestroyInv,
     OpeningInv, Opening, StockInv, StockOwn, At
<1>9. EntryInv(d)' /\ ManagedStructInv(d)' /\ UnmanagedInv(d)'
  BY <1>4 DEF EntryInv, ManagedStructInv, UnmanagedInv, Managed
<1>10. NodeInv(d)'
  <2> SUFFICES ASSUME NEW g \in Fds, NEW k \in Kinds,
                      node'[g] = [dev |-> d, kind |-> k]
               PROVE  FALSE
    BY DEF NodeInv
  <2>1. [dev |-> d, kind |-> k] # NoNode
    BY NoNodeAssumption DEF Node
  <2>2. node[g] = [dev |-> d, kind |-> k]
    BY <1>6, <2>1
  <2> QED
    BY <2>2, <1>1, <1>3, <1>4 DEF DevInv, NodeInv, Opening
<1> QED
  BY <1>7, <1>8, <1>9, <1>10 DEF DevInv

-----------------------------------------------------------------------------
LEMMA StepKeeps ==
  ASSUME ShimInv, NEW d \in Devs, Call(d) \/ Lock(d) \/ Step(d)
  PROVE  Footprint(d) /\ DevInv(d)'
BY OpenCallKeeps, SendCallKeeps, CloseCallKeeps, LockKeeps, CreateNodeKeeps,
   CreateFailsKeeps, DelegateOpenKeeps, ReplaceOldKeeps, PickSlotKeeps,
   FillAndUnlockKeeps, TableFullKeeps, PublishKeeps, EmitReportKeeps,
   StockSendKeeps, DestroyNodeKeeps, ClearFlagKeeps, StockCloseKeeps
   DEF Call, Step

LEMMA InvInit == Init => ShimInv
<1> SUFFICES ASSUME Init PROVE ShimInv
  OBVIOUS
<1>1. TypeOK
  BY MaxManagedAssumption
     DEF Init, TypeOK, EmptySlot, Entry, Kinds, Labels, NoFd, NoSlot
<1>2. \A s \in Slots : ~ g_tab[s].active
  BY DEF Init, EmptySlot
<1>3. ASSUME NEW d \in Devs PROVE DevInv(d)
  <2>1. /\ pc[d] = "idle" /\ g_lock = NoDev /\ ~ uinput_flag[d]
        /\ \A s \in Slots : ~ Holds(s, d)
    BY <1>2 DEF Init, Holds
  <2>2. NodeInv(d)
    <3>1. \A k \in Kinds : [dev |-> d, kind |-> k] # NoNode
      BY NoNodeAssumption DEF Node
    <3> QED
      BY <3>1 DEF NodeInv, Init
  <2> QED
    BY <2>1, <2>2, NoDevAssumption
       DEF DevInv, LockInv, EntryInv, OpeningInv, Opening, FillInv, SlotInv,
           UnmanagedInv, DestroyInv, ManagedStructInv, StockInv, StockOwn, At
<1> QED
  BY <1>1, <1>2, <1>3 DEF ShimInv

LEMMA InvInductive ==
  ASSUME ShimInv, [Next]_vars
  PROVE  ShimInv'
<1>1. TypeOK'
  BY TypeInductive DEF ShimInv
<1>2. CASE UNCHANGED vars
  <2>1. \A d \in Devs : DevInv(d)' <=> DevInv(d)
    BY <1>2 DEF vars, DevInv, LockInv, EntryInv, NodeInv, OpeningInv, FillInv,
       SlotInv, UnmanagedInv, DestroyInv, ManagedStructInv, StockInv, StockOwn,
       At, Holds, Managed, OpenOn
  <2> QED
    BY <1>1, <1>2, <2>1 DEF vars, ShimInv
<1>3. ASSUME NEW e \in Devs, Call(e) \/ Lock(e) \/ Step(e)
      PROVE  ShimInv'
  <2>1. Footprint(e) /\ DevInv(e)'
    BY <1>3, StepKeeps
  <2>2. \A d \in Devs \ {e} : DevInv(d)'
    BY <1>1, <2>1, Isolated
  <2>3. \A s \in Slots : g_tab'[s].active => g_tab'[s].dev \in Devs
    BY <2>1 DEF Footprint, ShimInv
  <2> QED
    BY <1>1, <2>1, <2>2, <2>3 DEF ShimInv
<1> QED
  BY <1>2, <1>3 DEF Next

(* The inductive invariant holds in every reachable state.                 *)
THEOREM InvCorrect == Spec => []ShimInv
<1>1. Init => ShimInv
  BY InvInit
<1>2. ShimInv /\ [Next]_vars => ShimInv'
  BY InvInductive
<1> QED
  BY <1>1, <1>2, PTL DEF Spec

(* Every active slot of the managed table stands for one device and owns   *)
(* an open node made for it, whatever the callbacks of other devices do    *)
(* meanwhile.                                                              *)
THEOREM TableCorrect == Spec => []SlotsOwnLiveNodes
<1>1. ShimInv => SlotsOwnLiveNodes
  <2> SUFFICES ASSUME ShimInv PROVE SlotsOwnLiveNodes
    OBVIOUS
  <2>1. \A s \in Slots : g_tab[s].active =>
          Holds(s, g_tab[s].dev) /\ DevInv(g_tab[s].dev)
    BY DEF ShimInv, Holds
  <2> QED
    BY <2>1 DEF SlotsOwnLiveNodes, DevInv, EntryInv, Holds
<1> QED
  BY <1>1, InvCorrect, PTL

(* The shim never loses a node it created.                                 *)
THEOREM NoShimNodeLost == Spec => []NodesAccountedFor
<1>1. ShimInv => NodesAccountedFor
  <2> SUFFICES ASSUME ShimInv, NEW f \in Fds, node[f] # NoNode,
                      node[f].kind \in Kinds
               PROVE  LET d == node[f].dev
                      IN  \/ \E s \in Slots : Holds(s, d) /\ g_tab[s].fd = f
                          \/ fd[d] = f /\ pc[d] \in Opening \cup {"destroy"}
    BY DEF NodesAccountedFor
  <2>1. node[f] \in Node
    BY DEF ShimInv, TypeOK
  <2>2. /\ node[f].dev \in Devs
        /\ node[f] = [dev |-> node[f].dev, kind |-> node[f].kind]
    BY <2>1 DEF Node
  <2> QED
    BY <2>2 DEF ShimInv, DevInv, NodeInv
<1> QED
  BY <1>1, InvCorrect, PTL

(* The device struct and the managed table agree between calls.            *)
THEOREM StructCorrect == Spec => []StructConsistent
<1>1. ShimInv => StructConsistent
  BY DEF ShimInv, DevInv, ManagedStructInv, StockInv, StockOwn, StructConsistent,
         OpenOn, Fds, NoFd, At
<1> QED
  BY <1>1, InvCorrect, PTL

(* Reports reach an open node of their own device, decoded its way, though *)
(* the slot is used after the mutex was released.                          *)
THEOREM ReportsCorrect == Spec => []ReportsReachOwnNode
<1>1. ShimInv => ReportsReachOwnNode
  <2> SUFFICES ASSUME ShimInv, NEW d \in Devs
               PROVE  InFlight(d) \notin {"lost", "astray"}
    BY DEF ReportsReachOwnNode
  <2>1. DevInv(d)
    BY DEF ShimInv
  <2>2. CASE At(d, "emit")
    <3>1. /\ m[d] \in Slots /\ Holds(m[d], d)
      BY <2>1, <2>2 DEF DevInv, SlotInv, ShimInv, TypeOK
    <3>2. /\ OpenOn(g_tab[m[d]].fd) = [dev |-> d, kind |-> g_tab[m[d]].kind]
          /\ g_tab[m[d]].kind \in Kinds
      BY <2>1, <3>1 DEF DevInv, EntryInv, ShimInv, TypeOK, Entry
    <3>3. [dev |-> d, kind |-> g_tab[m[d]].kind] # NoNode
      BY <3>2, NoNodeAssumption DEF Node
    <3>4. EmitTarget(d) \in Kinds
      BY <3>2, <3>3 DEF EmitTarget
    <3> QED
      BY <2>2, <3>4 DEF InFlight, Kinds, At
  <2>3. CASE At(d, "sendstock")
    <3>1. StockOwn(d)
      BY <2>1, <2>3 DEF DevInv, StockInv, UnmanagedInv, At
    <3>2. StockTarget(d) \in {"none", "kbd"}
      BY <3>1 DEF StockOwn, StockTarget, OpenOn, Fds, NoFd
    <3> QED
      BY <2>3, <3>2 DEF InFlight, At
  <2>4. CASE ~ At(d, "emit") /\ ~ At(d, "sendstock")
    BY <2>4 DEF InFlight
  <2> QED
    BY <2>2, <2>3, <2>4
<1> QED
  BY <1>1, InvCorrect, PTL

(* Only a call of the node's own device destroys it: no descriptor is      *)
(* closed under a device that was given its number in the meantime.        *)
THEOREM DestructionCorrect == Spec => OnlyOwnerDestroys
<1>1. ShimInv /\ [Next]_vars => [OwnerDestroys]_vars
  <2> SUFFICES ASSUME ShimInv, NEW e \in Devs, Call(e) \/ Lock(e) \/ Step(e),
                      NEW f \in Fds, node[f] # NoNode, node'[f] # node[f]
               PROVE  /\ node'[f] = NoNode
                      /\ pc[node[f].dev] \in {"replace", "full", "destroy",
                                              "closestock"}
    BY DEF Next, OwnerDestroys
  <2>1. node[f].dev = e
    BY StepKeeps DEF Footprint
  <2> QED
    BY <2>1 DEF Call, Step, OpenCall, SendCall, CloseCall, Lock, CreateNode,
       CreateFails, DelegateOpen, StockOpen, ReplaceOld, PickSlot, FillAndUnlock,
       TableFull, Publish, EmitReport, StockSend, DestroyNode, ClearFlag,
       StockClose, LowestFree, Destroyed, At, devvars, ShimInv, TypeOK
<1> QED
  BY <1>1, InvCorrect, PTL DEF Spec, OnlyOwnerDestroys

-----------------------------------------------------------------------------
(***************************************************************************)
(* HidShim implements HidRouter, for any set of devices, any table size    *)
(* and any number of file descriptors.  The mapping of the states is at    *)
(* the end of HidShim; each action of HidShim is one of HidRouter or a     *)
(* step that HidRouter does not see.                                       *)
(***************************************************************************)

(* The route of a managed device is the decoder of its only slot.          *)
LEMMA ManagedRoute ==
  ASSUME NEW d \in Devs, EntryInv(d), NEW s \in Slots, Holds(s, d)
  PROVE  RouteOf(d) = g_tab[s].kind
<1>1. \A r \in Slots : Holds(r, d) => r = s
  BY DEF EntryInv
<1>2. (CHOOSE r \in Slots : Holds(r, d)) = s
  BY <1>1
<1> QED
  BY <1>2 DEF RouteOf, Managed

LEMMA ManagedRouteNext ==
  ASSUME NEW d \in Devs, EntryInv(d)', NEW s \in Slots, Holds(s, d)'
  PROVE  RouteOf(d)' = g_tab'[s].kind
<1>1. \A r \in Slots : Holds(r, d)' => r = s
  BY DEF EntryInv
<1>2. (CHOOSE r \in Slots : Holds(r, d)') = s
  BY <1>1
<1> QED
  BY <1>2 DEF RouteOf, Managed

(* The node that makes a keyboard of an unmanaged device.                  *)
HasKeyboard(d) == uinput_flag[d] /\ OpenOn(uinput_fd[d]) = [dev |-> d, kind |-> "kbd"]

LEMMA UnmanagedRoute ==
  ASSUME NEW d \in Devs, ~ Managed(d)
  PROVE  RouteOf(d) = IF HasKeyboard(d) THEN "kbd" ELSE "none"
BY DEF RouteOf, HasKeyboard

LEMMA RouteType ==
  ASSUME ShimInv, NEW d \in Devs
  PROVE  /\ RouteOf(d) \in Kinds \cup {"kbd", "none"}
         /\ RouteOf(d) \in Kinds <=> Managed(d)
<1>1. CASE Managed(d)
  <2> PICK s \in Slots : Holds(s, d)
    BY <1>1 DEF Managed
  <2>1. RouteOf(d) = g_tab[s].kind
    BY ManagedRoute DEF ShimInv, DevInv
  <2>2. g_tab[s].kind \in Kinds
    BY DEF ShimInv, TypeOK, Entry
  <2> QED
    BY <1>1, <2>1, <2>2
<1>2. CASE ~ Managed(d)
  BY <1>2, UnmanagedRoute DEF Kinds
<1> QED
  BY <1>1, <1>2

(* A report on its way is bound for the present route of its device.       *)
Sending(d) == pc[d] \in {"emit", "sendstock"}

InFlightFollows ==
  \A d \in Devs : InFlight(d) = IF Sending(d) THEN RouteOf(d) ELSE "idle"

LEMMA InFlightRoute == ShimInv => InFlightFollows
<1> SUFFICES ASSUME ShimInv, NEW d \in Devs
             PROVE  InFlight(d) = IF Sending(d) THEN RouteOf(d) ELSE "idle"
  BY DEF InFlightFollows
<1>1. DevInv(d)
  BY DEF ShimInv
<1>2. CASE At(d, "emit")
  <2>1. m[d] \in Slots /\ Holds(m[d], d)
    BY <1>1, <1>2 DEF DevInv, SlotInv, ShimInv, TypeOK
  <2>2. /\ OpenOn(g_tab[m[d]].fd) = [dev |-> d, kind |-> g_tab[m[d]].kind]
        /\ g_tab[m[d]].kind \in Kinds
    BY <1>1, <2>1 DEF DevInv, EntryInv, ShimInv, TypeOK, Entry
  <2>3. [dev |-> d, kind |-> g_tab[m[d]].kind] # NoNode
    BY <2>2, NoNodeAssumption DEF Node
  <2>4. EmitTarget(d) = g_tab[m[d]].kind
    BY <2>2, <2>3 DEF EmitTarget
  <2>5. RouteOf(d) = g_tab[m[d]].kind
    BY <1>1, <2>1, ManagedRoute DEF DevInv
  <2> QED
    BY <1>2, <2>4, <2>5 DEF InFlight, Sending, At
<1>3. CASE At(d, "sendstock")
  <2>1. StockOwn(d) /\ ~ Managed(d)
    BY <1>1, <1>3 DEF DevInv, StockInv, UnmanagedInv, At
  <2>2. [dev |-> d, kind |-> "kbd"] # NoNode
    BY NoNodeAssumption DEF Node
  <2>3. StockTarget(d) = IF HasKeyboard(d) THEN "kbd" ELSE "none"
    BY <2>1, <2>2 DEF StockTarget, HasKeyboard, StockOwn, OpenOn, Fds, NoFd
  <2> QED
    BY <1>3, <2>1, <2>3, UnmanagedRoute DEF InFlight, Sending, At
<1>4. CASE ~ At(d, "emit") /\ ~ At(d, "sendstock")
  BY <1>4 DEF InFlight, Sending, At
<1> QED
  BY <1>2, <1>3, <1>4

LEMMA InFlightRouteNext == ShimInv' => InFlightFollows'
BY InFlightRoute, PTL

(* A step of one device's call changes no other device's route.            *)
LEMMA RouteKept ==
  ASSUME ShimInv, ShimInv', NEW e \in Devs, Footprint(e), NEW d \in Devs \ {e}
  PROVE  RouteOf(d)' = RouteOf(d) /\ InFlight(d)' = InFlight(d)
<1>1. \A s \in Slots : /\ Holds(s, d)' <=> Holds(s, d)
                       /\ Holds(s, d) => g_tab'[s] = g_tab[s]
  BY SlotsKept
<1>2. /\ pc'[d] = pc[d] /\ uinput_flag'[d] = uinput_flag[d]
      /\ uinput_fd'[d] = uinput_fd[d]
  BY DEF Footprint
<1>3. RouteOf(d)' = RouteOf(d)
  <2>1. CASE Managed(d)
    <3> PICK s \in Slots : Holds(s, d)
      BY <2>1 DEF Managed
    <3>1. RouteOf(d) = g_tab[s].kind
      BY ManagedRoute DEF ShimInv, DevInv
    <3>2. Holds(s, d)' /\ EntryInv(d)'
      BY <1>1 DEF ShimInv, DevInv
    <3>3. RouteOf(d)' = g_tab'[s].kind
      BY <3>2, ManagedRouteNext
    <3> QED
      BY <1>1, <3>1, <3>3
  <2>2. CASE ~ Managed(d)
    <3>1. ~ Managed(d)'
      BY <1>1, <2>2 DEF Managed
    <3>2. OpenOn(uinput_fd[d])' = [dev |-> d, kind |-> "kbd"]
            <=> OpenOn(uinput_fd[d]) = [dev |-> d, kind |-> "kbd"]
      <4>1. \A f : OpenOn(f)' = [dev |-> d, kind |-> "kbd"]
                     <=> OpenOn(f) = [dev |-> d, kind |-> "kbd"]
        BY NodesKept DEF ShimInv
      <4> QED
        BY <1>2, <4>1 DEF OpenOn
    <3> QED
      BY <1>2, <2>2, <3>1, <3>2 DEF RouteOf
  <2> QED
    BY <2>1, <2>2
<1>4. InFlight(d) = IF Sending(d) THEN RouteOf(d) ELSE "idle"
  BY InFlightRoute DEF InFlightFollows
<1>5. InFlight(d)' = IF Sending(d)' THEN RouteOf(d)' ELSE "idle"
  BY InFlightRouteNext DEF InFlightFollows
<1> QED
  BY <1>2, <1>3, <1>4, <1>5 DEF Sending

-----------------------------------------------------------------------------
(* The two variables of HidRouter after a step of e's call.                *)
Route  == [d \in Devs |-> RouteOf(d)]
Flight == [d \in Devs |-> InFlight(d)]

LEMMA OnlyOwn ==
  ASSUME ShimInv, ShimInv', NEW e \in Devs, Footprint(e)
  PROVE  /\ Route' = [Route EXCEPT ![e] = RouteOf(e)']
         /\ Flight' = [Flight EXCEPT ![e] = InFlight(e)']
BY RouteKept DEF Route, Flight

(* A step at which no report of e's is on its way, and which leaves e its  *)
(* route or none, is a release or not seen at all.                         *)
LEMMA ReleaseOrStay ==
  ASSUME ShimInv, ShimInv', NEW e \in Devs, Footprint(e),
         ~ Sending(e), ~ Sending(e)', RouteOf(e)' \in {RouteOf(e), "none"}
  PROVE  Router!Release(e) \/ UNCHANGED <<Route, Flight>>
<1>1. InFlight(e) = "idle" /\ InFlight(e)' = "idle"
  BY InFlightRoute, InFlightRouteNext DEF InFlightFollows
<1>2. Flight' = Flight
  BY <1>1, OnlyOwn DEF Flight
<1>3. CASE RouteOf(e)' = RouteOf(e)
  BY <1>2, <1>3, OnlyOwn DEF Route
<1>4. CASE RouteOf(e)' = "none"
  <2>1. Route' = [Route EXCEPT ![e] = "none"]
    BY <1>4, OnlyOwn
  <2> QED
    BY <1>1, <1>2, <2>1 DEF Router!Release, Router!Reroute, Route, Flight
<1> QED
  BY <1>3, <1>4

(* What a step that changes neither the slots nor the device struct does   *)
(* to the route of e: nothing, if its keyboard node is as it was.          *)
LEMMA SameRoute ==
  ASSUME ShimInv, ShimInv', NEW e \in Devs, UNCHANGED <<g_tab, devvars>>,
         ~ Managed(e) => (OpenOn(uinput_fd[e])' = [dev |-> e, kind |-> "kbd"]
                            <=> OpenOn(uinput_fd[e]) = [dev |-> e, kind |-> "kbd"])
  PROVE  RouteOf(e)' = RouteOf(e)
<1>1. \A s : Holds(s, e)' <=> Holds(s, e)
  BY DEF Holds
<1>2. Managed(e)' <=> Managed(e)
  BY <1>1 DEF Managed
<1>3. CASE Managed(e)
  <2> PICK s \in Slots : Holds(s, e)
    BY <1>3 DEF Managed
  <2>1. RouteOf(e) = g_tab[s].kind
    BY ManagedRoute DEF ShimInv, DevInv
  <2>2. RouteOf(e)' = g_tab'[s].kind
    BY <1>1, ManagedRouteNext DEF ShimInv, DevInv
  <2> QED
    BY <2>1, <2>2
<1>4. CASE ~ Managed(e)
  BY <1>2, <1>4 DEF RouteOf, devvars
<1> QED
  BY <1>3, <1>4

-----------------------------------------------------------------------------
(* Each action is a step of HidRouter, or one it does not see.             *)
Mapped(e) == \/ Router!TakeOver(e) \/ Router!Delegate(e) \/ Router!Release(e)
             \/ Router!ReportArrives(e) \/ Router!ReportWritten(e)
             \/ UNCHANGED <<Route, Flight>>

(* The steps that neither hold a report nor touch the table or the struct. *)
LEMMA LocalSteps ==
  ASSUME ShimInv, ShimInv', NEW e \in Devs, Footprint(e),
         \/ OpenCall(e) \/ CreateFails(e) \/ Lock(e) \/ PickSlot(e)
  PROVE  Mapped(e)
<1>1. ~ Sending(e) /\ ~ Sending(e)' /\ UNCHANGED <<g_tab, devvars, node>>
  BY DEF OpenCall, CreateFails, Lock, PickSlot, Goto, At, Sending, tabvars, locals,
         ShimInv, TypeOK
<1>2. RouteOf(e)' = RouteOf(e)
  BY <1>1, SameRoute DEF OpenOn, devvars
<1> QED
  BY <1>1, <1>2, ReleaseOrStay DEF Mapped

(* A new node of the shim is nobody's keyboard.                            *)
LEMMA CreateNodeMaps ==
  ASSUME ShimInv, ShimInv', NEW e \in Devs, Footprint(e), CreateNode(e)
  PROVE  Mapped(e)
<1> PICK f \in Fds : /\ LowestFree(f)
                     /\ node' = [node EXCEPT ![f] = [dev |-> e, kind |-> kind[e]]]
  BY DEF CreateNode
<1>1. ~ Sending(e) /\ ~ Sending(e)' /\ UNCHANGED <<g_tab, devvars>>
  BY DEF CreateNode, Goto, At, Sending, tabvars, devvars, ShimInv, TypeOK
<1>2. [dev |-> e, kind |-> "kbd"] \notin {NoNode, [dev |-> e, kind |-> kind[e]]}
  BY NoNodeAssumption DEF Node, ShimInv, TypeOK, Kinds
<1>3. OpenOn(uinput_fd[e])' = [dev |-> e, kind |-> "kbd"]
        <=> OpenOn(uinput_fd[e]) = [dev |-> e, kind |-> "kbd"]
  BY <1>1, <1>2 DEF OpenOn, LowestFree, devvars, ShimInv, TypeOK
<1>4. RouteOf(e)' = RouteOf(e)
  BY <1>1, <1>3, SameRoute
<1> QED
  BY <1>1, <1>4, ReleaseOrStay DEF Mapped

(* Nor is one that an open or a close of the shim destroys.                *)
LEMMA DestroyMaps ==
  ASSUME ShimInv, ShimInv', NEW e \in Devs, Footprint(e),
         TableFull(e) \/ DestroyNode(e)
  PROVE  Mapped(e)
<1>1. ~ Sending(e) /\ ~ Sending(e)' /\ UNCHANGED <<g_tab, devvars>>
  BY DEF TableFull, DestroyNode, Return, Goto, At, Sending, tabvars, devvars, ShimInv, TypeOK
<1>2. PICK k \in Kinds : OpenOn(fd[e]) = [dev |-> e, kind |-> k]
  <2>1. DevInv(e)
    BY DEF ShimInv
  <2> QED
    BY <2>1 DEF TableFull, DestroyNode, DevInv, OpeningInv, Opening, DestroyInv, At,
       ShimInv, TypeOK
<1>3. [dev |-> e, kind |-> "kbd"] \notin {NoNode, [dev |-> e, kind |-> k]}
  BY NoNodeAssumption DEF Node, Kinds
<1>4. /\ OpenOn(fd[e])' = NoNode \/ fd'[e] # fd[e]
      /\ \A g : g # fd[e] => OpenOn(g)' = OpenOn(g)
      /\ node' = Destroyed(fd[e])
  BY DEF TableFull, DestroyNode, Destroyed, OpenOn
<1>5. OpenOn(uinput_fd[e])' = [dev |-> e, kind |-> "kbd"]
        <=> OpenOn(uinput_fd[e]) = [dev |-> e, kind |-> "kbd"]
  BY <1>1, <1>2, <1>3, <1>4 DEF OpenOn, Destroyed, devvars
<1>6. RouteOf(e)' = RouteOf(e)
  BY <1>1, <1>5, SameRoute
<1> QED
  BY <1>1, <1>6, ReleaseOrStay DEF Mapped

(* A report is handed to the route its device has, which no step changes   *)
(* until it is written.                                                    *)
LEMMA SendMaps ==
  ASSUME ShimInv, ShimInv', NEW e \in Devs, Footprint(e),
         SendCall(e) \/ EmitReport(e) \/ StockSend(e)
  PROVE  Mapped(e)
<1>1. UNCHANGED <<g_tab, devvars, node>>
  BY DEF SendCall, EmitReport, StockSend, tabvars
<1>2. RouteOf(e)' = RouteOf(e)
  BY <1>1, SameRoute DEF OpenOn, devvars
<1>3. /\ Route' = Route
      /\ Flight' = [Flight EXCEPT ![e] = InFlight(e)']
  BY <1>2, OnlyOwn DEF Route
<1>4. /\ Route[e] = RouteOf(e) /\ Flight[e] = InFlight(e)
      /\ InFlight(e) = IF Sending(e) THEN RouteOf(e) ELSE "idle"
      /\ InFlight(e)' = IF Sending(e)' THEN RouteOf(e) ELSE "idle"
  BY <1>2, InFlightRoute, InFlightRouteNext DEF InFlightFollows, Route, Flight
<1>5. CASE ~ Sending(e) /\ Sending(e)'
  BY <1>3, <1>4, <1>5 DEF Mapped, Router!ReportArrives, Route, Flight
<1>6. CASE ~ Sending(e) /\ ~ Sending(e)'
  BY <1>2, <1>6, ReleaseOrStay DEF Mapped
<1>7. CASE Sending(e)
  <2>1. ~ Sending(e)'
    BY <1>7 DEF SendCall, EmitReport, StockSend, Return, Goto, At, Sending, ShimInv, TypeOK
  <2>2. RouteOf(e) # "idle"
    BY RouteType DEF Kinds
  <2> QED
    BY <1>3, <1>4, <1>7, <2>1, <2>2 DEF Mapped, Router!ReportWritten, Route, Flight
<1> QED
  BY <1>5, <1>6, <1>7

(* Freeing the slot leaves the descriptor of the shim's node, open or not, *)
(* in the device struct: no keyboard.                                      *)
LEMMA FreeSlotMaps ==
  ASSUME ShimInv, ShimInv', NEW e \in Devs, Footprint(e),
         ReplaceOld(e) \/ CloseCall(e)
  PROVE  Mapped(e)
<1>1. ~ Sending(e) /\ ~ Sending(e)' /\ UNCHANGED devvars
  BY DEF ReplaceOld, CloseCall, Goto, At, Sending, ShimInv, TypeOK
<1>2. CASE UNCHANGED <<g_tab, node>>
  <2>1. RouteOf(e)' = RouteOf(e)
    BY <1>1, <1>2, SameRoute DEF OpenOn, devvars
  <2> QED
    BY <1>1, <2>1, ReleaseOrStay DEF Mapped
<1>3. CASE \E s \in Slots : /\ Found(e, s)
                            /\ g_tab' = [g_tab EXCEPT ![s].active = FALSE]
                            /\ UNCHANGED node \/ node' = Destroyed(g_tab[s].fd)
  <2> PICK s \in Slots : /\ Found(e, s)
                         /\ g_tab' = [g_tab EXCEPT ![s].active = FALSE]
                         /\ UNCHANGED node \/ node' = Destroyed(g_tab[s].fd)
    BY <1>3
  <2> DEFINE old == g_tab[s].fd
  <2>1. DevInv(e)
    BY DEF ShimInv
  <2>2. /\ Holds(s, e)
        /\ ~ g_tab'[s].active
        /\ \A r \in Slots : r # s => g_tab'[r] = g_tab[r]
    BY DEF Found, ShimInv, TypeOK, Entry
  <2>3. \A r \in Slots : ~ Holds(r, e)'
    BY <2>1, <2>2 DEF DevInv, EntryInv, Holds
  <2>4. uinput_fd'[e] = old
    BY <1>1, <2>1, <2>2 DEF DevInv, ManagedStructInv, ReplaceOld, CloseCall, At, devvars
  <2>5. OpenOn(old) = [dev |-> e, kind |-> g_tab[s].kind] /\ g_tab[s].kind \in Kinds
    BY <2>1, <2>2 DEF DevInv, EntryInv, ShimInv, TypeOK, Entry
  <2>6. [dev |-> e, kind |-> "kbd"] \notin {NoNode, [dev |-> e, kind |-> g_tab[s].kind]}
    BY <2>5, NoNodeAssumption DEF Node, Kinds
  <2>7. OpenOn(uinput_fd[e])' # [dev |-> e, kind |-> "kbd"]
    BY <2>4, <2>5, <2>6 DEF OpenOn, Destroyed
  <2>8. RouteOf(e)' = "none"
    BY <2>3, <2>7 DEF RouteOf, Managed
  <2> QED
    BY <1>1, <2>8, ReleaseOrStay DEF Mapped
<1> QED
  BY <1>2, <1>3 DEF ReplaceOld, CloseCall

(* With the flag down an unmanaged device has no route.                    *)
LEMMA LowerFlagMaps ==
  ASSUME ShimInv, ShimInv', NEW e \in Devs, Footprint(e),
         ClearFlag(e) \/ StockClose(e)
  PROVE  Mapped(e)
<1>1. /\ ~ Sending(e) /\ ~ Sending(e)' /\ UNCHANGED g_tab
      /\ ~ uinput_flag'[e]
  BY DEF ClearFlag, StockClose, Return, Goto, At, Sending, tabvars, ShimInv, TypeOK
<1>2. ~ Managed(e)
  BY DEF ClearFlag, StockClose, At, ShimInv, DevInv, UnmanagedInv
<1>3. RouteOf(e)' = "none"
  BY <1>1, <1>2 DEF RouteOf, Managed, Holds
<1> QED
  BY <1>1, <1>3, ReleaseOrStay DEF Mapped

(* The struct of a managed device says nothing about its route.            *)
LEMMA PublishMaps ==
  ASSUME ShimInv, ShimInv', NEW e \in Devs, Footprint(e), Publish(e)
  PROVE  Mapped(e)
<1>1. ~ Sending(e) /\ ~ Sending(e)' /\ UNCHANGED g_tab
  BY DEF Publish, Return, Goto, At, Sending, tabvars, ShimInv, TypeOK
<1>2. PICK s \in Slots : Holds(s, e)
  BY DEF Publish, At, ShimInv, DevInv, SlotInv, TypeOK
<1>3. RouteOf(e) = g_tab[s].kind
  BY <1>2, ManagedRoute DEF ShimInv, DevInv
<1>4. RouteOf(e)' = g_tab'[s].kind
  <2>1. Holds(s, e)' /\ EntryInv(e)'
    BY <1>1, <1>2 DEF Holds, ShimInv, DevInv
  <2> QED
    BY <2>1, ManagedRouteNext
<1> QED
  BY <1>1, <1>3, <1>4, ReleaseOrStay DEF Mapped

(* The stock open gives a device without a route a keyboard node, or its   *)
(* flag and no node.                                                       *)
LEMMA DelegateOpenMaps ==
  ASSUME ShimInv, ShimInv', NEW e \in Devs, Footprint(e), DelegateOpen(e)
  PROVE  Mapped(e)
<1>1. ~ Sending(e) /\ ~ Sending(e)' /\ UNCHANGED g_tab
  BY DEF DelegateOpen, Return, Goto, At, Sending, tabvars, ShimInv, TypeOK
<1>2. CASE uinput_flag[e]
  <2>1. UNCHANGED <<devvars, node>>
    BY <1>2 DEF DelegateOpen, StockOpen
  <2>2. RouteOf(e)' = RouteOf(e)
    BY <1>1, <2>1, SameRoute DEF OpenOn, devvars
  <2> QED
    BY <1>1, <2>2, ReleaseOrStay DEF Mapped
<1>3. CASE ~ uinput_flag[e]
  <2>1. ~ Managed(e)
    BY <1>3 DEF DelegateOpen, ShimInv, DevInv, ManagedStructInv, Managed, At
  <2>2. RouteOf(e) = "none"
    BY <1>3, <2>1 DEF RouteOf
  <2>3. RouteOf(e)' \in {"kbd", "none"}
    BY <1>1, <2>1 DEF RouteOf, Managed, Holds
  <2>4. CASE RouteOf(e)' = "kbd"
    <3>1. InFlight(e) = "idle" /\ InFlight(e)' = "idle"
      BY <1>1, InFlightRoute, InFlightRouteNext DEF InFlightFollows
    <3>2. Route' = [Route EXCEPT ![e] = "kbd"] /\ Flight' = Flight
      BY <2>4, <3>1, OnlyOwn DEF Flight
    <3> QED
      BY <2>2, <3>1, <3>2 DEF Mapped, Router!Delegate, Router!Reroute, Route, Flight
  <2>5. CASE RouteOf(e)' = "none"
    BY <1>1, <2>5, ReleaseOrStay DEF Mapped
  <2> QED
    BY <2>3, <2>4, <2>5
<1> QED
  BY <1>2, <1>3

(* While a slot is free, fewer devices are taken over than there are slots *)
LEMMA RoomLeft ==
  ASSUME ShimInv, NEW s \in Slots, ~ g_tab[s].active, NEW e \in Devs
  PROVE  Cardinality({d \in Devs \ {e} : RouteOf(d) \in Kinds}) < MaxManaged
<1> DEFINE Busy == {d \in Devs \ {e} : RouteOf(d) \in Kinds}
           SlotOf == [d \in Busy |-> CHOOSE r \in Slots : Holds(r, d)]
<1>1. \A d \in Busy : SlotOf[d] \in Slots \ {s} /\ Holds(SlotOf[d], d)
  BY RouteType DEF Managed, Holds
<1>2. SlotOf \in Injection(Busy, Slots \ {s})
  <2>1. SlotOf \in [Busy -> Slots \ {s}]
    BY <1>1
  <2>2. \A c, d \in Busy : SlotOf[c] = SlotOf[d] => c = d
    BY <1>1 DEF Holds
  <2> QED
    BY <2>1, <2>2 DEF Injection, IsInjective
<1>3. IsFiniteSet(Slots) /\ Cardinality(Slots) = MaxManaged
  BY FS_Interval, MaxManagedAssumption DEF Slots
<1>4. IsFiniteSet(Slots \ {s}) /\ Cardinality(Slots \ {s}) = MaxManaged - 1
  BY <1>3, FS_RemoveElement
<1>5. IsFiniteSet(Busy) /\ Cardinality(Busy) <= Cardinality(Slots \ {s})
  BY <1>2, <1>4, FS_Injection
<1>6. Cardinality(Busy) \in Nat
  BY <1>5, FS_CardinalityType
<1> QED
  BY <1>4, <1>5, <1>6, MaxManagedAssumption

(* Filling the slot takes the device over.                                 *)
LEMMA FillAndUnlockMaps ==
  ASSUME ShimInv, ShimInv', NEW e \in Devs, Footprint(e), FillAndUnlock(e)
  PROVE  Mapped(e)
<1>1. ~ Sending(e) /\ ~ Sending(e)' /\ UNCHANGED <<devvars, node>>
  BY DEF FillAndUnlock, Goto, At, Sending, ShimInv, TypeOK
<1>2. CASE m[e] = NoSlot
  <2>1. UNCHANGED g_tab
    BY <1>2 DEF FillAndUnlock
  <2>2. RouteOf(e)' = RouteOf(e)
    BY <1>1, <2>1, SameRoute DEF OpenOn, devvars
  <2> QED
    BY <1>1, <2>2, ReleaseOrStay DEF Mapped
<1>3. CASE m[e] # NoSlot
  <2> PICK s \in Slots : s = m[e]
    BY <1>3 DEF ShimInv, TypeOK
  <2>1. g_tab'[s] = NewEntry(e) /\ ~ g_tab[s].active
    BY <1>3 DEF FillAndUnlock, ShimInv, DevInv, FillInv, TypeOK
  <2>2. Holds(s, e)'
    BY <2>1 DEF Holds, NewEntry
  <2>3. RouteOf(e)' = kind[e] /\ kind[e] \in Kinds
    BY <2>1, <2>2, ManagedRouteNext DEF ShimInv, DevInv, TypeOK, NewEntry
  <2>4. InFlight(e) = "idle" /\ InFlight(e)' = "idle"
    BY <1>1, InFlightRoute, InFlightRouteNext DEF InFlightFollows
  <2>5. Route' = [Route EXCEPT ![e] = kind[e]] /\ Flight' = Flight
    BY <2>3, <2>4, OnlyOwn DEF Flight
  <2>6. Router!Cardinality({d \in Devs \ {e} : Route[d] \in Kinds}) < MaxManaged
    <3>1. {d \in Devs \ {e} : Route[d] \in Kinds} = {d \in Devs \ {e} : RouteOf(d) \in Kinds}
      BY DEF Route
    <3> QED
      BY <2>1, <3>1, RoomLeft DEF Cardinality, Router!Cardinality
  <2> QED
    BY <2>3, <2>4, <2>5, <2>6
       DEF Mapped, Router!TakeOver, Router!Reroute, Router!Taken, Route, Flight, Kinds
<1> QED
  BY <1>2, <1>3

-----------------------------------------------------------------------------
LEMMA NextMaps ==
  ASSUME ShimInv, ShimInv', [Next]_vars
  PROVE  [Router!Next]_(Router!vars)
<1>1. CASE UNCHANGED vars
  <2>1. UNCHANGED <<Route, Flight>>
    BY <1>1 DEF Route, Flight, RouteOf, InFlight, EmitTarget, StockTarget, Managed,
       Holds, OpenOn, At, vars
  <2> QED
    BY <2>1 DEF Router!vars, Route, Flight
<1>2. ASSUME NEW e \in Devs, Call(e) \/ Lock(e) \/ Step(e)
      PROVE  [Router!Next]_(Router!vars)
  <2>1. Footprint(e)
    BY <1>2, StepKeeps
  <2>2. Mapped(e)
    BY <1>2, <2>1, LocalSteps, CreateNodeMaps, DestroyMaps, SendMaps, FreeSlotMaps,
       LowerFlagMaps, PublishMaps, DelegateOpenMaps, FillAndUnlockMaps DEF Call, Step
  <2> QED
    BY <2>2 DEF Mapped, Router!Next, Router!vars, Route, Flight
<1> QED
  BY <1>1, <1>2 DEF Next

LEMMA InitMaps == Init => Router!Init
<1> SUFFICES ASSUME Init, NEW d \in Devs
             PROVE  RouteOf(d) = "none" /\ InFlight(d) = "idle"
  BY DEF Router!Init
<1>1. ~ Managed(d) /\ ~ uinput_flag[d] /\ pc[d] = "idle"
  BY DEF Init, Managed, Holds, EmptySlot
<1> QED
  BY <1>1 DEF RouteOf, InFlight, At

(* Routes change and reports travel only the way HidRouter allows: at most *)
(* as many devices are taken over as the table has slots, no route changes *)
(* under a report, and every report reaches the route its device had.      *)
THEOREM RouterImplemented == Spec => ImplementsRouter
<1>1. Init => Router!Init
  BY InitMaps
<1>2. ShimInv /\ ShimInv' /\ [Next]_vars => [Router!Next]_(Router!vars)
  BY NextMaps
<1> QED
  BY <1>1, <1>2, InvCorrect, PTL DEF Spec, ImplementsRouter, Router!Spec
=============================================================================
