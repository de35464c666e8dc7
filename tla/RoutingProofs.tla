---------------------------- MODULE RoutingProofs ----------------------------
(***************************************************************************)
(* Safety of what decides where packets go, for every value of the         *)
(* constants: the remote exit node with its rules and masquerades, the     *)
(* place of the hook in its iptables chain, and the test of allowed        *)
(* networks against those of the device.                                   *)
(***************************************************************************)
EXTENDS RemoteExit, ChainOrder, SubnetCheck, WellFoundedInduction, TLAPS

-----------------------------------------------------------------------------
(* RemoteExit: any peers, policies, faults and bounds *)

(* The part of TypeOK the ip and iptables commands touch. *)
KernelOK ==
  /\ rules \in SUBSET Sources
  /\ nf \in 0..MaxFaults
  /\ masq \in [Families -> 0..(1 + MaxFaults - nf)]

-----------------------------------------------------------------------------
(* The sources of an entry are sources. *)
LEMMA PolicySources ==
  ASSUME NEW r \in Remotes
  PROVE  r.pol \in SUBSET Sources /\ r.pol \in Policies \cup {AllPolicy, {}}
BY DEF Remotes, NoRem, Sources

(* A deletion, complete or not, leaves at most the copies there were. *)
LEMMA FewerCopies ==
  ASSUME KernelOK
  PROVE  /\ delMasquerade \in [Families -> 0..(MaxFaults - nf)]
         /\ \A m \in DelMasqueradeErr : m \in [Families -> 0..(1 + MaxFaults - nf)]
<1>1. MaxFaults \in Nat /\ nf \in Nat /\ nf =< MaxFaults
  BY ConstantsOK DEF KernelOK
<1>2. \A f \in Families : masq[f] \in Nat /\ masq[f] =< 1 + MaxFaults - nf
  BY <1>1 DEF KernelOK
<1>3. \A f \in Families : Fewer(masq[f]) \in 0..(MaxFaults - nf)
  BY <1>1, <1>2 DEF Fewer
<1>4. delMasquerade \in [Families -> 0..(MaxFaults - nf)]
  BY <1>3 DEF delMasquerade
<1>5. ASSUME NEW m \in DelMasqueradeErr
      PROVE  m \in [Families -> 0..(1 + MaxFaults - nf)]
  <2>1. m \in [Families -> Copies]
    BY DEF DelMasqueradeErr
  <2>2. \A f \in Families : m[f] \in {masq[f], Fewer(masq[f])}
    BY DEF DelMasqueradeErr
  <2>3. \A f \in Families : m[f] \in 0..(1 + MaxFaults - nf)
    BY <1>1, <1>2, <1>3, <2>2
  <2> QED BY <2>1, <2>3
<1> QED BY <1>4, <1>5

(* Cleanup keeps the kernel's types, whatever fails in it. *)
LEMMA CleanupTypes ==
  ASSUME KernelOK, Cleanup
  PROVE  KernelOK'
<1>1. MaxFaults \in Nat /\ nf \in Nat /\ nf =< MaxFaults
  BY ConstantsOK DEF KernelOK
<1>2. CASE CleanupOK
  <2>1. masq' \in [Families -> 0..(MaxFaults - nf)] /\ nf' = nf
    BY <1>2, FewerCopies DEF CleanupOK, NoFault
  <2> QED BY <1>1, <1>2, <2>1 DEF CleanupOK, KernelOK
<1>3. CASE CleanupErr
  <2>1. masq' \in [Families -> 0..(1 + MaxFaults - nf)] /\ nf' = nf - 1 /\ nf > 0
    BY <1>3, FewerCopies DEF CleanupErr, Fault
  <2> QED BY <1>1, <1>3, <2>1 DEF CleanupErr, KernelOK
<1> QED BY <1>2, <1>3 DEF Cleanup

(* A call cut short adds at most one copy. *)
LEMMA PartialCopies ==
  ASSUME KernelOK, NEW pol, NEW additions
  PROVE  \A q \in PartialMasquerade(pol, additions) :
           q \in [Families -> 0..(2 + MaxFaults - nf)]
<1> SUFFICES ASSUME NEW q \in PartialMasquerade(pol, additions)
             PROVE  q \in [Families -> 0..(2 + MaxFaults - nf)]
  OBVIOUS
<1>1. MaxFaults \in Nat /\ nf \in Nat /\ nf =< MaxFaults
  BY ConstantsOK DEF KernelOK
<1>2. PICK m \in DelMasqueradeErr, added \in additions :
        q = [f \in Families |-> IF f \in added THEN More(m[f], pol) ELSE m[f]]
  BY DEF PartialMasquerade
<1>3. m \in [Families -> 0..(1 + MaxFaults - nf)]
  BY FewerCopies
<1>4. \A f \in Families : /\ m[f] \in 0..(2 + MaxFaults - nf)
                          /\ More(m[f], pol) \in 0..(2 + MaxFaults - nf)
  BY <1>1, <1>3 DEF More
<1> QED BY <1>2, <1>4

(* So does Apply, complete or not. *)
LEMMA ApplyTypes ==
  ASSUME KernelOK, NEW pol \in SUBSET Sources, ApplyOK(pol) \/ ApplyErr(pol)
  PROVE  KernelOK'
<1> DEFINE k == MaxFaults - nf
<1>1. MaxFaults \in Nat /\ nf \in Nat /\ k \in Nat
  BY ConstantsOK DEF KernelOK
<1>2. ASSUME NEW i \in Nat, NEW m \in [Families -> 0..i]
      PROVE  addMasquerade(m, pol) \in [Families -> 0..(i + 1)]
  <2>1. \A f \in Families : More(m[f], pol) \in 0..(i + 1)
    BY <1>2 DEF More
  <2> QED BY <2>1 DEF addMasquerade
<1>3. CASE NoFault /\ rules' = pol /\ masq' = addMasquerade(delMasquerade, pol)
  <2>1. masq' \in [Families -> 0..(k + 1)]
    BY <1>1, <1>2, <1>3, FewerCopies
  <2> QED BY <1>1, <1>3, <2>1 DEF KernelOK, NoFault
<1>4. CASE /\ Fault("cmd")
           /\ \E left \in SUBSET (rules \ pol) : rules' = left \cup pol
           /\ masq' \in {addMasquerade(m, pol) : m \in DelMasqueradeErr}
  <2>1. masq' \in [Families -> 0..(k + 1 + 1)]
    BY <1>1, <1>2, <1>4, FewerCopies
  <2>2. rules' \in SUBSET Sources
    BY <1>4 DEF KernelOK
  <2> QED BY <1>1, <1>4, <2>1, <2>2 DEF KernelOK, Fault
<1>5. CASE /\ Fault("cmd")
           /\ rules' \in SUBSET (rules \cup pol)
           /\ masq' \in PartialMasquerade(pol, {{}, {"v4"}})
  <2>1. masq' \in [Families -> 0..(2 + k)]
    BY <1>1, <1>5, PartialCopies
  <2>2. rules' \in SUBSET Sources
    BY <1>5 DEF KernelOK
  <2> QED BY <1>1, <1>5, <2>1, <2>2 DEF KernelOK, Fault
<1>6. CASE Fault("save") /\ rules' = {} /\ masq' = delMasquerade
  <2>1. masq' \in [Families -> 0..k]
    BY <1>6, FewerCopies
  <2> QED BY <1>1, <1>6, <2>1 DEF KernelOK, Fault
<1> QED BY <1>3, <1>4, <1>5, <1>6 DEF ApplyOK, ApplyErr

-----------------------------------------------------------------------------
(* Where a step leads is a place. *)
LEMMA Places ==
  ASSUME NEW step \in {"persist", "adv", "apply", "edit"}
  PROVE  /\ StepAfter[step] \in {"adv", "apply", "edit", "done"}
         /\ UndoOfStepBefore[step] \in {"undoApply", "undoAdv", "undoRem", "fail"}
<1>1. CASE step = "persist" BY <1>1 DEF StepAfter, UndoOfStepBefore, Undo
<1>2. CASE step = "adv" BY <1>2 DEF StepAfter, UndoOfStepBefore, Undo
<1>3. CASE step = "apply" BY <1>3 DEF StepAfter, UndoOfStepBefore, Undo
<1>4. CASE step = "edit" BY <1>4 DEF StepAfter, UndoOfStepBefore, Undo
<1> QED BY <1>1, <1>2, <1>3, <1>4

(* An edit, whatever comes of it, leaves preferences tailscaled accepts. *)
LEMMA EditTypes ==
  ASSUME nf \in 0..MaxFaults, prefs \in Prefs, ~Refused(prefs), NEW new \in Prefs,
         EditOK(new) \/ EditErr(new) \/ (Fault("undo") /\ prefs' = prefs)
  PROVE  nf' \in 0..MaxFaults /\ nf' =< nf /\ prefs' \in Prefs /\ ~Refused(prefs')
BY ConstantsOK DEF EditOK, EditErr, EditRefused, Refused, Fault, NoFault

(* A save, failed or not, keeps the types of the manifest. *)
LEMMA SaveTypes ==
  ASSUME nf \in 0..MaxFaults, disk \in Manifests, NEW m \in Manifests,
         SaveOK(m) \/ SaveErr(m)
  PROVE  nf' \in 0..MaxFaults /\ nf' =< nf /\ man' \in Manifests /\ disk' \in Manifests
BY ConstantsOK DEF SaveOK, SaveErr, Fault, NoFault

(* A budget that shrinks allows more copies of the masquerade. *)
LEMMA MasqueradeKept ==
  ASSUME KernelOK, nf' \in 0..MaxFaults, nf' =< nf, UNCHANGED kernel
  PROVE  KernelOK'
<1>1. MaxFaults \in Int /\ nf \in Int /\ nf' \in Int
  BY ConstantsOK DEF KernelOK
<1>2. \A f \in Families : masq[f] \in 0..(1 + MaxFaults - nf')
  BY <1>1 DEF KernelOK
<1>3. masq \in [Families -> 0..(1 + MaxFaults - nf')]
  BY <1>2 DEF KernelOK
<1> QED BY <1>3 DEF KernelOK, kernel

(* Every step keeps the types. *)
LEMMA TypeStep ==
  ASSUME TypeOK, [Next]_vars
  PROVE  TypeOK'
<1> USE DEF tailscaled, manifest, kernel, saga, watcher
<1>0. /\ KernelOK
      /\ MaxOps \in Nat /\ MaxFaults \in Nat
      /\ NoRem \in Remotes /\ NoRem.peer = NoPeer
      /\ req.pol \in SUBSET Sources /\ wpol \in SUBSET Sources
  BY ConstantsOK, PolicySources DEF TypeOK, KernelOK, NoRem, Remotes, Sources
<1>1. ASSUME NEW p \in Peers, NEW pol \in Policies, Enable(p, pol) PROVE TypeOK'
  <2>1. [peer |-> p, pol |-> pol] \in Remotes
    BY DEF Remotes
  <2> QED BY <1>0, <1>1, <2>1 DEF Enable, TypeOK, SagaPcs, Refused
<1>2. CASE SetApplying
  <2>1. raced' \in BOOLEAN
    <3>1. CASE wpc \in SyncPcs BY <1>2, <3>1 DEF SetApplying
    <3>2. CASE wpc \notin SyncPcs BY <1>2, <3>2 DEF SetApplying
    <3> QED BY <3>1, <3>2
  <2> QED BY <1>0, <1>2, <2>1 DEF SetApplying, TypeOK, SagaPcs, Refused, Manifests
<1>3. CASE PersistRemote
  <2>1. [man EXCEPT !.rem = req] \in Manifests
    BY DEF TypeOK, Manifests
  <2>2. KernelOK' /\ man' \in Manifests /\ disk' \in Manifests
    BY <1>0, <1>3, <2>1, SaveTypes, MasqueradeKept
    DEF PersistRemote, SetRemoteExitNode, SetRemoteExitNodeErr, TypeOK
  <2>3. apc' \in SagaPcs \ {"idle", "flag"}
    BY <1>3, Places DEF PersistRemote, Succeed, Fail, SagaPcs
  <2> QED BY <1>3, <2>2, <2>3 DEF PersistRemote, TypeOK, KernelOK, Refused
<1>4. CASE ClearAdvertise
  <2>1. [man EXCEPT !.adv = FALSE] \in Manifests
    BY ZenonT(60) DEF TypeOK, Manifests
  <2>2. KernelOK' /\ man' \in Manifests /\ disk' \in Manifests
    BY <1>0, <1>4, <2>1, SaveTypes, MasqueradeKept DEF ClearAdvertise, TypeOK
  <2>3. apc' \in SagaPcs \ {"idle", "flag"}
    BY <1>4, Places DEF ClearAdvertise, Succeed, Fail, SagaPcs
  <2> QED BY <1>4, <2>2, <2>3 DEF ClearAdvertise, TypeOK, KernelOK, Refused
<1>5. CASE ApplyRules
  <2>1. KernelOK'
    BY <1>0, <1>5, ApplyTypes DEF ApplyRules
  <2>2. apc' \in SagaPcs \ {"idle", "flag"}
    BY <1>5, Places DEF ApplyRules, Succeed, Fail, SagaPcs
  <2>3. man' = man /\ disk' \in {disk, man}
    BY <1>5 DEF ApplyRules, ApplyOK, ApplyErr
  <2> QED BY ZenonT(30), <1>5, <2>1, <2>2, <2>3 DEF ApplyRules, TypeOK, KernelOK, Refused
<1>6. CASE EditPrefs
  <2>1. EnablePrefs \in Prefs
    BY <1>0 DEF EnablePrefs, Prefs, TypeOK, Remotes, NoRem
  <2>2. KernelOK' /\ prefs' \in Prefs /\ ~Refused(prefs')
    BY <1>0, <1>6, <2>1, EditTypes, MasqueradeKept DEF EditPrefs, TypeOK
  <2>3. apc' \in SagaPcs \ {"idle", "flag"}
    BY <1>6, Places DEF EditPrefs, Succeed, Fail, SagaPcs
  <2> QED BY ZenonT(30), <1>6, <2>2, <2>3 DEF EditPrefs, TypeOK, KernelOK
<1>7. CASE CancelRequest
  <2>1. KernelOK'
    BY <1>0, <1>7, MasqueradeKept DEF CancelRequest, Fault, KernelOK
  <2>2. apc' \in SagaPcs \ {"idle", "flag"}
    BY <1>7, Places DEF CancelRequest, Undo, SagaPcs
  <2> QED BY <1>7, <2>1, <2>2 DEF CancelRequest, TypeOK, KernelOK, Refused
<1>8. CASE UndoEdit
  <2>1. RestorePrefs \in Prefs
    BY ZenonT(60) DEF RestorePrefs, Prefs, TypeOK
  <2>2. KernelOK' /\ prefs' \in Prefs /\ ~Refused(prefs')
    BY <1>0, <1>8, <2>1, EditTypes, MasqueradeKept DEF UndoEdit, EditErr, TypeOK
  <2>3. apc' \in SagaPcs \ {"idle", "flag"}
    BY <1>8, Places DEF UndoEdit, Fail, SagaPcs
  <2> QED BY <1>8, <2>2, <2>3 DEF UndoEdit, TypeOK, KernelOK
<1>9. CASE UndoApply
  <2>1. KernelOK'
    BY <1>0, <1>9, CleanupTypes DEF UndoApply
  <2>2. apc' \in SagaPcs \ {"idle", "flag"}
    BY <1>9, Places DEF UndoApply, Fail, SagaPcs
  <2> QED BY <1>9, <2>1, <2>2 DEF UndoApply, Cleanup, TypeOK, KernelOK, Refused
<1>10. CASE UndoAdvertise
  <2>1. [man EXCEPT !.adv = TRUE] \in Manifests
    BY ZenonT(60) DEF TypeOK, Manifests
  <2>2. KernelOK' /\ man' \in Manifests /\ disk' \in Manifests
    BY <1>0, <1>10, <2>1, SaveTypes, MasqueradeKept DEF UndoAdvertise, TypeOK
  <2>3. apc' \in SagaPcs \ {"idle", "flag"}
    BY <1>10, Places DEF UndoAdvertise, Fail, SagaPcs
  <2> QED BY <1>10, <2>2, <2>3 DEF UndoAdvertise, TypeOK, KernelOK, Refused
<1>11. CASE UndoRemote
  <2>1. [man EXCEPT !.rem = prev] \in Manifests
    BY DEF TypeOK, Manifests
  <2>2. KernelOK' /\ man' \in Manifests /\ disk' \in Manifests
    BY <1>0, <1>11, <2>1, SaveTypes, MasqueradeKept
    DEF UndoRemote, SetRemoteExitNode, SetRemoteExitNodeErr, TypeOK
  <2>3. apc' \in SagaPcs \ {"idle", "flag"}
    BY <1>11, Places DEF UndoRemote, Fail, SagaPcs
  <2> QED BY <1>11, <2>2, <2>3 DEF UndoRemote, TypeOK, KernelOK, Refused
<1>12. CASE Disable
  <2>1. raced' \in BOOLEAN
    <3>1. CASE wpc \in SyncPcs BY <1>12, <3>1 DEF Disable
    <3>2. CASE wpc \notin SyncPcs BY <1>12, <3>2 DEF Disable
    <3> QED BY <3>1, <3>2
  <2> QED BY <1>0, <1>12, <2>1 DEF Disable, TypeOK, SagaPcs, Refused
<1>13. CASE DisableEdit
  <2>1. [prefs EXCEPT !.exit = NoPeer] \in Prefs
    BY DEF Prefs, TypeOK
  <2>2. KernelOK' /\ prefs' \in Prefs /\ ~Refused(prefs')
    BY <1>0, <1>13, <2>1, EditTypes, MasqueradeKept DEF DisableEdit, TypeOK
  <2> QED BY <1>13, <2>2 DEF DisableEdit, TypeOK, KernelOK, SagaPcs
<1>14. CASE DisableCleanup
  <2>1. KernelOK'
    BY <1>0, <1>14, CleanupTypes DEF DisableCleanup
  <2> QED BY <1>14, <2>1 DEF DisableCleanup, Cleanup, TypeOK, KernelOK, SagaPcs, Refused
<1>15. CASE DisableRemote
  <2>1. [man EXCEPT !.rem = NoRem] \in Manifests
    BY <1>0 DEF TypeOK, Manifests
  <2>2. KernelOK' /\ man' \in Manifests /\ disk' \in Manifests
    BY <1>0, <1>15, <2>1, SaveTypes, MasqueradeKept
    DEF DisableRemote, SetRemoteExitNode, SetRemoteExitNodeErr, TypeOK
  <2> QED BY <1>15, <2>2 DEF DisableRemote, TypeOK, KernelOK, SagaPcs, Refused
<1>16. CASE Return
  BY ZenonT(60), <1>0, <1>16 DEF Return, TypeOK, SagaPcs, Refused, Prefs
<1>17. ASSUME NEW on \in BOOLEAN, SetRoutes(on) PROVE TypeOK'
  <2>1. [prefs EXCEPT !.adv = on] \in Prefs
    BY DEF Prefs, TypeOK
  <2> QED BY <1>0, <1>17, <2>1 DEF SetRoutes, EditOK, NoFault, TypeOK
<1>18. ASSUME NEW e \in Peers \cup {NoPeer}, EditOutside(e) PROVE TypeOK'
  <2>1. [prefs EXCEPT !.exit = e] \in Prefs
    BY DEF Prefs, TypeOK
  <2> QED BY <1>0, <1>18, <2>1 DEF EditOutside, EditOK, NoFault, TypeOK
<1>19. CASE Tick
  BY <1>19 DEF Tick, TypeOK, WatcherPcs, SyncPcs, Refused
<1>20. CASE SyncGetPrefs
  <2>1. KernelOK'
    BY <1>0, <1>20, MasqueradeKept DEF SyncGetPrefs, Fault, NoFault, KernelOK
  <2>2. wexit' \in Peers \cup {NoPeer} /\ wpc' \in WatcherPcs
    BY ZenonT(30), <1>20 DEF SyncGetPrefs, TypeOK, Prefs, WatcherPcs, SyncPcs
  <2> QED BY ZenonT(30), <1>20, <2>1, <2>2 DEF SyncGetPrefs, TypeOK, KernelOK, Refused
<1>21. CASE SyncGetRemote
  <2>1. man.rem \in Remotes
    BY DEF TypeOK, Manifests
  <2>2. man.rem # NoRem => man.rem.pol \in Policies \cup {AllPolicy}
    BY ZenonT(30), <2>1 DEF Remotes
  <2>3. wrem' \in Remotes /\ wpc' \in WatcherPcs
    BY SMTT(60), <1>0, <1>21, <2>2 DEF SyncGetRemote, TypeOK, Remotes, WatcherPcs, SyncPcs
  <2> QED BY <1>21, <2>3 DEF SyncGetRemote, TypeOK, Refused
<1>22. CASE SyncCleanup
  <2>1. KernelOK'
    BY ZenonT(30), <1>0, <1>22, CleanupTypes DEF SyncCleanup
  <2> QED BY <1>22, <2>1
          DEF SyncCleanup, Cleanup, TypeOK, KernelOK, WatcherPcs, SyncPcs, Refused
<1>23. CASE SyncSetRemote
  <2>1. [man EXCEPT !.rem = wrem] \in Manifests
    BY <1>0 DEF TypeOK, Manifests
  <2>2. KernelOK' /\ man' \in Manifests /\ disk' \in Manifests
    BY ZenonT(60), <1>0, <1>23, <2>1, SaveTypes, MasqueradeKept
    DEF SyncSetRemote, SetRemoteExitNode, SetRemoteExitNodeErr, TypeOK
  <2> QED BY <1>0, <1>23, <2>2 DEF SyncSetRemote, TypeOK, KernelOK, WatcherPcs, Refused
<1>24. CASE ReadPolicy
  <2>1. man.rem.pol \in Policies \cup {AllPolicy, {}}
    BY ZenonT(30), PolicySources DEF TypeOK, Manifests
  <2> QED BY <1>24, <2>1 DEF ReadPolicy, TypeOK, WatcherPcs, Refused
<1>25. CASE Reconcile
  <2>1. KernelOK' /\ man' = man /\ disk' \in {disk, man}
    <3>1. CASE ApplyOK(wpol) \/ ApplyErr(wpol)
      BY ZenonT(60), <1>0, <3>1, ApplyTypes DEF ApplyOK, ApplyErr
    <3>2. CASE (NoFault \/ Fault("cmd")) /\ UNCHANGED <<manifest, kernel>>
      BY <1>0, <3>2, MasqueradeKept DEF Fault, NoFault, KernelOK
    <3> QED BY <1>25, <3>1, <3>2 DEF Reconcile
  <2> QED BY <1>25, <2>1 DEF Reconcile, TypeOK, KernelOK, WatcherPcs, Refused
<1>26. CASE Crash
  <2>1. nf' \in 0..MaxFaults /\ nf' = nf - 1
    BY <1>0, <1>26 DEF Crash, Fault, KernelOK
  <2>2. KernelOK'
    <3>1. CASE UNCHANGED kernel
      BY <1>0, <2>1, <3>1, MasqueradeKept DEF KernelOK
    <3>2. CASE rules' = {} /\ masq' = NoMasq
      BY <1>0, <2>1, <3>2 DEF KernelOK, NoMasq
    <3>3. CASE /\ rules' \in SUBSET (rules \cup Underway)
               /\ masq' \in PartialMasquerade(Underway, {{}, {"v4"}, Families})
      <4>1. masq' \in [Families -> 0..(2 + MaxFaults - nf)]
        BY <1>0, <3>3, PartialCopies
      <4>2. rules' \in SUBSET Sources
        BY <1>0, <3>3 DEF KernelOK, Underway
      <4>3. 2 + MaxFaults - nf = 1 + MaxFaults - nf'
        BY <1>0, <2>1 DEF KernelOK
      <4> QED BY <2>1, <4>1, <4>2, <4>3 DEF KernelOK
    <3> QED BY ZenonT(30), <1>26, <3>1, <3>2, <3>3 DEF Crash
  <2> QED BY ZenonT(60), <1>0, <1>26, <2>2
          DEF Crash, TypeOK, KernelOK, SagaPcs, WatcherPcs, Refused, Prefs
<1>27. CASE UNCHANGED vars
  BY <1>27 DEF vars, TypeOK, Refused
<1> HIDE DEF tailscaled, manifest, kernel, saga, watcher
<1> QED
  BY ZenonT(60), <1>1, <1>2, <1>3, <1>4, <1>5, <1>6, <1>7, <1>8, <1>9, <1>10, <1>11, <1>12,
     <1>13, <1>14, <1>15, <1>16, <1>17, <1>18, <1>19, <1>20, <1>21, <1>22,
     <1>23, <1>24, <1>25, <1>26, <1>27
  DEF Next, SagaStep, WatcherStep

(* The initial state has the types. *)
LEMMA TypeInit == Init => TypeOK
<1> SUFFICES ASSUME Init PROVE TypeOK
  OBVIOUS
<1>1. NoRem \in Remotes /\ MaxOps \in Nat /\ MaxFaults \in Nat
  BY ConstantsOK DEF Remotes
<1>2. masq \in [Families -> 0..(1 + MaxFaults - nf)]
  BY <1>1 DEF Init, NoMasq
<1>3. prefs \in Prefs /\ ~Refused(prefs) /\ old \in Prefs
  BY DEF Init, Prefs, Refused
<1>4. man \in Manifests /\ disk \in Manifests
  BY <1>1 DEF Init, Manifests
<1>5. /\ apc \in SagaPcs /\ wpc \in WatcherPcs
      /\ applying \in BOOLEAN /\ (applying <=> apc \notin {"idle", "flag"})
      /\ raced \in BOOLEAN
  BY ZenonT(60) DEF Init, SagaPcs, WatcherPcs
<1>6. rules \in SUBSET Sources /\ wexit \in Peers \cup {NoPeer}
  BY DEF Init
<1>7. ops \in 0..MaxOps /\ nf \in 0..MaxFaults
  BY <1>1 DEF Init
<1>8. req \in Remotes /\ prev \in Remotes /\ wrem \in Remotes
  BY <1>1 DEF Init
<1>9. wpol \in Policies \cup {AllPolicy, {}}
  BY DEF Init
<1> QED BY <1>2, <1>3, <1>4, <1>5, <1>6, <1>7, <1>8, <1>9 DEF TypeOK

(* Every variable keeps its type, a saga runs with `applying' set, the     *)
(* preferences never both use and advertise an exit node, and each failure *)
(* of a command leaves at most one more copy of the masquerade.            *)
THEOREM TypeCorrect == Spec => []TypeOK
<1>1. TypeOK /\ [Next]_vars => TypeOK'
  BY TypeStep
<1> QED BY <1>1, TypeInit, PTL DEF Spec

-----------------------------------------------------------------------------
(***************************************************************************)
(* The manifest comes before the preferences.  While a saga runs that no   *)
(* sync was caught up with, the watcher is outside its sync, so between    *)
(* the first step of Enable and its last only the saga writes the entry.   *)
(***************************************************************************)
Alone == applying /\ ~raced => wpc \notin SyncPcs
Recorded ==
  apc \in {"adv", "apply", "edit"} /\ ~raced => man.rem = req /\ disk.rem = req
RecordInv == TypeOK /\ Alone /\ Recorded

(* The watcher enters its sync only when no saga has set the flag. *)
LEMMA AloneStep ==
  ASSUME TypeOK, Alone, [Next]_vars
  PROVE  Alone'
<1> USE DEF saga, watcher, Alone
<1>1. CASE Next
  BY ZenonT(60), <1>1 DEF TypeOK, Next, SagaStep, WatcherStep, SyncPcs, Enable, SetApplying,
    PersistRemote, ClearAdvertise, ApplyRules, EditPrefs, CancelRequest, UndoEdit,
    UndoApply, UndoAdvertise, UndoRemote, Disable, DisableEdit, DisableCleanup,
    DisableRemote, Return, SetRoutes, EditOutside, Tick, SyncGetPrefs,
    SyncGetRemote, SyncCleanup, SyncSetRemote, ReadPolicy, Reconcile, Crash
<1>2. CASE UNCHANGED vars
  BY <1>2 DEF vars
<1> QED BY <1>1, <1>2

(* Only the saga, or a sync it was caught up in, writes the entry. *)
LEMMA RecordedStep ==
  ASSUME RecordInv, [Next]_vars
  PROVE  Recorded'
<1> USE DEF tailscaled, manifest, kernel, saga, watcher, Recorded
<1>0. TypeOK /\ Alone /\ Recorded /\ man \in Manifests /\ disk \in Manifests
  BY DEF RecordInv, TypeOK
<1>1. CASE PersistRemote
  <2>1. [man EXCEPT !.rem = req].rem = req
    BY <1>0 DEF Manifests
  <2>2. CASE SetRemoteExitNode(req)
    BY <1>1, <2>1, <2>2 DEF PersistRemote, SetRemoteExitNode, SaveOK
  <2>3. CASE SetRemoteExitNodeErr(req) /\ Fail("persist")
    BY <2>3 DEF Fail, UndoOfStepBefore
  <2> QED BY <1>1, <2>2, <2>3 DEF PersistRemote
<1>2. CASE ClearAdvertise
  <2>1. [man EXCEPT !.adv = FALSE].rem = man.rem
    BY <1>0 DEF Manifests
  <2> QED BY ZenonT(60), <1>0, <1>2, <2>1 DEF ClearAdvertise, SaveOK, SaveErr
<1>3. CASE ApplyRules
  BY ZenonT(30), <1>0, <1>3 DEF ApplyRules, ApplyOK, ApplyErr
<1>4. CASE EditPrefs
  BY ZenonT(30), <1>4, Places DEF EditPrefs, Succeed, Fail, StepAfter
<1>5. CASE CancelRequest
  BY <1>5, Places DEF CancelRequest, Undo
<1>6. CASE UndoEdit \/ UndoApply \/ UndoAdvertise \/ UndoRemote
  BY ZenonT(60), <1>6, Places DEF UndoEdit, UndoApply, UndoAdvertise, UndoRemote, Fail
<1>7. CASE SyncSetRemote
  BY ZenonT(30), <1>0, <1>7 DEF SyncSetRemote, TypeOK, Alone, SyncPcs
<1>8. CASE SyncCleanup \/ Reconcile
  BY <1>0, <1>8 DEF SyncCleanup, Reconcile, Cleanup, ApplyOK, ApplyErr
<1>9. CASE \/ SetApplying \/ DisableEdit \/ DisableCleanup \/ DisableRemote \/ Return
           \/ Disable \/ Crash \/ \E p \in Peers, pol \in Policies : Enable(p, pol)
  BY <1>9 DEF SetApplying, DisableEdit, DisableCleanup, DisableRemote, Return,
     Disable, Crash, Enable
<1>10. CASE \/ \E on \in BOOLEAN : SetRoutes(on)
            \/ \E e \in Peers \cup {NoPeer} : EditOutside(e)
            \/ Tick \/ SyncGetPrefs \/ SyncGetRemote \/ ReadPolicy
  BY ZenonT(60), <1>0, <1>10 DEF SetRoutes, EditOutside, Tick, SyncGetPrefs, SyncGetRemote, ReadPolicy
<1>11. CASE UNCHANGED vars
  BY <1>0, <1>11 DEF vars
<1> HIDE DEF tailscaled, manifest, kernel, saga, watcher, Recorded
<1> QED
  BY ZenonT(30), <1>1, <1>2, <1>3, <1>4, <1>5, <1>6, <1>7, <1>8, <1>9, <1>10, <1>11
  DEF Next, SagaStep, WatcherStep

(* When Enable's EditPrefs succeeds, the manifest has the entry in memory   *)
(* and on disk (unless a sync was already past its test of `applying'),     *)
(* whatever fails, crashes or is edited from outside.                       *)
THEOREM ManifestFirst == Spec => ManifestBeforePrefs
<1>1. Init => RecordInv
  BY TypeInit DEF Init, RecordInv, Alone, Recorded
<1>2. RecordInv /\ [Next]_vars => RecordInv'
  BY TypeStep, AloneStep, RecordedStep DEF RecordInv
<1>3. RecordInv => [apc = "edit" /\ apc' = "done" /\ ~raced =>
                      man.rem = req /\ disk.rem = req]_vars
  BY ZenonT(60) DEF RecordInv, Recorded
<1> QED BY <1>1, <1>2, <1>3, PTL DEF Spec, ManifestBeforePrefs

-----------------------------------------------------------------------------
(***************************************************************************)
(* A failed Enable restores.  Nobody else chooses an exit node, and no     *)
(* save, no answer of tailscaled and no undoing edit is lost.              *)
(***************************************************************************)
Restorable == ~External /\ Faults \cap {"save", "lost", "undo"} = {}

Enabling == {"flag", "persist", "adv", "apply", "edit", "undoEdit", "undoApply",
             "undoAdv", "undoRem", "done", "fail"}

(* The exit node is the one Enable read, except between its edit and the   *)
(* undoing of that edit; the entry is the one it read before the first     *)
(* step and after the last undo.                                           *)
Kept ==
  /\ apc \in Enabling => req.peer \in Peers /\ ~Refused(old)
  /\ apc \in Enabling \ {"done", "undoEdit"} => prefs.exit = old.exit
  /\ apc \in {"done", "undoEdit"} => prefs.exit = req.peer
  /\ apc \in {"persist", "fail"} /\ ~raced => man.rem = prev
KeptInv == TypeOK /\ Alone /\ Kept

(* The undoing edit is not refused: the exit node was used, so no other    *)
(* request can have advertised one meanwhile.                              *)
LEMMA UndoEditRestores ==
  ASSUME Restorable, KeptInv, UndoEdit
  PROVE  prefs'.exit = old.exit
<1>1. prefs \in Prefs /\ old \in Prefs /\ ~Refused(prefs) /\ ~Refused(old)
  BY ZenonT(30) DEF KeptInv, TypeOK, Kept, UndoEdit, Enabling
<1>2. prefs.exit # NoPeer
  BY ConstantsOK DEF KeptInv, Kept, UndoEdit, Enabling
<1>3. ~Refused(RestorePrefs)
  BY <1>1, <1>2 DEF Refused, RestorePrefs, Prefs
<1>4. ~Fault("undo")
  BY ZenonT(30) DEF Restorable, Fault
<1> QED BY SMTT(60), <1>3, <1>4 DEF UndoEdit, EditOK, EditRefused, RestorePrefs

(* Every step keeps it. *)
LEMMA KeptStep ==
  ASSUME Restorable, KeptInv, [Next]_vars
  PROVE  Kept'
<1> USE DEF tailscaled, manifest, kernel, saga, watcher, Kept, Enabling
<1>0. /\ TypeOK /\ Alone /\ Kept /\ man \in Manifests /\ prefs \in Prefs
      /\ ~Fault("save") /\ ~Fault("lost") /\ ~External
  BY ZenonT(60) DEF KeptInv, TypeOK, Restorable, Fault
<1>E. StepAfter["edit"] = "done" /\ UndoOfStepBefore["edit"] = "undoApply"
  BY DEF StepAfter, UndoOfStepBefore, Undo
<1>1. ASSUME NEW p \in Peers, NEW pol \in Policies, Enable(p, pol) PROVE Kept'
  BY ZenonT(60), <1>0, <1>1 DEF Enable, TypeOK, Refused
<1>2. CASE SetApplying
  BY <1>0, <1>2 DEF SetApplying, Refused
<1>3. CASE PersistRemote
  BY <1>0, <1>3, Places
  DEF PersistRemote, SetRemoteExitNodeErr, SaveErr, Succeed, StepAfter, Refused
<1>4. CASE ClearAdvertise
  BY ZenonT(60), <1>0, <1>4 DEF ClearAdvertise, SaveErr, Succeed, StepAfter, Refused
<1>5. CASE ApplyRules
  BY ZenonT(60), <1>0, <1>5
  DEF ApplyRules, Succeed, Fail, StepAfter, UndoOfStepBefore, Undo, Refused
<1>6. CASE EditPrefs
  <2>1. EnablePrefs.exit = req.peer
    BY DEF EnablePrefs
  <2>2. /\ apc = "edit" /\ UNCHANGED <<man, req, prev, old, raced>>
        /\ \/ prefs' = EnablePrefs /\ apc' = "done"
           \/ prefs' = prefs /\ apc' = "undoApply"
    BY ZenonT(60), <1>0, <1>6, <1>E
    DEF EditPrefs, EditOK, EditErr, EditRefused, Succeed, Fail
  <2> QED
    BY ZenonT(60), <1>0, <2>1, <2>2 DEF Refused
<1>7. CASE CancelRequest
  BY SMTT(60), <1>0, <1>7 DEF CancelRequest, UndoOfStepBefore, Undo, Refused
<1>8. CASE UndoEdit
  <2>1. prefs'.exit = old.exit
    BY Zenon, <1>8, UndoEditRestores
  <2>2. apc = "undoEdit" /\ apc' = "undoApply" /\ UNCHANGED <<man, req, prev, old, raced>>
    BY ZenonT(60), <1>8, <1>E DEF UndoEdit, Fail
  <2> QED
    BY ZenonT(60), <1>0, <2>1, <2>2 DEF Refused
<1>9. CASE UndoApply
  BY ZenonT(60), <1>0, <1>9 DEF UndoApply, Fail, UndoOfStepBefore, Undo, Refused
<1>10. CASE UndoAdvertise
  BY <1>0, <1>10 DEF UndoAdvertise, Fail, UndoOfStepBefore, Undo, Refused
<1>11. CASE UndoRemote
  <2>1. [man EXCEPT !.rem = prev].rem = prev
    BY <1>0 DEF Manifests
  <2> QED BY ZenonT(60), <1>0, <1>11, <2>1
          DEF UndoRemote, SetRemoteExitNode, SetRemoteExitNodeErr, SaveOK, SaveErr,
              Fail, UndoOfStepBefore, Refused
<1>12. CASE Disable \/ DisableEdit \/ DisableCleanup \/ DisableRemote \/ Return \/ Crash
  BY <1>12 DEF Disable, DisableEdit, DisableCleanup, DisableRemote, Return, Crash
<1>13. ASSUME NEW on \in BOOLEAN, SetRoutes(on) PROVE Kept'
  <2>1. [prefs EXCEPT !.adv = on].exit = prefs.exit
    BY <1>0 DEF Prefs
  <2> QED BY <1>0, <1>13, <2>1 DEF SetRoutes, EditOK, Refused
<1>14. ASSUME NEW e \in Peers \cup {NoPeer}, EditOutside(e) PROVE Kept'
  BY ZenonT(60), <1>0, <1>14 DEF EditOutside
<1>15. CASE SyncSetRemote
  BY ZenonT(60), <1>0, <1>15 DEF SyncSetRemote, TypeOK, Alone, SyncPcs, Refused
<1>16. CASE Tick \/ SyncGetPrefs \/ SyncGetRemote \/ ReadPolicy
  BY ZenonT(60), <1>0, <1>16 DEF Tick, SyncGetPrefs, SyncGetRemote, ReadPolicy, Refused
<1>17. CASE SyncCleanup \/ Reconcile
  BY ZenonT(60), <1>0, <1>17 DEF SyncCleanup, Reconcile, Cleanup, ApplyOK, ApplyErr, Refused
<1>18. CASE UNCHANGED vars
  BY ZenonT(60), <1>0, <1>18 DEF vars, Refused
<1> HIDE DEF tailscaled, manifest, kernel, saga, watcher, Kept, Enabling
<1> QED
  BY ZenonT(60), <1>1, <1>2, <1>3, <1>4, <1>5, <1>6, <1>7, <1>8, <1>9, <1>10, <1>11, <1>12,
     <1>13, <1>14, <1>15, <1>16, <1>17, <1>18
  DEF Next, SagaStep, WatcherStep

(* A failed or cancelled Enable ends with the entry and the exit node that  *)
(* were there before it, for any peers, policies and failing commands, when *)
(* nobody else edits the exit node and saves, answers and undoing edits are *)
(* not lost.                                                                *)
THEOREM FailedEnableRestores ==
  ASSUME Restorable
  PROVE  Spec => []FailureRestores
<1>1. Init => KeptInv
  BY TypeInit DEF Init, KeptInv, Alone, Kept, Enabling
<1>2. KeptInv /\ [Next]_vars => KeptInv'
  BY ZenonT(30), TypeStep, AloneStep, KeptStep DEF KeptInv
<1>3. KeptInv => FailureRestores
  BY DEF KeptInv, Kept, Enabling, FailureRestores
<1> QED BY <1>1, <1>2, <1>3, PTL DEF Spec

-----------------------------------------------------------------------------
(* ChainOrder *)

\* Every non-empty set of natural numbers has a least element.
LEMMA LeastNumber ==
  ASSUME NEW S, S \subseteq Nat, S # {}
  PROVE  \E m \in S : \A k \in S : m <= k
<1>1. PICK R : R = OpToRel(<, Nat)
  BY Zenon
<1>2. IsWellFoundedOn(R, Nat)
  BY Zenon, <1>1, NatLessThanWellFounded
<1>3. PICK m \in S : \A k \in S : ~ (<<k, m>> \in R)
  BY Zenon, <1>2, WFMin
<1>4. R = {ss \in Nat \X Nat : ss[1] < ss[2]}
  BY <1>1 DEF OpToRel
<1>5. ASSUME NEW k \in S PROVE m <= k
  <2>1. m \in Nat /\ k \in Nat
    OBVIOUS
  <2>2. k < m => <<k, m>> \in R
    BY <1>4, <2>1
  <2>3. ~(<<k, m>> \in R)
    BY ZenonT(30), <1>3
  <2> QED
    BY <2>1, <2>2, <2>3
<1> QED
  BY <1>5

Targets == {Hook, Jump, Other}

\* placeOf is 0 when no rule has the target, and otherwise a place that has it.
LEMMA PlaceOfTarget ==
  ASSUME NEW rs \in Seq(Targets), NEW t
  PROVE  /\ placeOf(rs, t) \in 0..Len(rs)
         /\ placeOf(rs, t) # 0 => rs[placeOf(rs, t)] = t
         /\ \A i \in 1..Len(rs) : rs[i] = t => placeOf(rs, t) # 0
<1>1. CASE \E i \in 1..Len(rs) : rs[i] = t
  <2>1. PICK S : S = {i \in 1..Len(rs) : rs[i] = t}
    BY Zenon
  <2>2. S \subseteq Nat /\ S # {}
    BY <1>1, <2>1
  <2>3. PICK m \in S : \A k \in S : m <= k
    BY Zenon, <2>2, LeastNumber
  <2>4. m \in 1..Len(rs) /\ rs[m] = t /\ \A j \in 1..(m - 1) : rs[j] # t
    BY <2>1, <2>3
  <2>5. PICK p : p = placeOf(rs, t)
    BY Zenon
  <2>6. p \in 1..Len(rs) /\ rs[p] = t
    BY Zenon, <1>1, <2>4, <2>5 DEF placeOf
  <2> QED
    BY <2>5, <2>6
<1>2. CASE ~ \E i \in 1..Len(rs) : rs[i] = t
  BY <1>2 DEF placeOf
<1> QED
  BY <1>1, <1>2

\* Deleting a rule shortens the chain by one and leaves rules of the chain.
LEMMA WithoutRule ==
  ASSUME NEW rs \in Seq(Targets), NEW i \in 1..Len(rs)
  PROVE  without(rs, i) \in Seq(Targets) /\ Len(without(rs, i)) = Len(rs) - 1
<1>1. PICK a, b : a = SubSeq(rs, 1, i - 1) /\ b = SubSeq(rs, i + 1, Len(rs))
  BY Zenon
<1>2. a \in Seq(Targets) /\ Len(a) = i - 1
  BY <1>1
<1>3. b \in Seq(Targets) /\ Len(b) = Len(rs) - i
  BY <1>1
<1>4. without(rs, i) = a \o b
  BY Zenon, <1>1 DEF without
<1> QED
  BY <1>2, <1>3, <1>4

\* Inserting a rule lengthens the chain by one and puts the rule in its place.
LEMMA InsertRule ==
  ASSUME NEW rs \in Seq(Targets), NEW i \in 1..(Len(rs) + 1), NEW r \in Targets
  PROVE  /\ insertAt(rs, i, r) \in Seq(Targets)
         /\ Len(insertAt(rs, i, r)) = Len(rs) + 1
         /\ insertAt(rs, i, r)[i] = r
<1>1. PICK a, b : a = SubSeq(rs, 1, i - 1) /\ b = SubSeq(rs, i, Len(rs))
  BY Zenon
<1>2. a \in Seq(Targets) /\ Len(a) = i - 1
  BY <1>1
<1>3. b \in Seq(Targets) /\ Len(b) = Len(rs) + 1 - i
  BY <1>1
<1>4. PICK c : c = a \o <<r>>
  BY Zenon
<1>5. c \in Seq(Targets) /\ Len(c) = i /\ c[i] = r
  BY <1>2, <1>4
<1>6. insertAt(rs, i, r) = c \o b
  BY Zenon, <1>1, <1>4 DEF insertAt
<1>7. c \o b \in Seq(Targets) /\ Len(c \o b) = Len(rs) + 1
  BY SMTT(60), <1>3, <1>5
<1>8. (c \o b)[i] = c[i]
  BY <1>3, <1>5
<1> QED
  BY Zenon, <1>5, <1>6, <1>7, <1>8

\* The chain's length, the rule the audit has taken out for a moment included.
fullLength == IF auditPc = "insert" THEN Len(chain) + 1 ELSE Len(chain)

\* No listing is longer than the chain, unless UniFi has taken a rule away.
ChainInv ==
    /\ chain \in Seq(Targets) /\ listing \in Seq(Targets) /\ view \in Seq(Targets)
    /\ flight # NoFlight => flight \in Seq(Targets)
    /\ auditPc \in {"delete", "insert"} => Misplaced(view)
    /\ shrunk \in BOOLEAN
    /\ ~shrunk => /\ Len(listing) <= fullLength
                  /\ Len(view) <= fullLength
                  /\ flight # NoFlight => Len(flight) <= fullLength
    /\ HookKept

\* Where a chain of known rules has the hook, the hook is found.
LEMMA HookFound ==
  ASSUME NEW rs \in Seq(Targets), NEW i \in 1..Len(rs), rs[i] = Hook
  PROVE  placeOf(rs, Hook) # 0
BY PlaceOfTarget

\* Each step of the audit, of the readers and of the other writers keeps ChainInv.
LEMMA ChainStep == ChainInv /\ [ChainNext]_chainVars => ChainInv'
<1> SUFFICES ASSUME ChainInv, [ChainNext]_chainVars PROVE ChainInv'
  OBVIOUS
<1>1. CASE auditFromCache \/ auditJoins \/ decide \/ otherReaderJoins \/ cacheAges \/ UNCHANGED chainVars
  BY <1>1 DEF auditFromCache, auditJoins, decide, otherReaderJoins, cacheAges, chainVars,
     ChainInv, HookKept, fullLength
<1>2. ASSUME NEW ok \in BOOLEAN, flightEnds(ok) PROVE ChainInv'
  BY <1>2 DEF flightEnds, ChainInv, HookKept, fullLength
<1>3. CASE deleteHook
  <2>1. PICK p : p = placeOf(chain, Hook)
    BY Zenon
  <2>2. p \in 0..Len(chain)
    BY ZenonT(30), <2>1, PlaceOfTarget DEF ChainInv
  <2>3. CASE p = 0
    BY ZenonT(30), <1>3, <2>1, <2>3 DEF deleteHook, ChainInv, HookKept, fullLength
  <2>4. CASE p # 0
    <3>1. chain' \in Seq(Targets) /\ Len(chain') = Len(chain) - 1
      BY <1>3, <2>1, <2>2, <2>4, WithoutRule DEF deleteHook, ChainInv
    <3> QED
      BY <1>3, <2>1, <2>4, <3>1 DEF deleteHook, ChainInv, HookKept, fullLength
  <2> QED
    BY <2>3, <2>4
<1>4. CASE insertHook
  <2>1. PICK at : at = placeOf(view, Jump)
    BY Zenon
  <2>2. at \in 1..Len(view)
    BY SMTT(60), <1>4, <2>1, PlaceOfTarget DEF insertHook, ChainInv, Misplaced
  <2>3. CASE at <= Len(chain) + 1
    <3>1. /\ chain' \in Seq(Targets) /\ Len(chain') = Len(chain) + 1
          /\ chain'[at] = Hook /\ at \in 1..Len(chain')
      BY SMTT(60), <1>4, <2>1, <2>2, <2>3, InsertRule DEF insertHook, ChainInv, Targets
    <3>2. placeOf(chain', Hook) # 0
      BY <3>1, HookFound
    <3> QED
      BY SMTT(60), <1>4, <2>1, <2>3, <3>1, <3>2 DEF insertHook, ChainInv, HookKept, fullLength
  <2>4. CASE ~(at <= Len(chain) + 1)
    <3>1. shrunk
      BY SMTT(60), <1>4, <2>2, <2>4 DEF insertHook, ChainInv, fullLength
    <3> QED
      BY <1>4, <2>1, <2>4, <3>1 DEF insertHook, ChainInv, HookKept, fullLength
  <2> QED
    BY ZenonT(30), <2>3, <2>4
<1>5. CASE hookMovesFirst
  <2>1. PICK p, rest : p = placeOf(chain, Hook) /\ rest = without(chain, p)
    BY Zenon
  <2>2. p \in 1..Len(chain)
    BY <1>5, <2>1, PlaceOfTarget DEF hookMovesFirst, ChainInv
  <2>3. rest \in Seq(Targets) /\ Len(rest) = Len(chain) - 1
    BY <2>1, <2>2, WithoutRule DEF ChainInv
  <2>4. chain' = <<Hook>> \o rest
    BY <1>5, <2>1 DEF hookMovesFirst
  <2>5. chain' \in Seq(Targets) /\ Len(chain') = Len(chain) /\ chain'[1] = Hook /\ 1 \in 1..Len(chain')
    BY <2>2, <2>3, <2>4 DEF ChainInv, Targets
  <2>6. placeOf(chain', Hook) # 0
    BY ZenonT(30), <2>5, HookFound
  <2> QED
    BY <1>5, <2>5, <2>6 DEF hookMovesFirst, ChainInv, HookKept, fullLength
<1>6. CASE unifiAddsRule
  <2>1. /\ chain' \in Seq(Targets) /\ Len(chain') = Len(chain) + 1
        /\ \A i \in 1..Len(chain) : chain'[i + 1] = chain[i]
    BY <1>6 DEF unifiAddsRule, ChainInv, Targets
  <2>2. placeOf(chain, Hook) # 0 => placeOf(chain', Hook) # 0
    <3> SUFFICES ASSUME placeOf(chain, Hook) # 0 PROVE placeOf(chain', Hook) # 0
      OBVIOUS
    <3>1. PICK i \in 1..Len(chain) : chain[i] = Hook
      BY SMTT(60), PlaceOfTarget DEF ChainInv
    <3>2. PICK j : j = i + 1
      BY Zenon
    <3>3. j \in 1..Len(chain') /\ chain'[j] = Hook
      BY SMTT(60), <2>1, <3>1, <3>2 DEF ChainInv
    <3> QED
      BY Zenon, <2>1, <3>3, HookFound
  <2> QED
    BY SMTT(60), <1>6, <2>1, <2>2 DEF unifiAddsRule, ChainInv, HookKept, fullLength
<1>7. CASE unifiRemovesRule
  <2>1. PICK p : p = placeOf(chain, Other)
    BY Zenon
  <2>2. p \in 1..Len(chain)
    BY <1>7, <2>1, PlaceOfTarget DEF unifiRemovesRule, ChainInv
  <2>3. chain' \in Seq(Targets)
    BY <1>7, <2>1, <2>2, WithoutRule DEF unifiRemovesRule, ChainInv
  <2> QED
    BY ZenonT(30), <1>7, <2>3 DEF unifiRemovesRule, ChainInv, HookKept
<1> QED
  BY ZenonT(60), <1>1, <1>2, <1>3, <1>4, <1>5, <1>6, <1>7 DEF ChainNext, auditNext

(* HookKept for chains of any length, any number of rewrites and of failed  *)
(* listings: auditAndFixTsChainOrder's insertion is never past the end of a *)
(* chain nobody has shortened, however stale the listing it works on.       *)
THEOREM HookIsKept == ChainSpec => []HookKept
<1>1. ChainInit => ChainInv
  <2> SUFFICES ASSUME ChainInit PROVE ChainInv
    OBVIOUS
  <2>1. chain \in Seq(Targets) /\ 2 \in 1..Len(chain) /\ chain[2] = Hook
    BY DEF ChainInit, Targets
  <2>2. placeOf(chain, Hook) # 0
    BY <2>1, HookFound
  <2>3. listing \in Seq(Targets) /\ Len(listing) = 0 /\ view \in Seq(Targets) /\ Len(view) = 0
    BY DEF ChainInit
  <2>4. auditPc = "idle" /\ flight = NoFlight /\ shrunk = FALSE
    BY DEF ChainInit
  <2>5. Len(listing) <= fullLength /\ Len(view) <= fullLength
    BY <2>1, <2>3, <2>4 DEF fullLength
  <2> QED
    BY Zenon, <2>1, <2>2, <2>3, <2>4, <2>5 DEF ChainInv, HookKept
<1>2. ChainInv => HookKept
  BY DEF ChainInv
<1> QED
  BY <1>1, <1>2, ChainStep, PTL DEF ChainSpec

-----------------------------------------------------------------------------
(* SubnetCheck *)

(* A beginning of the table of powers of two. *)
Powers(g, n) == g \in [0..n -> Nat \ {0}] /\ g[0] = 1 /\ \A i \in 1..n : g[i] = 2 * g[i - 1]

(* Every beginning exists. *)
LEMMA SomePowers == ASSUME NEW n \in Nat PROVE \E g : Powers(g, n)
<1> SUFFICES ASSUME ~ \E g : Powers(g, n) PROVE FALSE
  OBVIOUS
<1>1. PICK S : S = {k \in Nat : ~ \E g : Powers(g, k)}
  BY Zenon
<1>2. S \subseteq Nat /\ n \in S
  BY Zenon, <1>1
<1>3. PICK m \in S : \A k \in S : m <= k
  BY Zenon, <1>2, LeastNumber
<1>4. m \in Nat /\ ~ \E g : Powers(g, m)
  BY Zenon, <1>1, <1>3
<1>5. CASE m = 0
  <2>1. PICK g : g = [i \in 0..0 |-> 1]
    BY Zenon
  <2>2. Powers(g, 0)
    BY <2>1 DEF Powers
  <2> QED
    BY Zenon, <1>4, <1>5, <2>2
<1>6. CASE m # 0
  <2>1. m - 1 \in Nat /\ m - 1 \notin S
    BY <1>3, <1>4, <1>6
  <2>2. PICK g : Powers(g, m - 1)
    BY Zenon, <1>1, <2>1
  <2>3. PICK h : h = [i \in 0..m |-> IF i = m THEN 2 * g[m - 1] ELSE g[i]]
    BY Zenon
  <2>4. \A i \in 0..(m - 1) : g[i] \in Nat \ {0}
    BY <2>2 DEF Powers
  <2>5. \A i \in 0..m : h[i] \in Nat \ {0}
    BY SMTT(60), <1>4, <1>6, <2>3, <2>4
  <2>6. h[0] = 1
    BY <1>4, <1>6, <2>2, <2>3 DEF Powers
  <2>7. ASSUME NEW i \in 1..m PROVE h[i] = 2 * h[i - 1]
    <3>1. i - 1 \in 0..m /\ i - 1 # m
      BY <1>4
    <3>2. h[i - 1] = g[i - 1]
      BY <2>3, <3>1
    <3>3. CASE i = m
      BY <1>4, <2>3, <3>2, <3>3
    <3>4. CASE i # m
      <4>1. i \in 1..(m - 1)
        BY <1>4, <3>4
      <4>2. g[i] = 2 * g[i - 1]
        BY <2>2, <4>1 DEF Powers
      <4> QED
        BY <2>3, <3>2, <3>4, <4>2
    <3> QED
      BY <3>3, <3>4
  <2>8. h \in [0..m -> Nat \ {0}]
    BY Zenon, <2>3, <2>5
  <2>9. Powers(h, m)
    BY Zenon, <2>6, <2>7, <2>8 DEF Powers
  <2> QED
    BY Zenon, <1>4, <2>9
<1> QED
  BY <1>5, <1>6

(* Two beginnings agree. *)
LEMMA SamePowers ==
    ASSUME NEW n \in Nat, NEW m \in 0..n, NEW g, NEW h, Powers(g, n), Powers(h, m)
    PROVE  g[m] = h[m]
<1> SUFFICES ASSUME g[m] # h[m] PROVE FALSE
  OBVIOUS
<1>1. PICK S : S = {k \in 0..m : g[k] # h[k]}
  BY Zenon
<1>2. S \subseteq Nat /\ S # {}
  BY <1>1
<1>3. PICK k \in S : \A j \in S : k <= j
  BY Zenon, <1>2, LeastNumber
<1>4. k \in 0..m /\ g[k] # h[k]
  BY Zenon, <1>1, <1>3
<1>5. k # 0
  BY <1>4 DEF Powers
<1>6. k - 1 \in 0..m /\ k - 1 \notin S
  BY <1>3, <1>4, <1>5
<1>7. g[k - 1] = h[k - 1]
  BY Zenon, <1>1, <1>6
<1>8. g[k] = 2 * g[k - 1] /\ h[k] = 2 * h[k - 1]
  <2>1. k \in 1..n /\ k \in 1..m
    BY <1>4, <1>5
  <2> QED
    BY Zenon, <2>1 DEF Powers
<1> QED
  BY <1>4, <1>7, <1>8

(* The table of powers of two is what its equation says. *)
LEMMA PowersOfTwo ==
    /\ pow2[0] = 1
    /\ \A k \in Nat : pow2[k + 1] = 2 * pow2[k] /\ pow2[k] \in Nat \ {0}
<1> DEFINE G(n) == CHOOSE g : Powers(g, n)
<1>1. PICK F : F = [n \in Nat |-> G(n)[n]]
  BY Zenon
<1>2. ASSUME NEW n \in Nat PROVE Powers(G(n), n)
  <2>1. \E g : Powers(g, n)
    BY Zenon, SomePowers
  <2> QED
    BY Zenon, <2>1
<1> HIDE DEF G
<1>3. \A n \in Nat : F[n] = G(n)[n] /\ F[n] \in Nat \ {0}
  <2> TAKE n \in Nat
  <2>1. F[n] = G(n)[n]
    BY Zenon, <1>1
  <2>2. PICK g : g = G(n) /\ Powers(g, n)
    BY Zenon, <1>2
  <2>3. g[n] \in Nat \ {0}
    BY <2>2 DEF Powers
  <2> QED
    BY Zenon, <2>1, <2>2, <2>3
<1>4. F[0] = 1
  <2>1. Powers(G(0), 0) /\ 0 \in Nat
    BY <1>2
  <2> QED
    BY Zenon, <1>3, <2>1 DEF Powers
<1>5. ASSUME NEW n \in Nat \ {0} PROVE F[n] = 2 * F[n - 1]
  <2>1. PICK g, h, k : g = G(n) /\ h = G(k) /\ k = n - 1
    BY Zenon
  <2>2. n \in Nat /\ k \in Nat /\ k \in 0..n /\ n \in 1..n
    BY <2>1
  <2>3. Powers(g, n) /\ Powers(h, k)
    BY Zenon, <1>2, <2>1, <2>2
  <2>4. g[k] = h[k]
    BY Zenon, <2>2, <2>3, SamePowers
  <2>5. g[n] = 2 * g[k]
    BY <2>1, <2>2, <2>3 DEF Powers
  <2> QED
    BY Zenon, <1>3, <2>1, <2>2, <2>4, <2>5
<1>6. F = [n \in Nat |-> IF n = 0 THEN 1 ELSE 2 * F[n - 1]]
  <2>1. ASSUME NEW n \in Nat PROVE F[n] = IF n = 0 THEN 1 ELSE 2 * F[n - 1]
    BY <1>4, <1>5
  <2>2. F = [n \in Nat |-> F[n]]
    BY Zenon, <1>1
  <2> QED
    BY Zenon, <2>1, <2>2
<1>7. pow2 = [n \in Nat |-> IF n = 0 THEN 1 ELSE 2 * pow2[n - 1]]
  BY Zenon, <1>6 DEF pow2
<1>8. pow2[0] = 1 /\ \A k \in Nat : pow2[k + 1] = 2 * pow2[k]
  BY <1>7
<1>9. ASSUME NEW k \in Nat PROVE pow2[k] \in Nat \ {0}
  <2> SUFFICES ASSUME pow2[k] \notin Nat \ {0} PROVE FALSE
    OBVIOUS
  <2>1. PICK S : S = {n \in Nat : pow2[n] \notin Nat \ {0}}
    BY Zenon
  <2>2. S \subseteq Nat /\ S # {}
    BY Zenon, <2>1
  <2>3. PICK m \in S : \A n \in S : m <= n
    BY Zenon, <2>2, LeastNumber
  <2>4. m \in Nat /\ pow2[m] \notin Nat \ {0}
    BY Zenon, <2>1, <2>3
  <2>5. m # 0
    BY <1>8, <2>4
  <2>6. m - 1 \in Nat /\ m - 1 \notin S /\ m = (m - 1) + 1
    BY <2>3, <2>4, <2>5
  <2>7. pow2[m - 1] \in Nat \ {0}
    BY Zenon, <2>1, <2>6
  <2>8. pow2[m] = 2 * pow2[m - 1]
    BY Zenon, <1>8, <2>6
  <2> QED
    BY <2>4, <2>7, <2>8
<1> QED
  BY Zenon, <1>8, <1>9

(* Exponents add. *)
LEMMA PowersAdd == ASSUME NEW i \in Nat, NEW j \in Nat PROVE pow2[i + j] = pow2[i] * pow2[j]
<1> SUFFICES ASSUME pow2[i + j] # pow2[i] * pow2[j] PROVE FALSE
  OBVIOUS
<1>1. PICK S : S = {k \in Nat : pow2[i + k] # pow2[i] * pow2[k]}
  BY Zenon
<1>2. S \subseteq Nat /\ S # {}
  BY Zenon, <1>1
<1>3. PICK m \in S : \A k \in S : m <= k
  BY Zenon, <1>2, LeastNumber
<1>4. m \in Nat /\ pow2[i + m] # pow2[i] * pow2[m]
  BY Zenon, <1>1, <1>3
<1>5. m # 0
  BY <1>4, PowersOfTwo
<1>6. PICK k \in Nat : m = k + 1 /\ k \notin S
  <2>1. m - 1 \in Nat /\ m = (m - 1) + 1 /\ m - 1 \notin S
    BY <1>3, <1>4, <1>5
  <2> QED
    BY Zenon, <2>1
<1>7. PICK a, b, c : a = pow2[i] /\ b = pow2[k] /\ c = pow2[i + k]
  BY Zenon
<1>8. a \in Nat /\ b \in Nat /\ c \in Nat /\ pow2[m] = 2 * b
  BY <1>6, <1>7, PowersOfTwo
<1>9. c = a * b
  BY Zenon, <1>1, <1>6, <1>7
<1>10. pow2[i + m] = 2 * c
  <2>1. i + m = (i + k) + 1 /\ i + k \in Nat
    BY <1>6
  <2> QED
    BY Zenon, <1>7, <2>1, PowersOfTwo
<1>11. 2 * (a * b) = a * (2 * b)
  BY <1>8
<1> QED
  BY Zenon, <1>4, <1>7, <1>8, <1>9, <1>10, <1>11

(* Multiples of a number s are in order, and s apart. *)
LEMMA Multiples ==
    ASSUME NEW p \in Nat, NEW q \in Nat, NEW s \in Nat \ {0}
    PROVE  /\ p * s \in Nat
           /\ p <= q => p * s <= q * s
           /\ p < q => p * s + s <= q * s
<1>1. p * s \in Nat /\ q * s \in Nat
  OBVIOUS
<1>2. ASSUME NEW d \in Nat, q = p + d PROVE q * s = p * s + d * s /\ d * s \in Nat
  BY <1>2
<1>3. ASSUME p <= q PROVE p * s <= q * s
  <2>1. PICK d \in Nat : q = p + d
    <3>1. q - p \in Nat /\ q = p + (q - p)
      BY <1>3
    <3> QED
      BY Zenon, <3>1
  <2>2. q * s = p * s + d * s /\ d * s \in Nat
    BY Zenon, <1>2, <2>1
  <2> QED
    BY <1>1, <2>2
<1>4. ASSUME p < q PROVE p * s + s <= q * s
  <2>1. PICK d \in Nat : q = p + d + 1
    <3>1. q - p - 1 \in Nat /\ q = p + (q - p - 1) + 1
      BY <1>4
    <3> QED
      BY Zenon, <3>1
  <2>2. q * s = p * s + d * s + s /\ d * s \in Nat
    BY <2>1
  <2> QED
    BY <1>1, <2>2
<1> QED
  BY <1>1, <1>3, <1>4

(* A quotient says between which multiples a number is. *)
LEMMA Quotient ==
    ASSUME NEW x \in Nat, NEW k \in Nat, NEW s \in Nat \ {0}
    PROVE  x \div s = k <=> k * s <= x /\ x < k * s + s
<1>1. PICK d, r : d = x \div s /\ r = x % s
  BY Zenon
<1>2. d \in Nat /\ r \in Nat /\ r < s /\ x = s * d + r
  BY <1>1
<1>3. s * d = d * s
  BY <1>2
<1>4. k * s \in Nat /\ d * s \in Nat
  BY <1>2
<1>5. CASE d = k
  BY SMTT(60), <1>1, <1>2, <1>3, <1>4, <1>5
<1>6. CASE d < k
  BY SMTT(60), <1>1, <1>2, <1>3, <1>4, <1>6, Multiples
<1>7. CASE k < d
  BY <1>1, <1>2, <1>3, <1>4, <1>7, Multiples
<1> QED
  BY <1>2, <1>5, <1>6, <1>7

(* A network starts at a multiple of its size. *)
LEMMA NetIs ==
    ASSUME NEW n \in Net
    PROVE  /\ n.len \in 0..Width /\ size(n.len) \in Nat \ {0} /\ n.ip \in Nat
           /\ \E k \in Nat : n.ip = k * size(n.len)
<1>1. PICK len \in 0..Width : \E k \in 0..(pow2[len] - 1) : n = [ip |-> k * size(len), len |-> len]
  BY Zenon DEF Net
<1> PICK k \in 0..(pow2[len] - 1) : n = [ip |-> k * size(len), len |-> len]
  BY Zenon, <1>1
<1>2. n.len = len /\ n.ip = k * size(len)
  OBVIOUS
<1>3. size(len) \in Nat \ {0}
  <2>1. Width - len \in Nat
    BY WidthAssumption
  <2> QED
    BY Zenon, <2>1, PowersOfTwo DEF size
<1>4. k \in Nat
  <2>1. len \in Nat
    BY WidthAssumption
  <2>2. pow2[len] \in Nat
    BY ZenonT(60), <2>1, PowersOfTwo
  <2> QED
    BY <2>2
<1>5. k * size(len) \in Nat
  BY <1>3, <1>4
<1> QED
  BY Zenon, <1>2, <1>3, <1>4, <1>5

(* net.IPNet.Contains tells the addresses of a network from the others. *)
LEMMA ContainsIs ==
    ASSUME NEW n \in Net, NEW x \in Nat
    PROVE  netContains(n, x) <=> x \in addresses(n)
<1>1. PICK s, i : s = size(n.len) /\ i = n.ip /\ s \in Nat \ {0} /\ i \in Nat
  BY Zenon, NetIs
<1>2. PICK k \in Nat : i = k * s
  BY Zenon, <1>1, NetIs
<1>3. i \div s = k
  BY <1>1, <1>2, Quotient
<1>4. x \div s = k <=> i <= x /\ x < i + s
  <2>1. x \div s = k <=> k * s <= x /\ x < k * s + s
    BY <1>1, Quotient
  <2> QED
    BY Zenon, <1>2, <2>1
<1>5. x \in i..(i + s - 1) <=> i <= x /\ x < i + s
  BY <1>1
<1> QED
  BY Zenon, <1>1, <1>3, <1>4, <1>5 DEF netContains, addresses

(* Of two networks that share an address, the smaller starts in the larger. *)
LEMMA SharedStart ==
    ASSUME NEW a \in Net, NEW b \in Net, b.len <= a.len, NEW x, x \in addresses(a), x \in addresses(b)
    PROVE  a.ip \in addresses(b)
<1>1. PICK s, u, i, j : /\ s = size(a.len) /\ i = a.ip /\ s \in Nat \ {0} /\ i \in Nat
                        /\ u = size(b.len) /\ j = b.ip /\ u \in Nat \ {0} /\ j \in Nat
  <2>1. size(a.len) \in Nat \ {0} /\ a.ip \in Nat
    BY Zenon, NetIs
  <2>2. size(b.len) \in Nat \ {0} /\ b.ip \in Nat
    BY Zenon, NetIs
  <2> QED
    BY Zenon, <2>1, <2>2
<1>2. PICK k \in Nat, l \in Nat : i = k * s /\ j = l * u
  BY Zenon, <1>1, NetIs
<1>3. x \in i..(i + s - 1) /\ x \in j..(j + u - 1)
  BY Zenon, <1>1 DEF addresses
<1>4. PICK c \in Nat \ {0} : u = c * s
  <2>1. PICK p, q : p = a.len - b.len /\ q = Width - a.len /\ p \in Nat /\ q \in Nat /\ Width - b.len = p + q
    <3>1. a.len \in 0..Width /\ b.len \in 0..Width
      BY Zenon, NetIs
    <3>2. a.len - b.len \in Nat /\ Width - a.len \in Nat /\ Width - b.len = (a.len - b.len) + (Width - a.len)
      BY <3>1, WidthAssumption
    <3> QED
      BY Zenon, <3>2
  <2>2. pow2[p + q] = pow2[p] * pow2[q] /\ pow2[p] \in Nat \ {0}
    BY ZenonT(60), <2>1, PowersAdd, PowersOfTwo
  <2> QED
    BY Zenon, <1>1, <2>1, <2>2 DEF size
<1>5. PICK m \in Nat : m = l * c
  BY <1>4
<1>6. j = m * s
  BY SMTT(60), <1>1, <1>2, <1>4, <1>5
<1>7. j + u = (m + c) * s /\ m + c \in Nat
  BY SMTT(60), <1>1, <1>4, <1>5, <1>6
<1>8. m <= k
  <2>1. k < m => i + s <= j
    BY ZenonT(60), <1>1, <1>2, <1>6, Multiples
  <2> QED
    BY <1>1, <1>3, <2>1
<1>9. k < m + c
  <2>1. m + c <= k => j + u <= i
    BY ZenonT(60), <1>1, <1>2, <1>7, Multiples
  <2> QED
    BY <1>1, <1>3, <1>7, <2>1
<1>10. j <= i /\ i + s <= j + u
  BY ZenonT(60), <1>1, <1>2, <1>6, <1>7, <1>8, <1>9, Multiples
<1>11. i \in j..(j + u - 1)
  BY <1>1, <1>10
<1> QED
  BY Zenon, <1>1, <1>11 DEF addresses

(* The overlap test of the code is that of the addresses: subnetsOverlap asks
   only for the first address of each network. *)
LEMMA OverlapIs ==
    ASSUME NEW a \in Net, NEW b \in Net
    PROVE  subnetsOverlap(a, b) <=> addresses(a) \cap addresses(b) # {}
<1>1. ASSUME NEW n \in Net PROVE n.ip \in addresses(n) /\ n.ip \in Nat
  <2>1. PICK s, i : s = size(n.len) /\ i = n.ip /\ s \in Nat \ {0} /\ i \in Nat
    BY Zenon, NetIs
  <2>2. i \in i..(i + s - 1)
    BY <2>1
  <2> QED
    BY Zenon, <2>1, <2>2 DEF addresses
<1>2. subnetsOverlap(a, b) <=> b.ip \in addresses(a) \/ a.ip \in addresses(b)
  BY Zenon, <1>1, ContainsIs DEF subnetsOverlap
<1>3. ASSUME NEW x, x \in addresses(a), x \in addresses(b)
      PROVE  b.ip \in addresses(a) \/ a.ip \in addresses(b)
  <2>1. b.len <= a.len \/ a.len <= b.len
    <3>1. a.len \in 0..Width /\ b.len \in 0..Width
      BY Zenon, NetIs
    <3> QED
      BY <3>1, WidthAssumption
  <2> QED
    BY Zenon, <1>3, <2>1, SharedStart
<1> QED
  BY Zenon, <1>1, <1>2, <1>3

\* What the last call answered is what the code computes from the networks
\* the device had then, which do not change.
CheckInv ==
    /\ device \in [Place -> Net \cup {NoNet}] /\ asked \subseteq Net
    /\ \A n \in asked : verdict[n] = ValidateAllowedIPs(n, CollectSystemSubnets(exclude, routesOk))
    /\ passed = filterBlockedAllowedIPs(asked, CollectSystemSubnets(exclude, routesOk))

(* What CollectSystemSubnets collects of the places P, and whether a network
   overlaps one of it. *)
LEMMA HitsIs ==
    ASSUME CheckInv, NEW n \in Net, NEW P, P \subseteq Place
    PROVE  (\E m \in {device[p] : p \in {q \in P : iface(q) # exclude /\ device[q] # NoNet}} :
               subnetsOverlap(n, m))
           <=> \E p \in P : meets(n, p)
<1>1. ASSUME NEW p \in P, device[p] # NoNet PROVE device[p] \in Net
  BY <1>1 DEF CheckInv
<1>2. ASSUME NEW p \in P, device[p] # NoNet
      PROVE  subnetsOverlap(n, device[p]) <=> addresses(n) \cap addresses(device[p]) # {}
  BY Zenon, <1>1, <1>2, OverlapIs
<1> QED
  BY Zenon, <1>2 DEF meets

(* ConflictsFound for addresses of any width and any networks of the device:
   the verdicts of ValidateAllowedIPs and the filter of the ipset's entries,
   which subnetsOverlap decides from the first address of each network, are
   those of the addresses that the networks share. *)
THEOREM ConflictsAreFound == SubnetSpec => []ConflictsFound
<1>1. SubnetInit => CheckInv
  <2> SUFFICES ASSUME SubnetInit PROVE CheckInv
    OBVIOUS
  <2>1. device \in [Place -> Net \cup {NoNet}] /\ asked = {} /\ passed = {}
    BY Zenon DEF SubnetInit
  <2> QED
    BY Zenon, <2>1 DEF CheckInv, filterBlockedAllowedIPs
<1>2. CheckInv /\ [SubnetNext]_subnetVars => CheckInv'
  <2> SUFFICES ASSUME CheckInv, [SubnetNext]_subnetVars PROVE CheckInv'
    OBVIOUS
  <2>1. CASE SubnetNext
    <3>1. PICK n \in Net, ex \in {"none", "wg0"}, ok \in BOOLEAN : validate({n}, ex, ok)
      BY Zenon, <2>1 DEF SubnetNext
    <3>2. device' = device /\ pbr' = pbr /\ asked' = {n} /\ exclude' = ex /\ routesOk' = ok
      BY Zenon, <3>1 DEF validate
    <3>3. CollectSystemSubnets(exclude, routesOk)' = CollectSystemSubnets(ex, ok)
      BY Zenon, <3>2 DEF CollectSystemSubnets
    <3> QED
      BY Zenon, <3>1, <3>2, <3>3 DEF CheckInv, validate
  <2>2. CASE UNCHANGED subnetVars
    BY Zenon, <2>2 DEF CheckInv, subnetVars, CollectSystemSubnets
  <2> QED
    BY Zenon, <2>1, <2>2
<1>3. CheckInv => ConflictsFound
  <2> SUFFICES ASSUME CheckInv, NEW n \in asked
               PROVE  /\ (verdict[n] = "block") <=> (meets(n, "br0") \/ meets(n, "wg0"))
                      /\ n \in passed <=> ~(meets(n, "br0") \/ meets(n, "wg0"))
                      /\ routesOk /\ verdict[n] # "block" =>
                             ((verdict[n] = "table52") <=> meets(n, "table52"))
                      /\ routesOk /\ verdict[n] = "clean" =>
                             ~pbr /\ ~meets(n, "main") /\ ~meets(n, "own")
    BY Zenon DEF ConflictsFound
  <2> DEFINE hits(N) == \E m \in N : subnetsOverlap(n, m)
  <2>1. PICK sys : sys = CollectSystemSubnets(exclude, routesOk)
    BY Zenon
  <2>2. n \in Net /\ verdict[n] = ValidateAllowedIPs(n, sys)
        /\ (n \in passed <=> ValidateAllowedIPs(n, sys) # "block")
    BY Zenon, <2>1 DEF CheckInv, filterBlockedAllowedIPs
  <2>3. PICK B, T, R :
           /\ B = {device[p] : p \in {q \in {"br0", "wg0"} : iface(q) # exclude /\ device[q] # NoNet}}
           /\ T = {device[p] : p \in {q \in {"table52"} : iface(q) # exclude /\ device[q] # NoNet}}
           /\ R = {device[p] : p \in {q \in {"main", "own"} : iface(q) # exclude /\ device[q] # NoNet}}
    BY Zenon
  <2>4. /\ sys.interfaces = B
        /\ routesOk => sys.table52 = T /\ sys.routes = R /\ (sys.pbr <=> pbr)
    <3>1. sys = [interfaces |-> B, table52 |-> IF routesOk THEN T ELSE {},
                 routes |-> IF routesOk THEN R ELSE {}, pbr |-> routesOk /\ pbr]
      BY Zenon, <2>1, <2>3 DEF CollectSystemSubnets
    <3> QED
      BY Zenon, <3>1
  <2>5. {"br0", "wg0"} \subseteq Place /\ {"table52"} \subseteq Place /\ {"main", "own"} \subseteq Place
    BY DEF Place
  <2>6. hits(B) <=> meets(n, "br0") \/ meets(n, "wg0")
    BY Zenon, <2>2, <2>3, <2>5, HitsIs
  <2>7. hits(T) <=> meets(n, "table52")
    BY Zenon, <2>2, <2>3, <2>5, HitsIs
  <2>8. hits(R) <=> meets(n, "main") \/ meets(n, "own")
    BY Zenon, <2>2, <2>3, <2>5, HitsIs
  <2>9. verdict[n] = IF hits(sys.interfaces) THEN "block"
                     ELSE IF hits(sys.table52) THEN "table52"
                     ELSE IF sys.pbr THEN "pbr"
                     ELSE IF hits(sys.routes) THEN "route"
                     ELSE "clean"
    BY Zenon, <2>2 DEF ValidateAllowedIPs
  <2> HIDE DEF hits
  <2>10. "block" # "table52" /\ "block" # "pbr" /\ "block" # "route" /\ "block" # "clean"
         /\ "table52" # "pbr" /\ "table52" # "route" /\ "table52" # "clean"
         /\ "pbr" # "clean" /\ "route" # "clean"
    OBVIOUS
  <2> QED
    BY Zenon, <2>2, <2>4, <2>6, <2>7, <2>8, <2>9, <2>10
<1> QED
  BY <1>1, <1>2, <1>3, PTL DEF SubnetSpec

=============================================================================
