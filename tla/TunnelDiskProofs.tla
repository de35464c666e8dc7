--------------------------- MODULE TunnelDiskProofs ---------------------------
(***************************************************************************)
(* More proofs about TunnelManager: interface names, what an operation may *)
(* touch, the order of kernel and disk, and what is up between operations. *)
(***************************************************************************)
EXTENDS TunnelManagerProofs

-----------------------------------------------------------------------------
(* The inductive invariant behind NamesDistinct: the list in memory, the   *)
(* list on disk, and the list a save would write.                          *)
Distinct(cs) ==
    \A t, u \in Tunnels : t # u /\ cs[t] # NoCfg /\ cs[u] # NoCfg => cs[t].iface # cs[u].iface

NamesInv ==
    /\ TypeInv
    /\ Distinct(config)
    /\ Distinct(disk)
    /\ Busy => \A u \in Tunnels \ {tun} : config[u] # NoCfg => config[u].iface # work.iface

-----------------------------------------------------------------------------
(* What a save writes: the new configuration of the one tunnel. *)
LEMMA CommittedIs ==
    ASSUME TypeInv, pc = "save"
    PROVE  /\ Committed \in [Tunnels -> Cfg \cup {NoCfg}]
           /\ \A u \in Tunnels \ {tun} : Committed[u] = config[u]
           /\ kind = "delete" => Committed[tun] = NoCfg
           /\ kind # "delete" => /\ Committed[tun] \in Cfg
                                 /\ Committed[tun].iface = work.iface
                                 /\ KeysOf(Committed[tun]) = KeysOf(work)
           /\ kind = "enable" => Committed[tun].enabled
           /\ kind = "disable" => ~Committed[tun].enabled
           /\ kind \notin {"delete", "enable", "disable"} => Committed[tun] = work
<1> DEFINE new == CASE kind = "delete" -> NoCfg
                    [] kind = "enable" -> [work EXCEPT !.enabled = TRUE]
                    [] kind = "disable" -> [work EXCEPT !.enabled = FALSE]
                    [] OTHER -> work
<1>1. tun \in Tunnels /\ work \in Cfg /\ config \in [Tunnels -> Cfg \cup {NoCfg}]
  BY DEF TypeInv, TypeOK, Busy
<1>2. CASE kind = "delete"
  <2>1. new = NoCfg
    BY Zenon, <1>2
  <2>2. Committed = [config EXCEPT ![tun] = NoCfg]
    BY Zenon, <2>1 DEF Committed
  <2> QED
    BY <1>1, <1>2, <2>2
<1>3. CASE kind = "enable"
  <2>1. new = [work EXCEPT !.enabled = TRUE]
    BY Zenon, <1>3
  <2>2. Committed = [config EXCEPT ![tun] = [work EXCEPT !.enabled = TRUE]]
    BY Zenon, <2>1 DEF Committed
  <2> QED
    BY Zenon, <1>1, <1>3, <2>2 DEF Cfg, KeysOf
<1>4. CASE kind = "disable"
  <2>1. new = [work EXCEPT !.enabled = FALSE]
    BY Zenon, <1>4
  <2>2. Committed = [config EXCEPT ![tun] = [work EXCEPT !.enabled = FALSE]]
    BY Zenon, <2>1 DEF Committed
  <2> QED
    BY Zenon, <1>1, <1>4, <2>2 DEF Cfg, KeysOf
<1>5. CASE kind \notin {"delete", "enable", "disable"}
  <2>1. new = work
    BY Zenon, <1>5
  <2>2. Committed = [config EXCEPT ![tun] = work]
    BY Zenon, <2>1 DEF Committed
  <2> QED
    BY <1>1, <1>5, <2>2
<1> QED
  BY <1>2, <1>3, <1>4, <1>5

(* A save keeps names apart when the new configuration has a free one. *)
LEMMA CommittedDistinct ==
    ASSUME NamesInv, pc = "save"
    PROVE  Distinct(Committed)
<1>1. tun \in Tunnels /\ Busy
  BY DEF NamesInv, TypeInv, Busy
<1>2. \A u \in Tunnels \ {tun} : Committed[u] = config[u]
  BY CommittedIs DEF NamesInv
<1>3. Committed[tun] = NoCfg \/ Committed[tun].iface = work.iface
  BY CommittedIs DEF NamesInv
<1> QED
  BY <1>1, <1>2, <1>3 DEF Distinct, NamesInv

(* Every step keeps the names apart. *)
LEMMA NamesStep ==
    ASSUME NamesInv, [Next]_vars
    PROVE  NamesInv'
<1>type. TypeInv /\ TypeInv'
  BY TypeStep DEF NamesInv
<1>quiet. ASSUME UNCHANGED <<config, disk>>,
                 Busy' => Busy /\ UNCHANGED <<tun, work>>
          PROVE  NamesInv'
  BY <1>quiet, <1>type DEF NamesInv, Distinct
<1>1. CASE UNCHANGED vars
  BY <1>1, <1>quiet DEF vars, mem, persistent, Busy
<1>2. CASE LoadKey \/ Recreate \/ DownLookup
  BY <1>2, <1>quiet DEF LoadKey, Recreate, DownLookup, DownDone, Goto, ReturnError, Return,
     mem, Busy
<1>3. CASE CleanLookup \/ SetUpDevice \/ HotPeer
  BY <1>3, <1>quiet DEF CleanLookup, SetUpDevice, HotPeer, Goto, mem, persistent, Busy
<1>4. CASE CleanRelease \/ DownRelease \/ HotRelease \/ HotClaim
  BY <1>4, <1>quiet DEF CleanRelease, DownRelease, HotRelease, HotClaim, Goto, persistent, Busy
<1>5. CASE CleanDelete \/ MakeLink \/ Cleanup \/ DownDelete
  BY <1>5, <1>quiet DEF CleanDelete, MakeLink, Cleanup, DownDelete, DownDone, Goto, ReturnError,
     Return, mem, Busy
<1>6. CASE Claim
  BY <1>6, <1>quiet DEF Claim, UpDone, Goto, Return, Busy
<1>7. CASE DeleteKeyFiles
  BY <1>7, <1>quiet DEF DeleteKeyFiles, Return, mem, Busy
<1>8. CASE Sweep
  BY <1>8, <1>quiet DEF Sweep, mem, persistent, Busy
<1>9. CASE Crash
  BY <1>9, <1>type DEF Crash, NamesInv, Distinct, persistent, Busy
<1>10. CASE SaveOK
  <2>1. config' = Committed /\ disk' = Committed /\ Distinct(Committed) /\ pc = "save"
    BY <1>10, CommittedDistinct DEF SaveOK
  <2>2. Distinct(config)' /\ Distinct(disk)'
    BY <2>1 DEF Distinct
  <2>3. Busy' => tun' = tun /\ work' = work
    BY <1>10 DEF SaveOK, Goto, Return, Busy
  <2>4. \A u \in Tunnels \ {tun} : config'[u] = config[u]
    BY <1>type, <2>1, CommittedIs
  <2>5. Busy
    BY <2>1 DEF Busy
  <2> QED
    BY <1>type, <2>2, <2>3, <2>4, <2>5 DEF NamesInv
<1>11. CASE SaveFails
  <2>1. /\ config' \in {config, Committed} /\ disk' \in {disk, Committed}
        /\ Distinct(Committed) /\ pc = "save"
    BY <1>11, CommittedDistinct DEF SaveFails
  <2>2. Distinct(config)' /\ Distinct(disk)'
    BY <2>1 DEF Distinct, NamesInv
  <2>3. Busy' => tun' = tun /\ work' = work
    BY <1>11 DEF SaveFails, Return, Busy
  <2>4. \A u \in Tunnels \ {tun} : config'[u] = config[u]
    BY <1>type, <2>1, CommittedIs
  <2>5. Busy
    BY <2>1 DEF Busy
  <2> QED
    BY <1>type, <2>2, <2>3, <2>4, <2>5 DEF NamesInv
<1>12. CASE RestoreNext
  <2>1. UNCHANGED <<config, disk>>
    BY <1>12 DEF RestoreNext, mem, persistent
  <2>2. CASE pc' = "idle"
    BY <1>quiet, <2>1, <2>2 DEF Busy
  <2>3. ASSUME NEW t \in pend, tun' = t, work' = config[t] PROVE NamesInv'
    <3>1. t \in Tunnels /\ config[t] # NoCfg
      BY <1>type, ConstantsOK DEF TypeInv, TypeOK
    <3> QED
      BY <1>type, <2>1, <2>3, <3>1 DEF NamesInv, Distinct
  <2> QED
    BY <1>12, <2>2, <2>3 DEF RestoreNext
<1>enter. ASSUME NEW kd, NEW t \in Tunnels, NEW c, NEW st, Enter(kd, t, c, st),
                 \A u \in Tunnels \ {t} : config[u] # NoCfg => config[u].iface # c.iface
          PROVE  NamesInv'
  BY <1>enter, <1>type DEF Enter, NamesInv, Distinct, mem
<1>13. ASSUME NEW t \in Tunnels, NEW ips \in SUBSET CIDRs, NEW metric \in Metrics,
              CreateTunnel(t, ips, metric)
       PROVE  NamesInv'
  <2>1. PICK n \in Names :
          /\ nextInterfaceName(n)
          /\ Enter("create", t,
                   [iface |-> n, enabled |-> TRUE, ips |-> ips, metric |-> metric], "clean")
    BY Zenon, <1>13 DEF CreateTunnel
  <2>2. \A u \in Tunnels : config[u] # NoCfg => config[u].iface # n
    BY <2>1 DEF nextInterfaceName, UsedNames, Configured
  <2> DEFINE c == [iface |-> n, enabled |-> TRUE, ips |-> ips, metric |-> metric]
  <2>3. Enter("create", t, c, "clean") /\ c.iface = n
    BY <2>1
  <2> HIDE DEF c
  <2> QED
    BY <1>enter, <2>2, <2>3
<1>14. ASSUME NEW t \in Tunnels, DeleteTunnel(t) PROVE NamesInv'
  <2> DEFINE first == IF config[t].enabled THEN "down" ELSE "save"
  <2>1. Enter("delete", t, config[t], first) /\ config[t] # NoCfg
    BY <1>14 DEF DeleteTunnel
  <2>2. \A u \in Tunnels \ {t} : config[u] # NoCfg => config[u].iface # config[t].iface
    BY <2>1 DEF NamesInv, Distinct
  <2> HIDE DEF first
  <2> QED
    BY <1>enter, <2>1, <2>2
<1>15. ASSUME NEW t \in Tunnels, EnableTunnel(t) PROVE NamesInv'
  BY <1>15, <1>enter DEF EnableTunnel, NamesInv, Distinct
<1>16. ASSUME NEW t \in Tunnels, DisableTunnel(t) PROVE NamesInv'
  BY <1>16, <1>enter DEF DisableTunnel, NamesInv, Distinct
<1>17. ASSUME NEW t \in Tunnels, NEW ips \in SUBSET CIDRs, NEW metric \in Metrics,
              NEW hard \in BOOLEAN, UpdateTunnel(t, ips, metric, hard)
       PROVE  NamesInv'
  <2> DEFINE merged == [config[t] EXCEPT !.ips = ips, !.metric = metric]
             first == IF ~config[t].enabled THEN "save" ELSE IF hard THEN "recreate" ELSE "hot"
  <2>1. config[t] \in Cfg /\ config[t] # NoCfg /\ Enter("update", t, merged, first)
    BY <1>17, <1>type DEF UpdateTunnel, TypeInv, TypeOK
  <2>2. merged.iface = config[t].iface
    BY <2>1 DEF Cfg
  <2>3. \A u \in Tunnels \ {t} : config[u] # NoCfg => config[u].iface # merged.iface
    BY <2>1, <2>2 DEF NamesInv, Distinct
  <2> HIDE DEF merged, first
  <2> QED
    BY <1>enter, <2>1, <2>3
<1> QED
  BY Zenon, <1>1, <1>2, <1>3, <1>4, <1>5, <1>6, <1>7, <1>8, <1>9, <1>10, <1>11, <1>12, <1>13,
     <1>14, <1>15, <1>16, <1>17
     DEF Next, Request, Step

(* The manager starts without tunnels. *)
LEMMA NamesInit == Init => NamesInv
  BY TypeInit DEF Init, NamesInv, Distinct, Busy

(* Two tunnels never share an interface name, in memory or on disk,        *)
(* whatever fails (saves included), whenever the process dies, and for any *)
(* number of tunnels.                                                      *)
THEOREM NamesStayDistinct == Spec => []NamesDistinct
<1>1. NamesInv /\ [Next]_vars => NamesInv'
  BY NamesStep
<1>2. NamesInv => NamesDistinct
  BY DEF NamesInv, Distinct, NamesDistinct, Configured
<1> QED
  BY NamesInit, <1>1, <1>2, PTL DEF Spec

-----------------------------------------------------------------------------
(* What a step may touch: of the links the one of the tunnel it works on,  *)
(* of the owners that tunnel's.  RestoreAll's sweep and a crash aside.     *)
LEMMA Footprint ==
    ASSUME TypeInv, Next, pc # "sweep", pc' # "sweep"
    PROVE  /\ \A n \in Names : n # work.iface => link'[n] = link[n]
           /\ \A k \in Keys, u \in Tunnels : u # tun => refs'[k][u] = refs[k][u]
<1> DEFINE Here == /\ \A n \in Names : n # work.iface => link'[n] = link[n]
                   /\ \A k \in Keys, u \in Tunnels : u # tun => refs'[k][u] = refs[k][u]
<1> SUFFICES Here
  OBVIOUS
<1>type. TypeOK /\ todo \subseteq Keys
  BY DEF TypeInv, TypeOK
<1>quiet. ASSUME UNCHANGED <<link, refs>> PROVE Here
  BY <1>quiet
<1>route. ASSUME NEW k \in Keys, NEW i, UNCHANGED link, refs' = [refs EXCEPT ![k][tun] = i]
          PROVE  Here
  BY <1>type, <1>route DEF TypeOK
<1>drop. ASSUME DropLink(work.iface), UNCHANGED refs PROVE Here
  BY <1>type, <1>drop DEF DropLink, TypeOK
<1> HIDE DEF Here
<1>1. CASE Request
  <2>1. UNCHANGED <<link, refs>>
    BY ZenonT(60), <1>1 DEF Request, CreateTunnel, DeleteTunnel, EnableTunnel, DisableTunnel,
       UpdateTunnel, Enter, mem, kernel
  <2> QED
    BY <1>quiet, <2>1
<1>2. CASE LoadKey \/ Recreate \/ DownLookup \/ CleanLookup \/ SetUpDevice \/ HotPeer
  BY <1>2, <1>quiet DEF LoadKey, Recreate, DownLookup, CleanLookup, SetUpDevice, HotPeer,
     mem, kernel
<1>3. CASE SaveOK \/ SaveFails \/ DeleteKeyFiles \/ RestoreNext
  BY <1>3, <1>quiet DEF SaveOK, SaveFails, DeleteKeyFiles, RestoreNext, mem, kernel
<1>4. CASE CleanRelease \/ DownRelease \/ HotRelease
  <2>1. UNCHANGED link /\ (UNCHANGED refs \/ \E k \in todo : ReleaseRoute(k))
    BY <1>4 DEF CleanRelease, DownRelease, HotRelease
  <2> QED
    BY <2>1, <1>type, <1>quiet, <1>route DEF ReleaseRoute
<1>5. CASE CleanDelete \/ DownDelete \/ Cleanup
  <2>1. UNCHANGED refs /\ (UNCHANGED link \/ DropLink(work.iface))
    BY <1>5 DEF CleanDelete, DownDelete, Cleanup, mem, kernel
  <2> QED
    BY <2>1, <1>quiet, <1>drop
<1>6. CASE MakeLink
  <2>1. UNCHANGED refs /\ (UNCHANGED link \/ \E i \in Idx : link' = [link EXCEPT ![work.iface] = i])
    BY <1>6 DEF MakeLink, mem
  <2> QED
    BY <1>type, <2>1 DEF TypeOK, Here
<1>7. CASE Claim \/ HotClaim
  <2>1. /\ UNCHANGED link
        /\ UNCHANGED refs \/ \E k \in todo : ClaimRoute(k) \/ ClaimFails(k)
    BY <1>7 DEF Claim, HotClaim
  <2>2. ASSUME NEW k \in todo, ClaimRoute(k) PROVE Here
    BY ZenonT(60), <2>1, <2>2, <1>type, <1>route DEF ClaimRoute
  <2>3. ASSUME NEW k \in todo, ClaimFails(k) PROVE Here
    BY ZenonT(30), <2>1, <2>3, <1>type DEF ClaimFails, TypeOK, Here
  <2> QED
    BY <1>quiet, <2>1, <2>2, <2>3
<1>8. CASE Sweep \/ Crash
  BY <1>8 DEF Sweep, Crash
<1> QED
  BY Zenon, <1>1, <1>2, <1>3, <1>4, <1>5, <1>6, <1>7, <1>8 DEF Next, Step

(* An operation on one tunnel never deletes or replaces the interface of   *)
(* another configured tunnel and never takes a route from it, whatever     *)
(* fails; RestoreAll's sweep deletes only links no tunnel is named after.  *)
THEOREM OperationsAreIsolated == Spec => Isolation
<1> DEFINE Isolated == pc' # "sweep" =>
                         \A u \in Configured(config) \ {tun} :
                           /\ link'[config[u].iface] = link[config[u].iface]
                           /\ \A k \in Keys : refs'[k][u] = refs[k][u]
<1>1. NamesInv /\ [Next]_vars => NamesInv'
  BY NamesStep
<1>2. ASSUME NamesInv, [Next]_vars PROVE [Isolated]_vars
  <2> SUFFICES ASSUME Next, pc' # "sweep", NEW u \in Configured(config) \ {tun}
               PROVE  /\ link'[config[u].iface] = link[config[u].iface]
                      /\ \A k \in Keys : refs'[k][u] = refs[k][u]
    BY <1>2
  <2>1. u \in Tunnels /\ config[u] \in Cfg /\ config[u].iface \in Names
    BY <1>2, IfaceType DEF Configured, NamesInv, TypeInv, TypeOK
  <2>2. CASE pc = "sweep"
    <3>1. Sweep
      BY Zenon, <2>2 DEF Next, Step, Sweep, Request, CreateTunnel, DeleteTunnel, EnableTunnel,
         DisableTunnel, UpdateTunnel, LoadKey, CleanLookup, CleanRelease, CleanDelete,
         MakeLink, SetUpDevice, Claim, Cleanup, DownLookup, DownRelease, DownDelete,
         HotPeer, HotRelease, HotClaim, Recreate, SaveOK, SaveFails, DeleteKeyFiles,
         RestoreNext, Crash
    <3>2. config[u].iface \in UsedNames(config)
      BY DEF UsedNames
    <3> QED
      BY <2>1, <3>1, <3>2 DEF Sweep, mem
  <2>3. CASE pc # "sweep" /\ Busy
    <3>1. config[u].iface # work.iface
      BY <1>2, <2>1, <2>3 DEF NamesInv, Configured
    <3> QED
      BY <1>2, <2>1, <2>3, <3>1, Footprint DEF NamesInv
  <2>4. CASE pc # "sweep" /\ ~Busy
    <3>1. UNCHANGED <<link, refs>>
      BY ZenonT(60), <2>4 DEF Busy, Next, Step, Sweep, Request, CreateTunnel, DeleteTunnel,
         EnableTunnel, DisableTunnel, UpdateTunnel, Enter, LoadKey, CleanLookup, CleanRelease,
         CleanDelete, MakeLink, SetUpDevice, Claim, Cleanup, DownLookup, DownRelease,
         DownDelete, HotPeer, HotRelease, HotClaim, Recreate, SaveOK, SaveFails,
         DeleteKeyFiles, RestoreNext, Crash, mem, kernel
    <3> QED
      BY <3>1
  <2> QED
    BY <2>2, <2>3, <2>4
<1> QED
  BY NamesInit, <1>1, <1>2, PTL DEF Spec, Isolation
-----------------------------------------------------------------------------
(***************************************************************************)
(* Kernel first.  Saves that succeed keep the file equal to the list in    *)
(* memory, and the steps of an operation reach its save only with the      *)
(* kernel where the new configuration wants it.                            *)
(***************************************************************************)
Raising == {"key", "clean", "cleanRel", "cleanDel", "mk", "dev", "claim", "cleanup"}
Lowering == {"down", "downRel", "downDel"}

(* What the running operation is and found in the list. *)
OpInv ==
    /\ disk = config
    /\ Busy => kind \in {"create", "enable", "update", "delete", "disable", "restore"}
    /\ pc \in Raising => kind \in {"create", "enable", "update", "restore"}
    /\ pc \in Lowering => kind \in {"delete", "disable", "update"}
    /\ pc \in {"hot", "hotRel", "hotClaim", "recreate"} => kind = "update"
    /\ Busy /\ kind = "create" => config[tun] = NoCfg
    /\ Busy /\ kind = "enable" => config[tun] # NoCfg /\ ~config[tun].enabled
    /\ Busy /\ kind = "update" => config[tun] # NoCfg /\ config[tun].enabled = work.enabled
    /\ Busy /\ kind \in {"delete", "disable"} /\ pc # "rmkeys" => config[tun] = work

Claimed(k) == refs[k][tun] = link[work.iface]

(* How far the kernel is at the steps of the operation. *)
KernelInv ==
    /\ pc \in {"dev", "claim"} => link[work.iface] # NoIdx
    /\ pc = "claim" => KeysOf(work) \subseteq reg \cup todo /\ \A k \in reg : Claimed(k)
    /\ pc = "save" /\ kind \in {"create", "enable"} =>
         link[work.iface] # NoIdx /\ \A k \in KeysOf(work) : Claimed(k)
    /\ pc = "save" /\ kind \in {"delete", "disable"} /\ work.enabled => link[work.iface] = NoIdx

StageInv == TypeInv /\ OpInv /\ KernelInv

(* After a teardown a delete or a disable saves, a recreate goes on. *)
LEMMA DownDoneIs ==
    ASSUME DownDone, kind \in {"delete", "disable", "update"}
    PROVE  /\ Goto(IF kind = "update" THEN "key" ELSE "save")
           /\ UNCHANGED <<todo, reg, pend, keys>>
<1>1. CASE kind = "update"
  BY Zenon, <1>1 DEF DownDone
<1>2. CASE kind \in {"delete", "disable"}
  BY Zenon, <1>2 DEF DownDone
<1> QED
  BY <1>1, <1>2

(* Every step keeps the operation what it is. *)
LEMMA OpStep ==
    ASSUME "save" \notin Faults, TypeInv, OpInv, [Next]_vars
    PROVE  OpInv'
<1> USE DEF OpInv, Busy, Raising, Lowering
<1>1. CASE UNCHANGED vars
  BY <1>1 DEF vars, mem, persistent
<1>2. CASE LoadKey
  BY <1>2 DEF LoadKey, Goto, ReturnError, Return, mem
<1>3. CASE CleanLookup
  BY <1>3 DEF CleanLookup, Goto, mem, persistent
<1>4. CASE CleanRelease
  BY <1>4 DEF CleanRelease, Goto, persistent
<1>5. CASE CleanDelete
  BY <1>5 DEF CleanDelete, Goto, ReturnError, Return, mem
<1>6. CASE MakeLink
  BY <1>6 DEF MakeLink, Goto, ReturnError, Return, mem
<1>7. CASE SetUpDevice
  BY <1>7 DEF SetUpDevice, Goto, mem, persistent
<1>8. CASE Claim
  BY <1>8 DEF Claim, UpDone, Goto, Return
<1>9. CASE Cleanup
  BY <1>9 DEF Cleanup, ReturnError, Return, mem
<1>10. CASE DownLookup
  BY <1>10, DownDoneIs DEF DownLookup, Goto, mem
<1>11. CASE DownRelease
  BY <1>11 DEF DownRelease, Goto, persistent
<1>12. CASE DownDelete
  BY ZenonT(30), <1>12, DownDoneIs DEF DownDelete, Goto, ReturnError, Return, mem
<1>13. CASE HotPeer
  BY <1>13 DEF HotPeer, Goto, mem, persistent
<1>14. CASE HotRelease
  BY <1>14 DEF HotRelease, Goto, persistent
<1>15. CASE HotClaim
  BY <1>15 DEF HotClaim, Goto, persistent
<1>16. CASE Recreate
  BY <1>16 DEF Recreate, Goto, ReturnError, Return, mem
<1>17. CASE SaveOK
  <2>1. CASE kind = "delete"
    BY <1>17, <2>1 DEF SaveOK, Goto
  <2>2. CASE kind # "delete"
    BY <1>17, <2>2 DEF SaveOK, Return
  <2> QED
    BY <2>1, <2>2
<1>18. CASE DeleteKeyFiles
  BY <1>18 DEF DeleteKeyFiles, Return, mem
<1>19. CASE Crash
  BY <1>19 DEF Crash, persistent
<1>20. CASE Sweep
  BY <1>20 DEF Sweep, mem, persistent
<1>21. CASE RestoreNext
  BY <1>21 DEF RestoreNext, mem, persistent
<1>22. ASSUME NEW t \in Tunnels, NEW ips \in SUBSET CIDRs, NEW metric \in Metrics,
              CreateTunnel(t, ips, metric)
       PROVE  OpInv'
  BY <1>22 DEF CreateTunnel, Enter, mem
<1>23. ASSUME NEW t \in Tunnels, DeleteTunnel(t) PROVE OpInv'
  BY <1>23 DEF DeleteTunnel, Enter, mem
<1>24. ASSUME NEW t \in Tunnels, EnableTunnel(t) PROVE OpInv'
  BY <1>24 DEF EnableTunnel, Enter, mem
<1>25. ASSUME NEW t \in Tunnels, DisableTunnel(t) PROVE OpInv'
  BY <1>25 DEF DisableTunnel, Enter, mem
<1>26. ASSUME NEW t \in Tunnels, NEW ips \in SUBSET CIDRs, NEW metric \in Metrics,
              NEW hard \in BOOLEAN, UpdateTunnel(t, ips, metric, hard)
       PROVE  OpInv'
  <2> DEFINE merged == [config[t] EXCEPT !.ips = ips, !.metric = metric]
  <2>1. config[t] \in Cfg
    BY <1>26 DEF UpdateTunnel, TypeInv, TypeOK
  <2>2. merged.enabled = config[t].enabled
    BY <2>1 DEF Cfg
  <2>3. /\ UNCHANGED <<config, disk>> /\ config[t] # NoCfg
        /\ kind' = "update" /\ tun' = t /\ work' = merged
        /\ pc' \in {"save", "recreate", "hot"}
    BY <1>26 DEF UpdateTunnel, Enter, mem
  <2> HIDE DEF merged
  <2> QED
    BY <2>2, <2>3
<1>27. CASE SaveFails
  BY <1>27 DEF SaveFails, MayFail
<1> HIDE DEF OpInv, Busy, Raising, Lowering
<1> QED
  BY Zenon, <1>1, <1>2, <1>3, <1>4, <1>5, <1>6, <1>7, <1>8, <1>9, <1>10, <1>11, <1>12, <1>13,
     <1>14, <1>15, <1>16, <1>17, <1>18, <1>19, <1>20, <1>21, <1>22, <1>23, <1>24, <1>25,
     <1>26, <1>27
     DEF Next, Request, Step

(* Claiming a route, the loop of claimRoutes gets one route further. *)
LEMMA ClaimExtends ==
    ASSUME TypeInv, Busy, NEW k \in todo, ClaimRoute(k), todo' = todo \ {k}, reg' = reg \cup {k},
           KeysOf(work) \subseteq reg \cup todo, \A j \in reg : Claimed(j)
    PROVE  /\ KeysOf(work) \subseteq reg' \cup todo'
           /\ \A j \in reg' : refs'[j][tun] = link[work.iface]
<1>1. k \in Keys /\ tun \in Tunnels /\ reg \subseteq Keys /\ TypeOK
  BY DEF TypeInv, TypeOK
<1>2. refs'[k][tun] = link[work.iface] /\ \A j \in Keys : j # k => refs'[j] = refs[j]
  BY <1>1 DEF ClaimRoute, TypeOK
<1> QED
  BY <1>1, <1>2 DEF Claimed

(* Every step reaches the next one with the kernel ready for it. *)
LEMMA KernelStep ==
    ASSUME "save" \notin Faults, StageInv, [Next]_vars
    PROVE  KernelInv'
<1> USE DEF KernelInv, Claimed
<1>type. TypeInv /\ OpInv /\ KernelInv /\ TypeOK
  BY DEF StageInv, TypeInv
<1>away. ASSUME pc' \notin {"dev", "claim", "save"} PROVE KernelInv'
  BY <1>away
<1>1. CASE UNCHANGED vars
  BY ZenonT(30), <1>1, <1>type DEF vars, mem, kernel
<1>2. CASE LoadKey \/ CleanLookup \/ Recreate
  BY ZenonT(30), <1>2, <1>away DEF LoadKey, CleanLookup, Recreate, Goto, ReturnError, Return
<1>3. CASE CleanRelease \/ DownRelease \/ HotRelease
  BY ZenonT(30), <1>3, <1>away DEF CleanRelease, DownRelease, HotRelease, Goto
<1>4. CASE CleanDelete \/ Cleanup
  BY ZenonT(30), <1>4, <1>away DEF CleanDelete, Cleanup, Goto, ReturnError, Return
<1>5. CASE MakeLink
  <2>1. CASE pc' # "dev"
    BY ZenonT(30), <1>5, <1>away, <2>1 DEF MakeLink, Goto, ReturnError, Return
  <2>2. CASE pc' = "dev"
    <3>1. PICK i \in Idx : link' = [link EXCEPT ![work.iface] = i]
      BY ZenonT(30), <1>5, <2>2 DEF MakeLink, ReturnError, Return
    <3>2. work.iface \in Names /\ work' = work /\ NoIdx \notin Idx
      BY ZenonT(30), <1>5, <2>2, <1>type, IfaceType, ConstantsOK
         DEF MakeLink, Goto, ReturnError, Return, TypeInv, Busy
    <3> QED
      BY <1>type, <2>2, <3>1, <3>2 DEF TypeOK
  <2> QED
    BY <2>1, <2>2
<1>6. CASE SetUpDevice
  <2>1. CASE pc' # "claim"
    BY <1>6, <1>away, <2>1 DEF SetUpDevice, Goto
  <2>2. CASE pc' = "claim"
    BY ZenonT(30), <1>6, <1>type, <2>2 DEF SetUpDevice, Goto, kernel
  <2> QED
    BY ZenonT(30), <2>1, <2>2
<1>7. CASE Claim
  <2>0. pc = "claim" /\ UNCHANGED link /\ link[work.iface] # NoIdx
    BY <1>7, <1>type DEF Claim
  <2>1. CASE todo = {} /\ UpDone /\ UNCHANGED <<refs, route>>
    <3>1. CASE pc' # "save"
      BY ZenonT(30), <1>away, <2>1, <3>1 DEF UpDone, Goto, Return
    <3>2. CASE pc' = "save"
      <4>1. kind \in {"create", "enable", "update"} /\ UNCHANGED <<kind, tun, work>>
        BY <2>1, <3>2 DEF UpDone, Goto, Return
      <4> QED
        BY <1>type, <2>0, <2>1, <3>2, <4>1
    <3> QED
      BY ZenonT(30), <3>1, <3>2
  <2>2. ASSUME NEW k \in todo, ClaimRoute(k), todo' = todo \ {k}, reg' = reg \cup {k},
               Goto("claim")
        PROVE  KernelInv'
    <3>1. /\ KeysOf(work) \subseteq reg' \cup todo'
          /\ \A j \in reg' : refs'[j][tun] = link[work.iface]
      BY <1>type, <2>0, <2>2, ClaimExtends DEF Busy
    <3>2. pc' = "claim" /\ UNCHANGED <<tun, work, kind>>
      BY <2>2 DEF Goto
    <3> QED
      BY <2>0, <3>1, <3>2
  <2>3. CASE Goto("cleanup")
    BY ZenonT(30), <1>away, <2>3 DEF Goto
  <2> QED
    BY ZenonT(30), <1>7, <2>1, <2>2, <2>3 DEF Claim
<1>8. CASE DownLookup
  <2>1. CASE pc' # "save"
    BY ZenonT(30), <1>8, <1>type, <1>away, <2>1, DownDoneIs DEF DownLookup, Goto, OpInv, Lowering
  <2>2. CASE pc' = "save"
    <3>1. /\ link[work.iface] = NoIdx /\ UNCHANGED link
          /\ UNCHANGED <<tun, work, kind>> /\ kind \in {"delete", "disable"}
      BY ZenonT(30), <1>8, <1>type, <2>2, DownDoneIs DEF DownLookup, Goto, OpInv, Lowering, kernel
    <3> QED
      BY ZenonT(30), <2>2, <3>1
  <2> QED
    BY <2>1, <2>2
<1>9. CASE DownDelete
  <2>0. pc = "downDel" /\ kind \in {"delete", "disable", "update"}
    BY ZenonT(30), <1>9, <1>type DEF DownDelete, OpInv, Lowering
  <2>1. CASE pc' # "save"
    BY ZenonT(30), <1>9, <1>away, <2>0, <2>1, DownDoneIs DEF DownDelete, Goto, ReturnError, Return
  <2>2. CASE pc' = "save"
    <3>1. /\ DropLink(work.iface)
          /\ UNCHANGED <<tun, work, kind>> /\ kind \in {"delete", "disable"}
      BY <1>9, <2>0, <2>2, DownDoneIs DEF DownDelete, Goto, ReturnError, Return
    <3>2. work.iface \in Names
      BY <1>type, <2>0, IfaceType DEF TypeInv, Busy
    <3>3. link'[work.iface] = NoIdx
      BY <1>type, <3>1, <3>2 DEF DropLink, TypeOK
    <3> QED
      BY <2>2, <3>1, <3>3
  <2> QED
    BY <2>1, <2>2
<1>10. CASE HotPeer \/ HotClaim
  <2>1. pc' \notin {"dev", "claim"} /\ kind' = "update"
    BY ZenonT(30), <1>10, <1>type DEF HotPeer, HotClaim, Goto, OpInv
  <2> QED
    BY ZenonT(30), <2>1
<1>11. CASE SaveOK \/ DeleteKeyFiles \/ Crash \/ Sweep \/ RestoreNext
  <2>1. pc' \notin {"dev", "claim", "save"}
    BY ZenonT(30), <1>11 DEF SaveOK, DeleteKeyFiles, Crash, Sweep, RestoreNext, Goto, Return
  <2> QED
    BY ZenonT(30), <1>away, <2>1
<1>12. CASE SaveFails
  BY <1>12 DEF SaveFails, MayFail
<1>13. CASE Request
  <2>1. CASE \E t \in Tunnels : \/ EnableTunnel(t) \/ DisableTunnel(t)
                                \/ \E ips \in SUBSET CIDRs, metric \in Metrics :
                                     CreateTunnel(t, ips, metric)
    <3>1. pc' \notin {"dev", "claim", "save"}
      BY Zenon, <2>1 DEF EnableTunnel, DisableTunnel, CreateTunnel, Enter
    <3> QED
      BY <1>away, <3>1
  <2>2. ASSUME NEW t \in Tunnels, DeleteTunnel(t) PROVE KernelInv'
    BY ZenonT(30), <2>2 DEF DeleteTunnel, Enter
  <2>3. ASSUME NEW t \in Tunnels, NEW ips \in SUBSET CIDRs, NEW metric \in Metrics,
               NEW hard \in BOOLEAN, UpdateTunnel(t, ips, metric, hard)
        PROVE  KernelInv'
    <3>1. kind' = "update" /\ pc' \in {"save", "recreate", "hot"}
      BY <2>3 DEF UpdateTunnel, Enter
    <3> QED
      BY <3>1
  <2> HIDE DEF KernelInv
  <2> QED
    BY Zenon, <1>13, <2>1, <2>2, <2>3 DEF Request
<1> HIDE DEF KernelInv, Claimed
<1> QED
  BY ZenonT(60), <1>1, <1>2, <1>3, <1>4, <1>5, <1>6, <1>7, <1>8, <1>9, <1>10, <1>11, <1>12, <1>13
     DEF Next, Step

(* As long as saves succeed, tunnels.json says "enabled" only once the     *)
(* interface is there and owns its routes, and stops saying it only once   *)
(* the interface is gone: kernel first, then disk, whatever else fails and *)
(* whenever the process dies.                                              *)
THEOREM KernelBeforeDisk ==
    ASSUME "save" \notin Faults
    PROVE  Spec => DiskFollowsKernel
<1> DEFINE After == \A t \in Tunnels :
                      /\ ~IsOn(disk, t) /\ IsOn(disk', t) =>
                           /\ link[disk'[t].iface] # NoIdx
                           /\ \A k \in KeysOf(disk'[t]) : owns(k, t)
                      /\ IsOn(disk, t) /\ ~IsOn(disk', t) => link[disk[t].iface] = NoIdx
<1>1. Init => StageInv
  BY TypeInit DEF Init, StageInv, OpInv, KernelInv, Busy, Raising, Lowering
<1>2. StageInv /\ [Next]_vars => StageInv'
  BY ZenonT(30), TypeStep, OpStep, KernelStep DEF StageInv
<1>3. ASSUME StageInv, [Next]_vars PROVE [After]_vars
  <2>1. CASE UNCHANGED disk
    BY ZenonT(30), <2>1 DEF IsOn
  <2>2. CASE SaveOK
    <3>1. /\ pc = "save" /\ TypeInv /\ disk = config /\ disk' = Committed
          /\ kind \in {"create", "enable", "update", "delete", "disable"}
          /\ tun \in Tunnels /\ work \in Cfg
      BY <1>3, <2>2 DEF SaveOK, StageInv, OpInv, Busy, TypeInv
    <3>2. ASSUME NEW t \in Tunnels, t # tun PROVE disk'[t] = disk[t]
      BY ZenonT(30), <3>1, <3>2, CommittedIs
    <3>3. CASE kind \in {"create", "enable"}
      <4>1. /\ disk'[tun].iface = work.iface /\ KeysOf(disk'[tun]) = KeysOf(work)
            /\ ~IsOn(disk, tun)
        BY ZenonT(30), <1>3, <3>1, <3>3, CommittedIs DEF StageInv, OpInv, Busy, IsOn
      <4>2. link[work.iface] # NoIdx /\ \A k \in KeysOf(work) : owns(k, tun)
        BY ZenonT(30), <1>3, <3>1, <3>3 DEF StageInv, KernelInv, Claimed, owns
      <4> QED
        BY ZenonT(30), <3>2, <4>1, <4>2 DEF IsOn
    <3>4. CASE kind = "update"
      <4>1. disk'[tun] = work /\ work # NoCfg /\ disk[tun] # NoCfg
        BY <1>3, <3>1, <3>4, CommittedIs, ConstantsOK DEF StageInv, OpInv, Busy
      <4>2. disk[tun].enabled = work.enabled
        BY ZenonT(30), <1>3, <3>1, <3>4 DEF StageInv, OpInv, Busy
      <4> QED
        BY ZenonT(30), <3>2, <4>1, <4>2 DEF IsOn
    <3>5. CASE kind \in {"delete", "disable"}
      <4>1. ~IsOn(disk', tun)
        BY <3>1, <3>5, CommittedIs DEF IsOn
      <4>2. disk[tun] = work
        BY <1>3, <3>1, <3>5 DEF StageInv, OpInv, Busy
      <4>3. work.enabled => link[work.iface] = NoIdx
        BY ZenonT(30), <1>3, <3>1, <3>5 DEF StageInv, KernelInv
      <4> QED
        BY ZenonT(30), <3>2, <4>1, <4>2, <4>3 DEF IsOn
    <3> QED
      BY ZenonT(30), <3>1, <3>3, <3>4, <3>5
  <2>3. UNCHANGED disk \/ SaveOK
    BY ZenonT(60), <1>3 DEF Next, Step, Request, CreateTunnel, DeleteTunnel, EnableTunnel,
       DisableTunnel, UpdateTunnel, Enter, LoadKey, CleanLookup, CleanRelease, CleanDelete,
       MakeLink, SetUpDevice, Claim, Cleanup, DownLookup, DownRelease, DownDelete, HotPeer,
       HotRelease, HotClaim, Recreate, SaveFails, MayFail, DeleteKeyFiles, Crash, Sweep,
       RestoreNext, persistent, vars
  <2> QED
    BY ZenonT(30), <2>1, <2>2, <2>3
<1> QED
  BY <1>1, <1>2, <1>3, PTL DEF Spec, DiskFollowsKernel

-----------------------------------------------------------------------------
(***************************************************************************)
(* What is enabled is up.  Only a peer update may fail (it falls back to a *)
(* recreate); any other failure may leave an enabled tunnel down, which    *)
(* the operation then reports.                                             *)
(***************************************************************************)
Up(t) ==
    /\ link[config[t].iface] # NoIdx
    /\ \A k \in KeysOf(config[t]) : refs[k][t] = link[config[t].iface]

(* Enabled tunnels are up, but for the one worked on and those RestoreAll  *)
(* has still to reach.                                                     *)
OthersUp ==
    /\ ~Busy => tun = NoTun
    /\ \A t \in Tunnels : IsOn(config, t) /\ t # tun /\ t \notin pend /\ pc # "sweep" => Up(t)

(* A configured tunnel has its keys, so no operation stops for want of one. *)
KeysInv ==
    /\ \A t \in Tunnels : config[t] # NoCfg => t \in keys
    /\ Busy /\ kind = "create" => tun \in keys
    /\ Busy /\ kind = "restore" => config[tun] # NoCfg /\ work = config[tun]
    /\ pc = "rmkeys" => config[tun] = NoCfg
    /\ pc # "cleanup"

(* How far a hot update is. *)
HotInv ==
    /\ pc = "hot" => Up(tun) /\ config[tun].iface = work.iface
    /\ pc \in {"hotRel", "hotClaim"} => link[work.iface] # NoIdx
    /\ pc = "hotClaim" => KeysOf(work) \subseteq reg \cup todo /\ \A k \in reg : Claimed(k)
    /\ pc = "save" /\ kind = "update" /\ work.enabled =>
         link[work.iface] # NoIdx /\ \A k \in KeysOf(work) : Claimed(k)

UpInv == NamesInv /\ StageInv /\ OthersUp /\ KeysInv /\ HotInv

(* The list in memory changes only by a save, or when it is loaded again. *)
LEMMA ConfigFrame ==
    ASSUME "save" \notin Faults, [Next]_vars
    PROVE  UNCHANGED config \/ SaveOK \/ Crash
  BY ZenonT(60) DEF Next, Step, Request, CreateTunnel, DeleteTunnel, EnableTunnel,
     DisableTunnel, UpdateTunnel, Enter, LoadKey, CleanLookup, CleanRelease, CleanDelete,
     MakeLink, SetUpDevice, Claim, Cleanup, DownLookup, DownRelease, DownDelete, HotPeer,
     HotRelease, HotClaim, Recreate, SaveFails, MayFail, DeleteKeyFiles, Sweep,
     RestoreNext, mem, vars

(* A step of an operation leaves the other tunnels up. *)
LEMMA OthersStayUp ==
    ASSUME "save" \notin Faults, UpInv, Next, Busy, pc' # "sweep",
           NEW t \in Tunnels, t # tun, t \notin pend, IsOn(config', t)
    PROVE  Up(t)'
<1>1. TypeInv /\ TypeOK /\ pc # "sweep"
  BY ZenonT(30) DEF UpInv, NamesInv, TypeInv, Busy
<1>2. config'[t] = config[t]
  BY ZenonT(30), <1>1, ConfigFrame, CommittedIs DEF SaveOK, Crash
<1>3. IsOn(config, t) /\ config[t] \in Cfg
  BY ZenonT(30), <1>1, <1>2 DEF IsOn, TypeOK
<1>4. config[t].iface \in Names /\ config[t].iface # work.iface
  BY ZenonT(30), <1>3, IfaceType DEF UpInv, NamesInv, IsOn
<1>5. /\ link'[config[t].iface] = link[config[t].iface]
      /\ \A k \in Keys : refs'[k][t] = refs[k][t]
  BY <1>1, <1>4, Footprint
<1>6. Up(t)
  BY <1>1, <1>3 DEF UpInv, OthersUp
<1> QED
  BY ZenonT(30), <1>2, <1>3, <1>5, <1>6, KeysOfType DEF Up

(* Every step keeps the keys of the configured tunnels. *)
LEMMA KeysStep ==
    ASSUME Faults \subseteq {"peer"}, UpInv, [Next]_vars
    PROVE  KeysInv'
<1> USE DEF KeysInv, Busy
<1>type. TypeInv /\ OpInv /\ KeysInv
  BY DEF UpInv, StageInv
<1>no. /\ ~MayFail("save") /\ ~MayFail("link") /\ ~MayFail("dev") /\ ~MayFail("route")
       /\ ~MayFail("key")
  BY DEF MayFail
<1>1. CASE UNCHANGED vars
  BY ZenonT(30), <1>1, <1>type DEF vars, mem, persistent
<1>2. CASE LoadKey
  BY ZenonT(30), <1>2, <1>type, <1>no DEF LoadKey, Goto, ReturnError, Return, mem, OpInv
<1>3. CASE CleanLookup \/ SetUpDevice \/ HotPeer
  BY ZenonT(30), <1>3, <1>type, <1>no DEF CleanLookup, SetUpDevice, HotPeer, Goto, mem, persistent
<1>4. CASE CleanRelease \/ DownRelease \/ HotRelease
  BY ZenonT(30), <1>4, <1>type DEF CleanRelease, DownRelease, HotRelease, Goto, persistent
<1>5. CASE CleanDelete \/ MakeLink
  BY ZenonT(60), <1>5, <1>type, <1>no DEF CleanDelete, MakeLink, Goto, mem
<1>6. CASE Claim
  BY ZenonT(30), <1>6, <1>type, <1>no DEF Claim, ClaimFails, UpDone, Goto, Return
<1>7. CASE HotClaim
  BY ZenonT(30), <1>7, <1>type, <1>no DEF HotClaim, ClaimFails, Goto, persistent
<1>8. CASE DownLookup
  BY ZenonT(30), <1>8, <1>type, DownDoneIs DEF DownLookup, Goto, mem, OpInv, Lowering
<1>9. CASE DownDelete
  BY ZenonT(30), <1>9, <1>type, <1>no, DownDoneIs DEF DownDelete, Goto, mem, OpInv, Lowering
<1>10. CASE Recreate
  BY ZenonT(30), <1>10, <1>type, <1>no DEF Recreate, Goto, ReturnError, Return, mem, OpInv
<1>11. CASE SaveOK
  <2>1. pc = "save" /\ config' = Committed /\ keys' = keys /\ tun \in Tunnels
    BY ZenonT(30), <1>11, <1>type DEF SaveOK, TypeInv
  <2>2. \A t \in Tunnels \ {tun} : config'[t] = config[t]
    BY ZenonT(30), <1>type, <2>1, CommittedIs
  <2>3. tun \in keys
    BY ZenonT(30), <1>type, <2>1, ConstantsOK DEF OpInv, TypeInv
  <2>4. kind = "delete" => config'[tun] = NoCfg
    BY ZenonT(30), <1>type, <2>1, CommittedIs
  <2>5. \/ pc' = "rmkeys" /\ kind = "delete" /\ UNCHANGED <<tun, kind>>
        \/ pc' \in {"idle", "restore"}
    BY ZenonT(30), <1>11 DEF SaveOK, Goto, Return
  <2> QED
    BY ZenonT(30), <1>type, <2>1, <2>2, <2>3, <2>4, <2>5
<1>12. CASE DeleteKeyFiles
  BY ZenonT(30), <1>12, <1>type DEF DeleteKeyFiles, Return, mem
<1>13. CASE Crash
  BY ZenonT(30), <1>13, <1>type DEF Crash, persistent, OpInv
<1>14. CASE Sweep
  BY ZenonT(30), <1>14, <1>type DEF Sweep, mem, persistent
<1>15. CASE RestoreNext
  BY SMTT(60), <1>15, <1>type, ConstantsOK DEF RestoreNext, mem, persistent, TypeInv, TypeOK
<1>16. ASSUME NEW t \in Tunnels, NEW ips \in SUBSET CIDRs, NEW metric \in Metrics,
              CreateTunnel(t, ips, metric)
       PROVE  KeysInv'
  BY ZenonT(30), <1>16, <1>type DEF CreateTunnel, Enter, mem
<1>17. ASSUME NEW t \in Tunnels, DeleteTunnel(t) \/ EnableTunnel(t) \/ DisableTunnel(t)
       PROVE  KeysInv'
  BY <1>17, <1>type DEF DeleteTunnel, EnableTunnel, DisableTunnel, Enter, mem
<1>18. ASSUME NEW t \in Tunnels, NEW ips \in SUBSET CIDRs, NEW metric \in Metrics,
              NEW hard \in BOOLEAN, UpdateTunnel(t, ips, metric, hard)
       PROVE  KeysInv'
  BY ZenonT(30), <1>18, <1>type DEF UpdateTunnel, Enter, mem
<1>19. CASE SaveFails \/ Cleanup
  BY <1>19, <1>no, <1>type DEF SaveFails, Cleanup
<1> HIDE DEF KeysInv, Busy
<1> QED
  BY ZenonT(60), <1>1, <1>2, <1>3, <1>4, <1>5, <1>6, <1>7, <1>8, <1>9, <1>10, <1>11, <1>12, <1>13,
     <1>14, <1>15, <1>16, <1>17, <1>18, <1>19
     DEF Next, Request, Step

(* Every step keeps a hot update on its way. *)
LEMMA HotStep ==
    ASSUME Faults \subseteq {"peer"}, UpInv, [Next]_vars
    PROVE  HotInv'
<1> USE DEF HotInv
<1>type. TypeInv /\ TypeOK /\ OpInv /\ KernelInv /\ HotInv
  BY DEF UpInv, StageInv, TypeInv
<1>no. ~MayFail("route") /\ ~MayFail("save")
  BY ZenonT(30) DEF MayFail
<1>away. ASSUME pc' \notin {"hot", "hotRel", "hotClaim", "save"} PROVE HotInv'
  BY ZenonT(30), <1>away
<1>1. CASE UNCHANGED vars
  BY ZenonT(30), <1>1, <1>type DEF vars, mem, kernel, Up, Claimed
<1>2. CASE LoadKey \/ CleanLookup \/ Recreate \/ SetUpDevice
  BY ZenonT(30), <1>2, <1>away DEF LoadKey, CleanLookup, Recreate, SetUpDevice, Goto, ReturnError, Return
<1>3. CASE CleanRelease \/ DownRelease \/ CleanDelete \/ Cleanup \/ MakeLink
  BY ZenonT(60), <1>3, <1>away
     DEF CleanRelease, DownRelease, CleanDelete, Cleanup, MakeLink, Goto, ReturnError, Return
<1>4. CASE Claim
  <2>1. CASE pc' # "save"
    BY ZenonT(60), <1>4, <1>away, <2>1 DEF Claim, UpDone, Goto, Return
  <2>2. CASE pc' = "save"
    <3>1. todo = {} /\ UNCHANGED <<refs, link, tun, work, kind>> /\ pc = "claim"
      BY ZenonT(30), <1>4, <2>2 DEF Claim, UpDone, Goto, Return
    <3> QED
      BY <1>type, <2>2, <3>1 DEF KernelInv, Claimed
  <2> QED
    BY ZenonT(30), <2>1, <2>2
<1>5. CASE DownLookup \/ DownDelete
  <2>1. kind \in {"delete", "disable", "update"}
    BY ZenonT(30), <1>5, <1>type DEF DownLookup, DownDelete, OpInv, Lowering
  <2>2. \/ pc' \notin {"hot", "hotRel", "hotClaim", "save"}
        \/ pc' = "save" /\ kind' # "update"
    BY ZenonT(30), <1>5, <2>1, DownDoneIs DEF DownLookup, DownDelete, Goto, ReturnError, Return
  <2> QED
    BY ZenonT(30), <1>away, <2>2
<1>6. CASE HotPeer
  <2>1. /\ pc = "hot" /\ kind = "update" /\ UNCHANGED <<refs, link, config, tun, work, kind>>
        /\ \/ pc' = "save" /\ KeysOf(config[tun]) = KeysOf(work)
           \/ pc' = "hotRel"
           \/ pc' = "recreate"
    BY ZenonT(60), <1>6, <1>type DEF HotPeer, Goto, mem, kernel, OpInv
  <2> QED
    BY ZenonT(30), <1>type, <2>1 DEF Up, Claimed
<1>7. CASE HotRelease
  <2>1. /\ pc = "hotRel" /\ UNCHANGED <<link, work, tun>>
        /\ pc' = "hotRel" \/ (pc' = "hotClaim" /\ todo' = KeysOf(work) /\ reg' = {})
    BY <1>7 DEF HotRelease, Goto
  <2> QED
    BY <1>type, <2>1
<1>8. CASE HotClaim
  <2>0. pc = "hotClaim" /\ UNCHANGED <<link, work, tun>> /\ link[work.iface] # NoIdx
    BY ZenonT(30), <1>8, <1>type DEF HotClaim, Goto
  <2>1. CASE todo = {} /\ Goto("save") /\ UNCHANGED <<refs, route, todo, reg>>
    BY ZenonT(60), <1>type, <2>0, <2>1 DEF Goto, Claimed
  <2>2. ASSUME NEW k \in todo, ClaimRoute(k), todo' = todo \ {k}, reg' = reg \cup {k},
               Goto("hotClaim")
        PROVE  HotInv'
    <3>1. KeysOf(work) \subseteq reg' \cup todo' /\ \A j \in reg' : refs'[j][tun] = link[work.iface]
      BY ZenonT(30), <1>type, <2>0, <2>2, ClaimExtends DEF Busy
    <3> QED
      BY ZenonT(30), <2>0, <2>2, <3>1 DEF Goto, Claimed
  <2> QED
    BY ZenonT(60), <1>8, <1>no, <2>1, <2>2 DEF HotClaim, ClaimFails
<1>9. CASE SaveOK \/ SaveFails \/ DeleteKeyFiles \/ Crash \/ Sweep \/ RestoreNext
  <2>1. pc' \notin {"hot", "hotRel", "hotClaim", "save"}
    BY <1>9, <1>no DEF SaveOK, SaveFails, DeleteKeyFiles, Crash, Sweep, RestoreNext, Goto, Return
  <2> QED
    BY ZenonT(60), <1>away, <2>1
<1>10. CASE Request
  <2>1. CASE \E t \in Tunnels : \/ DeleteTunnel(t) \/ EnableTunnel(t) \/ DisableTunnel(t)
                                \/ \E ips \in SUBSET CIDRs, metric \in Metrics :
                                     CreateTunnel(t, ips, metric)
    <3>1. pc' \notin {"hot", "hotRel", "hotClaim"} /\ kind' # "update"
      BY Zenon, <2>1 DEF DeleteTunnel, EnableTunnel, DisableTunnel, CreateTunnel, Enter
    <3> QED
      BY <3>1
  <2>2. ASSUME NEW t \in Tunnels, NEW ips \in SUBSET CIDRs, NEW metric \in Metrics,
               NEW hard \in BOOLEAN, UpdateTunnel(t, ips, metric, hard)
        PROVE  HotInv'
    <3>1. /\ pc = "idle" /\ config[t] \in Cfg /\ tun' = t
          /\ UNCHANGED <<config, link, refs>>
          /\ work' = [config[t] EXCEPT !.ips = ips, !.metric = metric]
          /\ pc' = IF ~config[t].enabled THEN "save" ELSE IF hard THEN "recreate" ELSE "hot"
      BY <1>type, <2>2 DEF UpdateTunnel, Enter, mem, kernel, TypeOK
    <3>2. work'.iface = config[t].iface /\ work'.enabled = config[t].enabled
      BY <3>1 DEF Cfg
    <3>3. t # tun /\ pend = {}
      BY <1>type, <3>1, ConstantsOK DEF UpInv, OthersUp, Busy, TypeInv
    <3>4. IsOn(config, t) => Up(t)
      BY <3>1, <3>3 DEF UpInv, OthersUp
    <3>5. pc' = "hot" => Up(t)
      BY <3>1, <3>4, ConstantsOK DEF IsOn
    <3>6. pc' = "hot" => Up(tun)' /\ config'[tun'].iface = work'.iface
      BY <3>1, <3>2, <3>5 DEF Up
    <3>7. pc' = "save" => ~work'.enabled
      BY <3>1, <3>2
    <3> QED
      BY <3>1, <3>6, <3>7
  <2> HIDE DEF HotInv
  <2> QED
    BY ZenonT(60), <1>10, <2>1, <2>2 DEF Request
<1> HIDE DEF HotInv
<1> QED
  BY ZenonT(60), <1>1, <1>2, <1>3, <1>4, <1>5, <1>6, <1>7, <1>8, <1>9, <1>10 DEF Next, Step

(* An operation that returns leaves its own tunnel up, if it is enabled. *)
LEMMA ReturnsUp ==
    ASSUME Faults \subseteq {"peer"}, UpInv, Step, Busy,
           NEW t \in Tunnels, t = tun, tun' # tun, IsOn(config', t)
    PROVE  Up(t)'
<1>type. TypeInv /\ TypeOK /\ OpInv /\ KernelInv /\ HotInv /\ KeysInv
  BY DEF UpInv, StageInv, TypeInv
<1>no. /\ ~MayFail("save") /\ ~MayFail("link") /\ ~MayFail("dev") /\ ~MayFail("route")
       /\ ~MayFail("key")
  BY DEF MayFail
<1>1. CASE LoadKey \/ Recreate
  <2>1. tun \in keys
    BY ZenonT(30), <1>1, <1>type DEF LoadKey, Recreate, OpInv, KeysInv, Busy, Raising
  <2> QED
    BY ZenonT(30), <1>1, <1>no, <2>1 DEF LoadKey, Recreate, Goto
<1>2. CASE CleanLookup \/ CleanRelease \/ CleanDelete \/ MakeLink \/ SetUpDevice
  BY ZenonT(30), <1>2, <1>no DEF CleanLookup, CleanRelease, CleanDelete, MakeLink, SetUpDevice, Goto
<1>3. CASE Claim
  <2>1. /\ pc = "claim" /\ todo = {} /\ UNCHANGED <<refs, link, config>>
        /\ kind \notin {"create", "enable", "update"}
    BY ZenonT(30), <1>3, <1>no DEF Claim, UpDone, ClaimFails, Goto
  <2>2. config[t] = work
    BY ZenonT(30), <1>type, <2>1 DEF OpInv, KeysInv, Busy, Raising
  <2> QED
    BY <1>type, <2>1, <2>2 DEF KernelInv, Claimed, Up
<1>4. CASE DownLookup \/ DownRelease \/ DownDelete
  <2>1. kind \in {"delete", "disable", "update"}
    BY ZenonT(60), <1>4, <1>type DEF DownLookup, DownRelease, DownDelete, OpInv, Lowering
  <2> QED
    BY ZenonT(30), <1>4, <1>no, <2>1, DownDoneIs DEF DownLookup, DownRelease, DownDelete, Goto
<1>5. CASE HotPeer \/ HotRelease \/ HotClaim
  BY ZenonT(60), <1>5 DEF HotPeer, HotRelease, HotClaim, Goto
<1>6. CASE SaveOK
  <2>1. /\ pc = "save" /\ config' = Committed /\ UNCHANGED <<refs, link>>
        /\ kind \in {"create", "enable", "update", "disable"}
    BY ZenonT(30), <1>6, <1>type DEF SaveOK, Goto, kernel, OpInv, Busy, TypeInv
  <2>2. /\ kind # "disable" /\ config'[t].iface = work.iface
        /\ KeysOf(config'[t]) = KeysOf(work)
        /\ kind = "update" => work.enabled
    BY ZenonT(60), <1>type, <2>1, CommittedIs DEF IsOn
  <2>3. link[work.iface] # NoIdx /\ \A k \in KeysOf(work) : Claimed(k)
    BY <1>type, <2>1, <2>2 DEF KernelInv, HotInv
  <2> QED
    BY ZenonT(60), <2>1, <2>2, <2>3 DEF Up, Claimed
<1>7. CASE DeleteKeyFiles
  BY ZenonT(30), <1>7, <1>type DEF DeleteKeyFiles, KeysInv, IsOn, mem
<1>8. CASE Cleanup \/ SaveFails \/ Sweep \/ RestoreNext
  BY ZenonT(60), <1>8, <1>type, <1>no DEF Cleanup, SaveFails, Sweep, RestoreNext, KeysInv, Busy
<1> QED
  BY Zenon, <1>1, <1>2, <1>3, <1>4, <1>5, <1>6, <1>7, <1>8 DEF Step

(* The step of an operation keeps its tunnel or returns. *)
LEMMA BusyFrame ==
    ASSUME Next, Busy, pc' # "sweep"
    PROVE  /\ Step /\ UNCHANGED pend /\ tun' \in {tun, NoTun}
           /\ pc' \in {"idle", "restore"} => tun' = NoTun
<1> DEFINE Frame == /\ UNCHANGED pend /\ tun' \in {tun, NoTun}
                    /\ pc' \in {"idle", "restore"} => tun' = NoTun
<1>0. Step /\ ~Sweep /\ ~RestoreNext
  BY ZenonT(60) DEF Next, Busy, Request, CreateTunnel, DeleteTunnel, EnableTunnel, DisableTunnel,
     UpdateTunnel, Crash, Sweep, RestoreNext
<1>1. ASSUME LoadKey \/ CleanLookup \/ CleanRelease \/ CleanDelete \/ MakeLink \/ SetUpDevice PROVE Frame
  BY <1>1 DEF LoadKey, CleanLookup, CleanRelease, CleanDelete, MakeLink, SetUpDevice,
     Goto, ReturnError, Return
<1>2. ASSUME Claim \/ Cleanup PROVE Frame
  BY <1>2 DEF Claim, Cleanup, UpDone, Goto, ReturnError, Return
<1>3. ASSUME DownLookup \/ DownRelease \/ DownDelete PROVE Frame
  BY ZenonT(60), <1>3 DEF DownLookup, DownRelease, DownDelete, DownDone, Goto, ReturnError, Return
<1>4. ASSUME HotPeer \/ HotRelease \/ HotClaim \/ Recreate PROVE Frame
  BY ZenonT(30), <1>4 DEF HotPeer, HotRelease, HotClaim, Recreate, Goto, ReturnError, Return
<1>5. ASSUME SaveOK \/ SaveFails \/ DeleteKeyFiles PROVE Frame
  BY <1>5 DEF SaveOK, SaveFails, DeleteKeyFiles, Goto, Return
<1> HIDE DEF Frame
<1>6. Frame
  BY Zenon, <1>0, <1>1, <1>2, <1>3, <1>4, <1>5 DEF Step
<1> QED
  BY <1>0, <1>6 DEF Frame

(* Every step leaves the enabled tunnels up, but for the one worked on. *)
LEMMA OthersStep ==
    ASSUME Faults \subseteq {"peer"}, UpInv, [Next]_vars
    PROVE  OthersUp'
<1>type. TypeInv /\ OthersUp /\ "save" \notin Faults /\ NoTun \notin Tunnels
  BY ZenonT(30), ConstantsOK DEF UpInv, NamesInv
<1>1. CASE UNCHANGED vars
  BY <1>1, <1>type DEF vars, mem, kernel, OthersUp, Up, IsOn, Busy
<1>2. CASE Next /\ pc' = "sweep"
  <2>1. tun' = NoTun
    BY ZenonT(60), <1>2 DEF Next, Step, Sweep, Request, CreateTunnel, DeleteTunnel, EnableTunnel,
       DisableTunnel, UpdateTunnel, Enter, LoadKey, CleanLookup, CleanRelease, CleanDelete,
       MakeLink, SetUpDevice, Claim, UpDone, Cleanup, DownLookup, DownRelease, DownDelete,
       DownDone, HotPeer, HotRelease, HotClaim, Recreate, SaveOK, SaveFails, DeleteKeyFiles,
       RestoreNext, Crash, Goto, Return, ReturnError
  <2> QED
    BY ZenonT(30), <1>2, <2>1 DEF OthersUp
<1>3. CASE Next /\ pc' # "sweep" /\ Busy
  <2>1. /\ Step /\ UNCHANGED pend /\ tun' \in {tun, NoTun}
        /\ pc' \in {"idle", "restore"} => tun' = NoTun
    BY <1>3, BusyFrame
  <2>2. ASSUME NEW t \in Tunnels, IsOn(config', t), t # tun', t \notin pend' PROVE Up(t)'
    <3>1. CASE t = tun
      BY <1>3, <2>1, <2>2, <3>1, ReturnsUp
    <3>2. CASE t # tun
      BY <1>3, <1>type, <2>1, <2>2, <3>2, OthersStayUp
    <3> QED
      BY <3>1, <3>2
  <2> QED
    BY <1>3, <2>1, <2>2 DEF OthersUp, Busy
<1>4. CASE Next /\ pc' # "sweep" /\ ~Busy
  <2>0. tun = NoTun /\ (Request \/ Sweep \/ RestoreNext)
    BY ZenonT(60), <1>4, <1>type DEF OthersUp, Busy, Next, Step, Crash, LoadKey, CleanLookup,
       CleanRelease, CleanDelete, MakeLink, SetUpDevice, Claim, Cleanup, DownLookup,
       DownRelease, DownDelete, HotPeer, HotRelease, HotClaim, Recreate, SaveOK, SaveFails,
       DeleteKeyFiles
  <2>1. CASE Request
    <3>1. UNCHANGED <<config, link, refs, pend>> /\ pc = "idle" /\ Busy'
      BY ZenonT(60), <2>1 DEF Request, CreateTunnel, DeleteTunnel, EnableTunnel, DisableTunnel,
         UpdateTunnel, Enter, mem, kernel, Busy
    <3>2. \A t \in Tunnels : IsOn(config, t) /\ t \notin pend => Up(t)
      BY <1>type, <2>0, <3>1 DEF OthersUp
    <3> QED
      BY <3>1, <3>2 DEF OthersUp, Up, IsOn
  <2>2. CASE Sweep
    BY <2>0, <2>2 DEF Sweep, OthersUp, IsOn, Configured, mem, Busy
  <2>3. CASE RestoreNext
    <3>1. UNCHANGED <<config, link, refs>> /\ pc = "restore"
      BY <2>3 DEF RestoreNext, mem, kernel
    <3>2. \A t \in Tunnels : IsOn(config, t) /\ t \notin pend => Up(t)
      BY <1>type, <2>0, <3>1 DEF OthersUp
    <3>3. /\ \A t \in Tunnels : t # tun' /\ t \notin pend' => t \notin pend
          /\ ~Busy' => tun' = NoTun
      BY <2>0, <2>3 DEF RestoreNext, Busy
    <3> QED
      BY <3>1, <3>2, <3>3 DEF OthersUp, Up, IsOn
  <2> QED
    BY ZenonT(30), <2>0, <2>1, <2>2, <2>3
<1> QED
  BY ZenonT(30), <1>1, <1>2, <1>3, <1>4

(* When at most peer updates fail, between operations every enabled tunnel *)
(* has its interface and owns each of its routes through it, also after    *)
(* RestoreAll has run over what any crash left: RestoreAll reaches every   *)
(* enabled tunnel and a hot update falls back to a full recreate.          *)
THEOREM EnabledTunnelsAreUp ==
    ASSUME Faults \subseteq {"peer"}
    PROVE  Spec => []EnabledIsUp
<1>1. Init => UpInv
  BY TypeInit, NamesInit, ConstantsOK
     DEF Init, UpInv, StageInv, OpInv, KernelInv, OthersUp, KeysInv, HotInv, Busy, Raising,
         Lowering, IsOn
<1>2. ASSUME UpInv, [Next]_vars PROVE UpInv'
  <2>1. "save" \notin Faults
    OBVIOUS
  <2>2. NamesInv' /\ StageInv'
    BY <1>2, <2>1, NamesStep, TypeStep, OpStep, KernelStep DEF UpInv, StageInv
  <2> QED
    BY <1>2, <2>2, OthersStep, KeysStep, HotStep DEF UpInv
<1>3. UpInv => EnabledIsUp
  <2> SUFFICES ASSUME UpInv, pc = "idle", NEW t \in Configured(config), config[t].enabled
               PROVE  Up(t)
    BY ZenonT(60) DEF EnabledIsUp, Up
  <2>1. t \in Tunnels /\ IsOn(config, t)
    BY ZenonT(30) DEF Configured, IsOn
  <2>2. t # tun /\ pend = {}
    BY <2>1, ConstantsOK DEF UpInv, NamesInv, OthersUp, Busy, TypeInv
  <2> QED
    BY ZenonT(30), <2>1, <2>2 DEF UpInv, OthersUp
<1> QED
  BY <1>1, <1>2, <1>3, PTL DEF Spec

-----------------------------------------------------------------------------
(* Between operations, traffic for a network an enabled tunnel has claimed *)
(* leaves through the live interface of an enabled tunnel that carries it: *)
(* the owner the kernel's route leads to is settled, so what it owns is    *)
(* what its configuration names.                                           *)
THEOREM NoRouteIsBlackholed ==
    ASSUME "save" \notin Faults, "peer" \notin Faults, "route" \notin Faults,
           ~Combined, ~CanCrash
    PROVE  Spec => []NoBlackhole
<1>1. RoutesInv /\ [Next]_vars => RoutesInv'
  BY ZenonT(60), RoutesStep
<1>2. RoutesInv => NoBlackhole
  <2> SUFFICES ASSUME RoutesInv, pc = "idle", NEW t \in Tunnels, IsOn(config, t),
                      NEW k \in KeysOf(config[t]), owns(k, t)
               PROVE  \E u \in Tunnels :
                        /\ IsOn(config, u) /\ k \in KeysOf(config[u])
                        /\ route[k] = link[config[u].iface] /\ route[k] # NoIdx
    BY ZenonT(30) DEF NoBlackhole
  <2>1. OwnersInv /\ ~Busy /\ k \in Keys
    BY ZenonT(30), KeysOfType DEF RoutesInv, OwnersInv, TypeInv, TypeOK, Busy, IsOn
  <2>2. PICK u \in Tunnels : owns(k, u) /\ route[k] = refs[k][u]
    BY ZenonT(60), <2>1 DEF RoutesInv, RouteInv
  <2>3. Settled(u)
    BY <2>1, SettledIdle
  <2> QED
    BY ZenonT(30), <2>1, <2>2, <2>3 DEF Settled, owns
<1> QED
  BY RoutesInit, <1>1, <1>2, PTL DEF Spec


=============================================================================
