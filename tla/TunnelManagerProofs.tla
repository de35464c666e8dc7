------------------------- MODULE TunnelManagerProofs -------------------------
(***************************************************************************)
(* Proofs about TunnelManager, for any tunnels, networks, metrics, names   *)
(* and indices.                                                            *)
(***************************************************************************)
EXTENDS TunnelManager, TLAPS

Busy == pc \notin {"idle", "sweep", "restore"}

(* TypeOK strengthened by what a running operation has at hand. *)
TypeInv ==
    /\ TypeOK
    /\ Busy => tun \in Tunnels /\ work \in Cfg
    /\ pc = "hot" => config[tun] \in Cfg
    /\ ~Busy => kind = "none"
    /\ pc \in {"hot", "hotRel", "hotClaim", "recreate", "save", "rmkeys"} => kind # "restore"
    /\ pend # {} => pc = "restore" \/ kind = "restore"
    /\ \A t \in pend : config[t] \in Cfg

-----------------------------------------------------------------------------
(* The inductive invariant behind OwnersLive. *)

(* Which operations a step belongs to. *)
KindInv ==
    /\ ~Busy => tun = NoTun
    /\ Busy => kind \in {"create", "delete", "enable", "disable", "update", "restore"}
    /\ pc \in {"key", "clean", "cleanRel", "cleanDel", "mk", "dev", "claim", "cleanup"} =>
         kind \in {"create", "enable", "update", "restore"}
    /\ pc \in {"down", "downRel", "downDel"} => kind \in {"delete", "disable", "update"}
    /\ pc \in {"hot", "hotRel", "hotClaim", "recreate"} => kind = "update"
    /\ pc = "save" => kind \in {"create", "delete", "enable", "disable", "update"}
    /\ pc = "rmkeys" => kind = "delete"
    /\ Busy /\ kind = "create" => work.enabled
    /\ Busy /\ kind = "update" /\ pc # "save" => work.enabled
    /\ Busy /\ kind = "restore" => IsOn(config, tun) /\ work = config[tun]

(* Interface names separate the tunnels, the one being worked on included. *)
NameInv ==
    /\ disk = config
    /\ \A t, u \in Tunnels :
         t # u /\ config[t] # NoCfg /\ config[u] # NoCfg => config[t].iface # config[u].iface
    /\ Busy => \A u \in Tunnels \ {tun} : config[u] # NoCfg => config[u].iface # work.iface
    /\ Busy /\ config[tun] # NoCfg => config[tun].iface = work.iface

(* A tunnel nothing works on owns routes only as its configuration says,   *)
(* through its own interface.                                              *)
Settled(t) ==
    \A k \in Keys : owns(k, t) =>
      /\ IsOn(config, t)
      /\ k \in KeysOf(config[t])
      /\ refs[k][t] = link[config[t].iface]

(* What the tunnel being worked on may own at each step. *)
MayOwn(k) ==
    /\ pc \in {"hot", "recreate", "down", "downRel", "claim", "hotRel", "hotClaim", "save"}
    /\ refs[k][tun] = link[work.iface]
    /\ pc \in {"hot", "recreate"} => IsOn(config, tun) /\ k \in KeysOf(config[tun])
    /\ pc \in {"recreate", "down"} => k \in KeysOf(work)
    /\ pc \in {"downRel", "hotRel"} => k \in todo
    /\ pc \in {"claim", "hotClaim"} => k \in reg
    /\ pc = "save" =>
         /\ k \in KeysOf(work)
         /\ kind \in {"create", "enable", "update"}
         /\ kind # "enable" => work.enabled

OwnInv ==
    /\ \A t \in Tunnels : t # tun => Settled(t)
    /\ Busy => \A k \in Keys : owns(k, tun) => MayOwn(k)
    /\ pc \in {"claim", "hotClaim"} => reg \cup todo \subseteq KeysOf(work)

(* Tunnels RestoreAll has still to reach own nothing yet. *)
RestoreInv ==
    /\ pc = "sweep" => \A k \in Keys, t \in Tunnels : ~owns(k, t)
    /\ tun \notin pend
    /\ \A t \in pend : IsOn(config, t) /\ \A k \in Keys : ~owns(k, t)

OwnersInv == TypeInv /\ KindInv /\ NameInv /\ OwnInv /\ RestoreInv

-----------------------------------------------------------------------------
(* The inductive invariant behind RouteFollowsOwners. *)

LinkInv == \A m, n \in Names : link[m] = link[n] /\ link[m] # NoIdx => m = n

(* Neither an owned route without a kernel route nor the reverse. *)
RouteInv ==
    \A k \in Keys :
      \/ route[k] = NoIdx /\ \A t \in Tunnels : ~owns(k, t)
      \/ \E t \in Tunnels : owns(k, t) /\ route[k] = refs[k][t]

(* Without a crash RestoreAll never runs. *)
NoRestart == pc \notin {"sweep", "restore"} /\ kind # "restore"

LinkUp == pc \in {"dev", "claim", "hotRel", "hotClaim"} => link[work.iface] # NoIdx

RoutesInv ==
    /\ OwnersInv
    /\ NoRestart
    /\ LinkUp
    /\ LinkInv
    /\ RouteInv

-----------------------------------------------------------------------------
(* Types. *)

(* The routes of a configuration are routes. *)
LEMMA KeysOfType == ASSUME NEW c \in Cfg PROVE KeysOf(c) \subseteq Keys
  BY DEF KeysOf, Keys, Cfg

(* A configuration names an interface. *)
LEMMA IfaceType == ASSUME NEW c \in Cfg PROVE c.iface \in Names
  BY DEF Cfg

(* The manager starts well typed. *)
LEMMA TypeInit == Init => TypeInv
  BY ConstantsOK DEF Init, TypeInv, TypeOK, Busy, Steps, Kinds

(* Releasing a route keeps the two tables well typed. *)
LEMMA ReleaseType ==
    ASSUME TypeOK, NEW k \in Keys, ReleaseRoute(k)
    PROVE  /\ refs' \in [Keys -> [Tunnels -> Idx \cup {NoIdx}]]
           /\ route' \in [Keys -> Idx \cup {NoIdx}]
<1>1. \A u \in OtherOwners(k) : refs[k][u] \in Idx \cup {NoIdx}
  BY DEF OtherOwners, TypeOK
<1>2. \A i \in Idx \cup {NoIdx} : RouteVia(k, i) \in [Keys -> Idx \cup {NoIdx}]
  BY DEF RouteVia, TypeOK
<1> QED
  BY ZenonT(60), <1>1, <1>2 DEF ReleaseRoute, TypeOK

(* Every step keeps the variables well typed. *)
LEMMA TypeStep == TypeInv /\ [Next]_vars => TypeInv'
<1> SUFFICES ASSUME TypeInv, [Next]_vars PROVE TypeInv'
  OBVIOUS
<1> USE DEF TypeInv, TypeOK, Busy, Steps, Kinds
<1>1. CASE UNCHANGED vars
  BY <1>1 DEF vars, mem, persistent, kernel
<1>2. CASE LoadKey
  BY <1>2 DEF LoadKey, Goto, ReturnError, Return, mem, kernel
<1>3. CASE CleanLookup
  BY <1>3, KeysOfType DEF CleanLookup, Goto, mem, persistent, kernel
<1>4. CASE CleanRelease
  BY <1>4, ReleaseType DEF CleanRelease, Goto, persistent
<1>5. CASE CleanDelete
  BY <1>5 DEF CleanDelete, DropLink, Goto, ReturnError, Return, mem, kernel
<1>6. CASE MakeLink
  BY <1>6 DEF MakeLink, Goto, ReturnError, Return, mem
<1>7. CASE SetUpDevice
  BY <1>7, KeysOfType DEF SetUpDevice, Goto, mem, persistent, kernel
<1>8. CASE Claim
  BY SMTT(60), <1>8, IfaceType DEF Claim, ClaimRoute, ClaimFails, UpDone, Return, RouteVia, Goto
<1>9. CASE Cleanup
  BY <1>9 DEF Cleanup, DropLink, ReturnError, Return, mem, kernel
<1>10. CASE DownLookup
  BY <1>10, KeysOfType DEF DownLookup, DownDone, ReturnError, Return, Goto, mem, kernel
<1>11. CASE DownRelease
  BY <1>11, ReleaseType DEF DownRelease, Goto, persistent
<1>12. CASE DownDelete
  BY <1>12 DEF DownDelete, DropLink, DownDone, ReturnError, Return, Goto, mem, kernel
<1>13. ASSUME NEW t \in Tunnels, NEW ips \in SUBSET CIDRs, NEW metric \in Metrics,
              CreateTunnel(t, ips, metric)
       PROVE  TypeInv'
  BY <1>13 DEF CreateTunnel, Enter, Cfg, mem, kernel
<1>14. ASSUME NEW t \in Tunnels, DeleteTunnel(t) PROVE TypeInv'
  BY <1>14 DEF DeleteTunnel, Enter, mem, kernel
<1>15. ASSUME NEW t \in Tunnels, EnableTunnel(t) PROVE TypeInv'
  BY <1>15 DEF EnableTunnel, Enter, mem, kernel
<1>16. ASSUME NEW t \in Tunnels, DisableTunnel(t) PROVE TypeInv'
  BY <1>16 DEF DisableTunnel, Enter, mem, kernel
<1>17. ASSUME NEW t \in Tunnels, NEW ips \in SUBSET CIDRs, NEW metric \in Metrics,
              NEW hard \in BOOLEAN, UpdateTunnel(t, ips, metric, hard)
       PROVE  TypeInv'
  <2>1. config[t] \in Cfg
    BY <1>17 DEF UpdateTunnel
  <2>2. [config[t] EXCEPT !.ips = ips, !.metric = metric] \in Cfg
    BY ZenonT(60), <2>1 DEF Cfg
  <2> QED
    BY <1>17, <2>1, <2>2 DEF UpdateTunnel, Enter, mem, kernel
<1>18. CASE HotPeer
  BY <1>18, KeysOfType DEF HotPeer, Goto, mem, persistent, kernel
<1>19. CASE HotRelease
  BY <1>19, KeysOfType, ReleaseType DEF HotRelease, Goto, persistent
<1>20. CASE HotClaim
  BY <1>20, IfaceType DEF HotClaim, ClaimRoute, ClaimFails, RouteVia, Goto, persistent
<1>21. CASE Recreate
  BY <1>21 DEF Recreate, Goto, ReturnError, Return, mem, kernel
<1>22. pc = "save" => Committed \in [Tunnels -> Cfg \cup {NoCfg}]
  BY ZenonT(60) DEF Committed, Cfg
<1>23. CASE SaveOK
  BY <1>22, <1>23 DEF SaveOK, Goto, Return, kernel
<1>24. CASE SaveFails
  BY <1>22, <1>24 DEF SaveFails, Return, kernel
<1>25. CASE DeleteKeyFiles
  BY <1>25 DEF DeleteKeyFiles, Return, mem, kernel
<1>26. CASE Crash
  BY <1>26 DEF Crash, persistent, kernel
<1>27. CASE Sweep
  BY <1>27 DEF Sweep, Configured, mem, persistent
<1>28. CASE RestoreNext
  BY <1>28 DEF RestoreNext, mem, persistent, kernel
<1> QED
  BY ZenonT(60), <1>1, <1>2, <1>3, <1>4, <1>5, <1>6, <1>7, <1>8, <1>9, <1>10, <1>11, <1>12, <1>13,
     <1>14, <1>15, <1>16, <1>17, <1>18, <1>19, <1>20, <1>21, <1>23, <1>24, <1>25, <1>26,
     <1>27, <1>28
     DEF Next, Request, Step

(* In every behaviour, whatever fails and whenever the process dies, each  *)
(* variable of the tunnel manager keeps its type.                          *)
THEOREM TypeCorrect == Spec => []TypeOK
<1>1. TypeInv => TypeOK
  BY DEF TypeInv
<1> QED
  BY TypeInit, TypeStep, <1>1, PTL DEF Spec

-----------------------------------------------------------------------------
(* Owners are live. *)

(* Initially nothing is owned. *)
LEMMA OwnersInit == Init => OwnersInv
  BY TypeInit, ConstantsOK DEF Init, OwnersInv, TypeInv, TypeOK, KindInv, NameInv, OwnInv,
     RestoreInv, Settled, owns, Busy

(* What a step on another tunnel leaves alone keeps a tunnel settled. *)
LEMMA SettledFrame ==
    ASSUME NEW t \in Tunnels, Settled(t),
           config'[t] = config[t],
           \A k \in Keys : refs'[k][t] = refs[k][t],
           IsOn(config, t) => link'[config[t].iface] = link[config[t].iface]
    PROVE  Settled(t)'
  BY DEF Settled, IsOn, owns

(* What an operation leaves alone keeps every other tunnel settled. *)
LEMMA OthersSettled ==
    ASSUME OwnersInv, Busy, NEW t \in Tunnels, t # tun,
           config'[t] = config[t], \A k \in Keys : refs'[k][t] = refs[k][t],
           \A n \in Names \ {work.iface} : link'[n] = link[n]
    PROVE  Settled(t)'
<1>1. Settled(t)
  BY DEF OwnersInv, OwnInv
<1>2. IsOn(config, t) => link'[config[t].iface] = link[config[t].iface]
  BY IfaceType DEF OwnersInv, TypeInv, TypeOK, NameInv, IsOn
<1> QED
  BY <1>1, <1>2, SettledFrame

(* Between operations every tunnel is settled. *)
LEMMA SettledIdle ==
    ASSUME OwnersInv, ~Busy, NEW t \in Tunnels
    PROVE  Settled(t)
  BY ConstantsOK DEF OwnersInv, KindInv, OwnInv

(* An operation may start when it is handed a tunnel and a configuration   *)
(* with that tunnel's interface name, and a first step that may own what   *)
(* the tunnel owns.                                                        *)
LEMMA EnterStep ==
    ASSUME OwnersInv, TypeInv', KindInv', pc = "idle",
           NEW t \in Tunnels, NEW kd, NEW c, NEW st,
           Enter(kd, t, c, st),
           st \notin {"idle", "sweep", "restore", "claim", "hotClaim"},
           \A u \in Tunnels \ {t} : config[u] # NoCfg => config[u].iface # c.iface,
           config[t] # NoCfg => config[t].iface = c.iface,
           \A k \in Keys : owns(k, t) => MayOwn(k)'
    PROVE  OwnersInv'
<1>1. pend = {} /\ \A u \in Tunnels : Settled(u)
  BY SettledIdle DEF OwnersInv, TypeInv, Busy
<1>2. /\ UNCHANGED <<config, refs, disk, link, pend>>
      /\ tun' = t /\ work' = c /\ pc' = st
  BY DEF Enter, mem, kernel
<1>3. NameInv'
  BY <1>2 DEF OwnersInv, NameInv
<1>4. OwnInv'
  BY <1>1, <1>2 DEF OwnInv, Settled, IsOn, owns
<1>5. RestoreInv'
  BY ZenonT(30), <1>1, <1>2 DEF RestoreInv
<1> QED
  BY <1>3, <1>4, <1>5 DEF OwnersInv

(* Every step keeps the owners where the running operation may have them. *)
LEMMA OwnersStep ==
    ASSUME "save" \notin Faults, "peer" \notin Faults, ~Combined,
           OwnersInv, [Next]_vars
    PROVE  OwnersInv'
<1> USE DEF OwnersInv
<1>type. TypeInv /\ TypeInv'
  BY TypeStep
<1>no. NoTun \notin Tunnels
  BY ZenonT(30), ConstantsOK
<1> USE DEF Busy
<1>stutter. CASE UNCHANGED vars
  BY <1>stutter
     DEF vars, mem, persistent, kernel, TypeInv, TypeOK, KindInv, NameInv, OwnInv,
         MayOwn, Settled, RestoreInv, IsOn, owns
<1>LoadKey. CASE LoadKey
  <2>1. KindInv'
    BY <1>LoadKey, <1>type
       DEF TypeInv, TypeOK, KindInv, IsOn, LoadKey, Goto, ReturnError, Return, mem,
           kernel
  <2>2. NameInv'
    BY ZenonT(30), <1>LoadKey, <1>type
       DEF TypeInv, TypeOK, NameInv, LoadKey, Goto, ReturnError, Return, mem, kernel
  <2>3. OwnInv'
    BY ZenonT(30), <1>LoadKey, <1>type
       DEF TypeInv, TypeOK, KindInv, NameInv, OwnInv, MayOwn, Settled, IsOn, owns,
           LoadKey, Goto, ReturnError, Return, mem, kernel
  <2>4. RestoreInv'
    BY ZenonT(30), <1>LoadKey, <1>type, <1>no
       DEF TypeInv, TypeOK, RestoreInv, IsOn, owns, LoadKey, Goto, ReturnError,
           Return, mem, kernel
  <2> QED
    BY ZenonT(30), <1>type, <2>1, <2>2, <2>3, <2>4
<1>CleanLookup. CASE CleanLookup
  <2>1. KindInv'
    BY ZenonT(30), <1>CleanLookup, <1>type
       DEF TypeInv, TypeOK, KindInv, IsOn, CleanLookup, Goto, mem, persistent,
           kernel
  <2>2. NameInv'
    BY ZenonT(30), <1>CleanLookup, <1>type
       DEF TypeInv, TypeOK, NameInv, CleanLookup, Goto, mem, persistent, kernel
  <2>3. OwnInv'
    BY <1>CleanLookup, <1>type
       DEF TypeInv, TypeOK, KindInv, NameInv, OwnInv, MayOwn, Settled, IsOn, owns,
           CleanLookup, Goto, mem, persistent, kernel
  <2>4. RestoreInv'
    BY ZenonT(30), <1>CleanLookup, <1>type, <1>no
       DEF TypeInv, TypeOK, RestoreInv, IsOn, owns, CleanLookup, Goto, mem,
           persistent, kernel
  <2> QED
    BY <1>type, <2>1, <2>2, <2>3, <2>4
<1>CleanRelease. CASE CleanRelease
  <2>1. KindInv'
    BY ZenonT(30), <1>CleanRelease, <1>type
       DEF TypeInv, TypeOK, KindInv, IsOn, CleanRelease, ReleaseRoute, Goto,
           persistent
  <2>2. NameInv'
    BY ZenonT(30), <1>CleanRelease, <1>type
       DEF TypeInv, TypeOK, NameInv, CleanRelease, ReleaseRoute, Goto, persistent
  <2>3. OwnInv'
    BY <1>CleanRelease, <1>type
       DEF TypeInv, TypeOK, KindInv, NameInv, OwnInv, MayOwn, Settled, IsOn, owns,
           CleanRelease, ReleaseRoute, Goto, persistent
  <2>4. RestoreInv'
    BY SMTT(60), <1>CleanRelease, <1>type, <1>no
       DEF TypeInv, TypeOK, RestoreInv, IsOn, owns, CleanRelease, ReleaseRoute,
           Goto, persistent
  <2> QED
    BY <1>type, <2>1, <2>2, <2>3, <2>4
<1>CleanDelete. CASE CleanDelete
  <2>1. KindInv'
    BY <1>CleanDelete, <1>type
       DEF TypeInv, TypeOK, KindInv, IsOn, CleanDelete, DropLink, Goto, ReturnError,
           Return, mem, kernel
  <2>2. NameInv'
    BY <1>CleanDelete, <1>type
       DEF TypeInv, TypeOK, NameInv, CleanDelete, DropLink, Goto, ReturnError,
           Return, mem, kernel
  <2>3. OwnInv'
    <3>1. ASSUME NEW t \in Tunnels, t # tun PROVE Settled(t)'
      <4>1. /\ Busy /\ config'[t] = config[t]
            /\ \A k \in Keys : refs'[k][t] = refs[k][t]
            /\ \A n \in Names \ {work.iface} : link'[n] = link[n]
        BY ZenonT(30), <1>CleanDelete, <1>type, <3>1
           DEF TypeInv, TypeOK, CleanDelete, DropLink, Goto, ReturnError,
               Return, mem, kernel
      <4> QED
        BY ZenonT(30), <3>1, <4>1, OthersSettled
    <3>2. ASSUME NEW t \in Tunnels, t = tun, tun' # tun PROVE Settled(t)'
      BY ZenonT(30), <1>CleanDelete, <1>type, <3>2
         DEF TypeInv, TypeOK, KindInv, OwnInv, MayOwn, NameInv, Settled, IsOn,
             owns, CleanDelete, DropLink, Goto, ReturnError, Return, mem, kernel
    <3>3. Busy' => \A k \in Keys : owns(k, tun)' => MayOwn(k)'
      BY ZenonT(30), <1>CleanDelete, <1>type
         DEF TypeInv, TypeOK, KindInv, NameInv, OwnInv, MayOwn, IsOn, owns,
             CleanDelete, DropLink, Goto, ReturnError, Return, mem, kernel
    <3>4. pc' \in {"claim", "hotClaim"} => (reg \cup todo \subseteq KeysOf(work))'
      BY ZenonT(30), <1>CleanDelete, <1>type
         DEF TypeInv, TypeOK, OwnInv, CleanDelete, DropLink, Goto, ReturnError,
             Return, mem, kernel
    <3> QED
      BY <3>1, <3>2, <3>3, <3>4 DEF OwnInv
  <2>4. RestoreInv'
    BY ZenonT(30), <1>CleanDelete, <1>type, <1>no
       DEF TypeInv, TypeOK, RestoreInv, IsOn, owns, CleanDelete, DropLink, Goto,
           ReturnError, Return, mem, kernel
  <2> QED
    BY <1>type, <2>1, <2>2, <2>3, <2>4
<1>MakeLink. CASE MakeLink
  <2>1. KindInv'
    BY ZenonT(30), <1>MakeLink, <1>type
       DEF TypeInv, TypeOK, KindInv, IsOn, MakeLink, Goto, ReturnError, Return, mem
  <2>2. NameInv'
    BY ZenonT(30), <1>MakeLink, <1>type
       DEF TypeInv, TypeOK, NameInv, MakeLink, Goto, ReturnError, Return, mem
  <2>3. OwnInv'
    <3>1. ASSUME NEW t \in Tunnels, t # tun PROVE Settled(t)'
      <4>1. /\ Busy /\ config'[t] = config[t]
            /\ \A k \in Keys : refs'[k][t] = refs[k][t]
            /\ \A n \in Names \ {work.iface} : link'[n] = link[n]
        BY ZenonT(30), <1>MakeLink, <1>type, <3>1
           DEF TypeInv, TypeOK, MakeLink, Goto, ReturnError, Return, mem
      <4> QED
        BY <3>1, <4>1, OthersSettled
    <3>2. ASSUME NEW t \in Tunnels, t = tun, tun' # tun PROVE Settled(t)'
      BY ZenonT(60), <1>MakeLink, <1>type, <3>2
         DEF TypeInv, TypeOK, KindInv, OwnInv, MayOwn, NameInv, Settled, IsOn,
             owns, MakeLink, Goto, ReturnError, Return, mem
    <3>3. Busy' => \A k \in Keys : owns(k, tun)' => MayOwn(k)'
      BY ZenonT(30), <1>MakeLink, <1>type
         DEF TypeInv, TypeOK, KindInv, NameInv, OwnInv, MayOwn, IsOn, owns,
             MakeLink, Goto, ReturnError, Return, mem
    <3>4. pc' \in {"claim", "hotClaim"} => (reg \cup todo \subseteq KeysOf(work))'
      BY ZenonT(30), <1>MakeLink, <1>type
         DEF TypeInv, TypeOK, OwnInv, MakeLink, Goto, ReturnError, Return, mem
    <3> QED
      BY <3>1, <3>2, <3>3, <3>4 DEF OwnInv
  <2>4. RestoreInv'
    BY ZenonT(30), <1>MakeLink, <1>type, <1>no
       DEF TypeInv, TypeOK, RestoreInv, IsOn, owns, MakeLink, Goto, ReturnError,
           Return, mem
  <2> QED
    BY <1>type, <2>1, <2>2, <2>3, <2>4
<1>SetUpDevice. CASE SetUpDevice
  <2>1. KindInv'
    BY <1>SetUpDevice, <1>type
       DEF TypeInv, TypeOK, KindInv, IsOn, SetUpDevice, Goto, mem, persistent,
           kernel
  <2>2. NameInv'
    BY ZenonT(60), <1>SetUpDevice, <1>type
       DEF TypeInv, TypeOK, NameInv, SetUpDevice, Goto, mem, persistent, kernel
  <2>3. OwnInv'
    BY ZenonT(30), <1>SetUpDevice, <1>type
       DEF TypeInv, TypeOK, KindInv, NameInv, OwnInv, MayOwn, Settled, IsOn, owns,
           SetUpDevice, Goto, mem, persistent, kernel
  <2>4. RestoreInv'
    BY ZenonT(60), <1>SetUpDevice, <1>type, <1>no
       DEF TypeInv, TypeOK, RestoreInv, IsOn, owns, SetUpDevice, Goto, mem,
           persistent, kernel
  <2> QED
    BY <1>type, <2>1, <2>2, <2>3, <2>4
<1>Claim. CASE Claim
  <2>1. KindInv'
    BY ZenonT(30), <1>Claim, <1>type
       DEF TypeInv, TypeOK, KindInv, IsOn, Claim, ClaimRoute, ClaimFails, UpDone,
           Return, Goto
  <2>2. NameInv'
    BY ZenonT(60), <1>Claim, <1>type
       DEF TypeInv, TypeOK, NameInv, Claim, ClaimRoute, ClaimFails, UpDone, Return,
           Goto
  <2>3. OwnInv'
    <3>1. ASSUME NEW t \in Tunnels, t # tun PROVE Settled(t)'
      <4>1. /\ Busy /\ config'[t] = config[t]
            /\ \A k \in Keys : refs'[k][t] = refs[k][t]
            /\ \A n \in Names \ {work.iface} : link'[n] = link[n]
        BY SMTT(60), <1>Claim, <1>type, <3>1
           DEF TypeInv, TypeOK, Claim, ClaimRoute, ClaimFails, UpDone, Return,
               Goto
      <4> QED
        BY <3>1, <4>1, OthersSettled
    <3>2. ASSUME NEW t \in Tunnels, t = tun, tun' # tun PROVE Settled(t)'
      BY ZenonT(60), <1>Claim, <1>type, <3>2
         DEF TypeInv, TypeOK, KindInv, OwnInv, MayOwn, NameInv, Settled, IsOn,
             owns, Claim, ClaimRoute, ClaimFails, UpDone, Return, Goto
    <3>3. Busy' => \A k \in Keys : owns(k, tun)' => MayOwn(k)'
      BY SMTT(60), <1>Claim, <1>type
         DEF TypeInv, TypeOK, KindInv, NameInv, OwnInv, MayOwn, IsOn, owns, Claim,
             ClaimRoute, ClaimFails, UpDone, Return, Goto
    <3>4. pc' \in {"claim", "hotClaim"} => (reg \cup todo \subseteq KeysOf(work))'
      BY <1>Claim, <1>type
         DEF TypeInv, TypeOK, OwnInv, Claim, ClaimRoute, ClaimFails, UpDone,
             Return, Goto
    <3> QED
      BY <3>1, <3>2, <3>3, <3>4 DEF OwnInv
  <2>4. RestoreInv'
    <3>1. ASSUME NEW t \in Tunnels, NEW k \in Keys, t # tun PROVE refs'[k][t] = refs[k][t]
      BY <1>Claim, <1>type, <3>1 DEF TypeInv, TypeOK, Claim, ClaimRoute, ClaimFails
    <3>2. pend' = pend /\ config' = config /\ tun' \in {tun, NoTun} /\ pc' # "sweep"
      BY ZenonT(30), <1>Claim DEF Claim, UpDone, Return, Goto
    <3>3. pend \subseteq Tunnels /\ tun \notin pend
      BY <1>type DEF TypeInv, TypeOK, RestoreInv
    <3>4. ASSUME NEW t \in pend, NEW k \in Keys PROVE ~owns(k, t)'
      BY <3>1, <3>3 DEF RestoreInv, owns
    <3>5. \A t \in pend : IsOn(config, t)'
      BY ZenonT(60), <3>2 DEF RestoreInv, IsOn
    <3> QED
      BY ZenonT(30), <1>no, <3>2, <3>3, <3>4, <3>5 DEF RestoreInv
  <2> QED
    BY <1>type, <2>1, <2>2, <2>3, <2>4
<1>Cleanup. CASE Cleanup
  <2>1. KindInv'
    BY ZenonT(30), <1>Cleanup, <1>type
       DEF TypeInv, TypeOK, KindInv, IsOn, Cleanup, DropLink, ReturnError, Return,
           mem, kernel
  <2>2. NameInv'
    BY ZenonT(30), <1>Cleanup, <1>type
       DEF TypeInv, TypeOK, NameInv, Cleanup, DropLink, ReturnError, Return, mem,
           kernel
  <2>3. OwnInv'
    <3>1. ASSUME NEW t \in Tunnels, t # tun PROVE Settled(t)'
      <4>1. /\ Busy /\ config'[t] = config[t]
            /\ \A k \in Keys : refs'[k][t] = refs[k][t]
            /\ \A n \in Names \ {work.iface} : link'[n] = link[n]
        BY ZenonT(60), <1>Cleanup, <1>type, <3>1
           DEF TypeInv, TypeOK, Cleanup, DropLink, ReturnError, Return, mem,
               kernel
      <4> QED
        BY <3>1, <4>1, OthersSettled
    <3>2. ASSUME NEW t \in Tunnels, t = tun, tun' # tun PROVE Settled(t)'
      BY ZenonT(60), <1>Cleanup, <1>type, <3>2
         DEF TypeInv, TypeOK, KindInv, OwnInv, MayOwn, NameInv, Settled, IsOn,
             owns, Cleanup, DropLink, ReturnError, Return, mem, kernel
    <3>3. Busy' => \A k \in Keys : owns(k, tun)' => MayOwn(k)'
      BY ZenonT(60), <1>Cleanup, <1>type
         DEF TypeInv, TypeOK, KindInv, NameInv, OwnInv, MayOwn, IsOn, owns,
             Cleanup, DropLink, ReturnError, Return, mem, kernel
    <3>4. pc' \in {"claim", "hotClaim"} => (reg \cup todo \subseteq KeysOf(work))'
      BY ZenonT(30), <1>Cleanup, <1>type
         DEF TypeInv, TypeOK, OwnInv, Cleanup, DropLink, ReturnError, Return, mem,
             kernel
    <3> QED
      BY <3>1, <3>2, <3>3, <3>4 DEF OwnInv
  <2>4. RestoreInv'
    BY <1>Cleanup, <1>type, <1>no
       DEF TypeInv, TypeOK, RestoreInv, IsOn, owns, Cleanup, DropLink, ReturnError,
           Return, mem, kernel
  <2> QED
    BY <1>type, <2>1, <2>2, <2>3, <2>4
<1>DownLookup. CASE DownLookup
  <2>1. KindInv'
    BY <1>DownLookup, <1>type
       DEF TypeInv, TypeOK, KindInv, IsOn, DownLookup, DownDone, ReturnError,
           Return, Goto, mem, kernel
  <2>2. NameInv'
    BY <1>DownLookup, <1>type
       DEF TypeInv, TypeOK, NameInv, DownLookup, DownDone, ReturnError, Return,
           Goto, mem, kernel
  <2>3. OwnInv'
    BY <1>DownLookup, <1>type
       DEF TypeInv, TypeOK, KindInv, NameInv, OwnInv, MayOwn, Settled, IsOn, owns,
           DownLookup, DownDone, ReturnError, Return, Goto, mem, kernel
  <2>4. RestoreInv'
    BY ZenonT(60), <1>DownLookup, <1>type, <1>no
       DEF TypeInv, TypeOK, RestoreInv, IsOn, owns, DownLookup, DownDone,
           ReturnError, Return, Goto, mem, kernel
  <2> QED
    BY <1>type, <2>1, <2>2, <2>3, <2>4
<1>DownRelease. CASE DownRelease
  <2>1. KindInv'
    BY ZenonT(60), <1>DownRelease, <1>type
       DEF TypeInv, TypeOK, KindInv, IsOn, DownRelease, ReleaseRoute, Goto,
           persistent
  <2>2. NameInv'
    BY ZenonT(60), <1>DownRelease, <1>type
       DEF TypeInv, TypeOK, NameInv, DownRelease, ReleaseRoute, Goto, persistent
  <2>3. OwnInv'
    <3>1. ASSUME NEW t \in Tunnels, t # tun PROVE Settled(t)'
      <4>1. /\ Busy /\ config'[t] = config[t]
            /\ \A k \in Keys : refs'[k][t] = refs[k][t]
            /\ \A n \in Names \ {work.iface} : link'[n] = link[n]
        BY SMTT(60), <1>DownRelease, <1>type, <3>1
           DEF TypeInv, TypeOK, DownRelease, ReleaseRoute, Goto, persistent
      <4> QED
        BY <3>1, <4>1, OthersSettled
    <3>2. ASSUME NEW t \in Tunnels, t = tun, tun' # tun PROVE Settled(t)'
      BY ZenonT(60), <1>DownRelease, <1>type, <3>2
         DEF TypeInv, TypeOK, KindInv, OwnInv, MayOwn, NameInv, Settled, IsOn,
             owns, DownRelease, ReleaseRoute, Goto, persistent
    <3>3. Busy' => \A k \in Keys : owns(k, tun)' => MayOwn(k)'
      BY SMTT(60), <1>DownRelease, <1>type
         DEF TypeInv, TypeOK, KindInv, NameInv, OwnInv, MayOwn, IsOn, owns,
             DownRelease, ReleaseRoute, Goto, persistent
    <3>4. pc' \in {"claim", "hotClaim"} => (reg \cup todo \subseteq KeysOf(work))'
      BY ZenonT(60), <1>DownRelease, <1>type
         DEF TypeInv, TypeOK, OwnInv, DownRelease, ReleaseRoute, Goto, persistent
    <3> QED
      BY <3>1, <3>2, <3>3, <3>4 DEF OwnInv
  <2>4. RestoreInv'
    BY SMTT(60), <1>DownRelease, <1>type, <1>no
       DEF TypeInv, TypeOK, RestoreInv, IsOn, owns, DownRelease, ReleaseRoute, Goto,
           persistent
  <2> QED
    BY <1>type, <2>1, <2>2, <2>3, <2>4
<1>DownDelete. CASE DownDelete
  <2>1. KindInv'
    BY <1>DownDelete, <1>type
       DEF TypeInv, TypeOK, KindInv, IsOn, DownDelete, DropLink, DownDone,
           ReturnError, Return, Goto, mem, kernel
  <2>2. NameInv'
    BY <1>DownDelete, <1>type
       DEF TypeInv, TypeOK, NameInv, DownDelete, DropLink, DownDone, ReturnError,
           Return, Goto, mem, kernel
  <2>3. OwnInv'
    <3>1. ASSUME NEW t \in Tunnels, t # tun PROVE Settled(t)'
      <4>1. /\ Busy /\ config'[t] = config[t]
            /\ \A k \in Keys : refs'[k][t] = refs[k][t]
            /\ \A n \in Names \ {work.iface} : link'[n] = link[n]
        BY ZenonT(30), <1>DownDelete, <1>type, <3>1
           DEF TypeInv, TypeOK, DownDelete, DropLink, DownDone, ReturnError,
               Return, Goto, mem, kernel
      <4> QED
        BY <3>1, <4>1, OthersSettled
    <3>2. ASSUME NEW t \in Tunnels, t = tun, tun' # tun PROVE Settled(t)'
      BY ZenonT(30), <1>DownDelete, <1>type, <3>2
         DEF TypeInv, TypeOK, KindInv, OwnInv, MayOwn, NameInv, Settled, IsOn,
             owns, DownDelete, DropLink, DownDone, ReturnError, Return, Goto, mem,
             kernel
    <3>3. Busy' => \A k \in Keys : owns(k, tun)' => MayOwn(k)'
      BY <1>DownDelete, <1>type
         DEF TypeInv, TypeOK, KindInv, NameInv, OwnInv, MayOwn, IsOn, owns,
             DownDelete, DropLink, DownDone, ReturnError, Return, Goto, mem,
             kernel
    <3>4. pc' \in {"claim", "hotClaim"} => (reg \cup todo \subseteq KeysOf(work))'
      BY <1>DownDelete, <1>type
         DEF TypeInv, TypeOK, OwnInv, DownDelete, DropLink, DownDone, ReturnError,
             Return, Goto, mem, kernel
    <3> QED
      BY <3>1, <3>2, <3>3, <3>4 DEF OwnInv
  <2>4. RestoreInv'
    BY ZenonT(60), <1>DownDelete, <1>type, <1>no
       DEF TypeInv, TypeOK, RestoreInv, IsOn, owns, DownDelete, DropLink, DownDone,
           ReturnError, Return, Goto, mem, kernel
  <2> QED
    BY <1>type, <2>1, <2>2, <2>3, <2>4
<1>HotPeer. CASE HotPeer
  <2>1. KindInv'
    BY ZenonT(60), <1>HotPeer, <1>type
       DEF TypeInv, TypeOK, KindInv, IsOn, HotPeer, MayFail, Goto, mem, persistent,
           kernel
  <2>2. NameInv'
    BY ZenonT(60), <1>HotPeer, <1>type
       DEF TypeInv, TypeOK, NameInv, HotPeer, MayFail, Goto, mem, persistent, kernel
  <2>3. OwnInv'
    BY ZenonT(30), <1>HotPeer, <1>type
       DEF TypeInv, TypeOK, KindInv, NameInv, OwnInv, MayOwn, Settled, IsOn, owns,
           HotPeer, MayFail, Goto, mem, persistent, kernel
  <2>4. RestoreInv'
    BY ZenonT(60), <1>HotPeer, <1>type, <1>no
       DEF TypeInv, TypeOK, RestoreInv, IsOn, owns, HotPeer, MayFail, Goto, mem,
           persistent, kernel
  <2> QED
    BY <1>type, <2>1, <2>2, <2>3, <2>4
<1>HotRelease. CASE HotRelease
  <2>1. KindInv'
    BY ZenonT(60), <1>HotRelease, <1>type
       DEF TypeInv, TypeOK, KindInv, IsOn, HotRelease, ReleaseRoute, Goto,
           persistent
  <2>2. NameInv'
    BY ZenonT(60), <1>HotRelease, <1>type
       DEF TypeInv, TypeOK, NameInv, HotRelease, ReleaseRoute, Goto, persistent
  <2>3. OwnInv'
    BY SMTT(60), <1>HotRelease, <1>type
       DEF TypeInv, TypeOK, KindInv, NameInv, OwnInv, MayOwn, Settled, IsOn, owns,
           HotRelease, ReleaseRoute, Goto, persistent
  <2>4. RestoreInv'
    BY ZenonT(60), <1>HotRelease, <1>type, <1>no
       DEF TypeInv, TypeOK, RestoreInv, IsOn, owns, HotRelease, ReleaseRoute, Goto,
           persistent
  <2> QED
    BY <1>type, <2>1, <2>2, <2>3, <2>4
<1>HotClaim. CASE HotClaim
  <2>1. KindInv'
    BY ZenonT(60), <1>HotClaim, <1>type
       DEF TypeInv, TypeOK, KindInv, IsOn, HotClaim, ClaimRoute, ClaimFails, Goto,
           persistent
  <2>2. NameInv'
    BY ZenonT(30), <1>HotClaim, <1>type
       DEF TypeInv, TypeOK, NameInv, HotClaim, ClaimRoute, ClaimFails, Goto,
           persistent
  <2>3. OwnInv'
    <3>1. ASSUME NEW t \in Tunnels, t # tun PROVE Settled(t)'
      <4>1. /\ Busy /\ config'[t] = config[t]
            /\ \A k \in Keys : refs'[k][t] = refs[k][t]
            /\ \A n \in Names \ {work.iface} : link'[n] = link[n]
        BY SMTT(60), <1>HotClaim, <1>type, <3>1
           DEF TypeInv, TypeOK, HotClaim, ClaimRoute, ClaimFails, Goto,
               persistent
      <4> QED
        BY <3>1, <4>1, OthersSettled
    <3>2. ASSUME NEW t \in Tunnels, t = tun, tun' # tun PROVE Settled(t)'
      BY ZenonT(60), <1>HotClaim, <1>type, <3>2
         DEF TypeInv, TypeOK, KindInv, OwnInv, MayOwn, NameInv, Settled, IsOn,
             owns, HotClaim, ClaimRoute, ClaimFails, Goto, persistent
    <3>3. Busy' => \A k \in Keys : owns(k, tun)' => MayOwn(k)'
      BY SMTT(60), <1>HotClaim, <1>type
         DEF TypeInv, TypeOK, KindInv, NameInv, OwnInv, MayOwn, IsOn, owns,
             HotClaim, ClaimRoute, ClaimFails, Goto, persistent
    <3>4. pc' \in {"claim", "hotClaim"} => (reg \cup todo \subseteq KeysOf(work))'
      BY ZenonT(60), <1>HotClaim, <1>type
         DEF TypeInv, TypeOK, OwnInv, HotClaim, ClaimRoute, ClaimFails, Goto,
             persistent
    <3> QED
      BY <3>1, <3>2, <3>3, <3>4 DEF OwnInv
  <2>4. RestoreInv'
    BY ZenonT(60), <1>HotClaim, <1>type, <1>no
       DEF TypeInv, TypeOK, RestoreInv, IsOn, owns, HotClaim, ClaimRoute,
           ClaimFails, Goto, persistent
  <2> QED
    BY <1>type, <2>1, <2>2, <2>3, <2>4
<1>Recreate. CASE Recreate
  <2>1. KindInv'
    BY ZenonT(30), <1>Recreate, <1>type
       DEF TypeInv, TypeOK, KindInv, IsOn, Recreate, Goto, ReturnError, Return, mem,
           kernel
  <2>2. NameInv'
    BY ZenonT(60), <1>Recreate, <1>type
       DEF TypeInv, TypeOK, NameInv, Recreate, Goto, ReturnError, Return, mem,
           kernel
  <2>3. OwnInv'
    BY ZenonT(60), <1>Recreate, <1>type
       DEF TypeInv, TypeOK, KindInv, NameInv, OwnInv, MayOwn, Settled, IsOn, owns,
           Recreate, Goto, ReturnError, Return, mem, kernel
  <2>4. RestoreInv'
    BY <1>Recreate, <1>type, <1>no
       DEF TypeInv, TypeOK, RestoreInv, IsOn, owns, Recreate, Goto, ReturnError,
           Return, mem, kernel
  <2> QED
    BY <1>type, <2>1, <2>2, <2>3, <2>4
<1>SaveOK. CASE SaveOK
  <2>1. KindInv'
    BY <1>SaveOK, <1>type
       DEF TypeInv, TypeOK, KindInv, IsOn, SaveOK, Committed, Goto, Return, kernel
  <2>2. NameInv'
    BY <1>SaveOK, <1>type
       DEF TypeInv, TypeOK, NameInv, SaveOK, Committed, Goto, Return, kernel
  <2>3. OwnInv'
    <3>1. ASSUME NEW t \in Tunnels, t # tun PROVE Settled(t)'
      <4>1. /\ Busy /\ config'[t] = config[t]
            /\ \A k \in Keys : refs'[k][t] = refs[k][t]
            /\ \A n \in Names \ {work.iface} : link'[n] = link[n]
        BY ZenonT(30), <1>SaveOK, <1>type, <3>1
           DEF TypeInv, TypeOK, SaveOK, Committed, Goto, Return, kernel
      <4> QED
        BY <3>1, <4>1, OthersSettled
    <3>2. ASSUME NEW t \in Tunnels, t = tun, tun' # tun PROVE Settled(t)'
      <4> SUFFICES ASSUME NEW k \in Keys, owns(k, t)'
                   PROVE  (/\ IsOn(config, t)
                           /\ k \in KeysOf(config[t])
                           /\ refs[k][t] = link[config[t].iface])'
        BY ZenonT(30) DEF Settled
      <4>1. pc = "save" /\ work \in Cfg /\ refs' = refs /\ link' = link
        BY ZenonT(60), <1>SaveOK, <1>type DEF TypeInv, SaveOK, kernel
      <4>2. MayOwn(k)
        BY <3>2, <4>1 DEF OwnInv, owns
      <4>3. config'[t] = IF kind = "enable" THEN [work EXCEPT !.enabled = TRUE] ELSE work
        BY <1>SaveOK, <1>type, <3>2, <4>1, <4>2
           DEF TypeInv, TypeOK, MayOwn, SaveOK, Committed
      <4>4. /\ config'[t] \in Cfg /\ config'[t].enabled
            /\ config'[t].iface = work.iface
            /\ KeysOf(config'[t]) = KeysOf(work)
        BY ZenonT(60), <4>1, <4>2, <4>3 DEF MayOwn, Cfg, KeysOf
      <4> QED
        BY ZenonT(30), <3>2, <4>1, <4>2, <4>4, ConstantsOK DEF MayOwn, IsOn
    <3>3. Busy' => \A k \in Keys : owns(k, tun)' => MayOwn(k)'
      BY <1>SaveOK, <1>type
         DEF TypeInv, TypeOK, KindInv, NameInv, OwnInv, MayOwn, IsOn, owns,
             SaveOK, Committed, Goto, Return, kernel
    <3>4. pc' \in {"claim", "hotClaim"} => (reg \cup todo \subseteq KeysOf(work))'
      BY <1>SaveOK, <1>type
         DEF TypeInv, TypeOK, OwnInv, SaveOK, Committed, Goto, Return, kernel
    <3> QED
      BY <3>1, <3>2, <3>3, <3>4 DEF OwnInv
  <2>4. RestoreInv'
    BY ZenonT(30), <1>SaveOK, <1>type, <1>no
       DEF TypeInv, TypeOK, RestoreInv, IsOn, owns, SaveOK, Committed, Goto, Return,
           kernel
  <2> QED
    BY <1>type, <2>1, <2>2, <2>3, <2>4
<1>DeleteKeyFiles. CASE DeleteKeyFiles
  <2>1. KindInv'
    BY <1>DeleteKeyFiles, <1>type
       DEF TypeInv, TypeOK, KindInv, IsOn, DeleteKeyFiles, Return, mem, kernel
  <2>2. NameInv'
    BY ZenonT(60), <1>DeleteKeyFiles, <1>type
       DEF TypeInv, TypeOK, NameInv, DeleteKeyFiles, Return, mem, kernel
  <2>3. OwnInv'
    BY ZenonT(30), <1>DeleteKeyFiles, <1>type
       DEF TypeInv, TypeOK, KindInv, NameInv, OwnInv, MayOwn, Settled, IsOn, owns,
           DeleteKeyFiles, Return, mem, kernel
  <2>4. RestoreInv'
    BY ZenonT(60), <1>DeleteKeyFiles, <1>type, <1>no
       DEF TypeInv, TypeOK, RestoreInv, IsOn, owns, DeleteKeyFiles, Return, mem,
           kernel
  <2> QED
    BY <1>type, <2>1, <2>2, <2>3, <2>4
<1>Crash. CASE Crash
  <2>1. KindInv'
    BY ZenonT(60), <1>Crash, <1>type DEF TypeInv, TypeOK, KindInv, IsOn, Crash, persistent, kernel
  <2>2. NameInv'
    BY ZenonT(60), <1>Crash, <1>type DEF TypeInv, TypeOK, NameInv, Crash, persistent, kernel
  <2>3. OwnInv'
    BY ZenonT(30), <1>Crash, <1>type
       DEF TypeInv, TypeOK, KindInv, NameInv, OwnInv, MayOwn, Settled, IsOn, owns,
           Crash, persistent, kernel
  <2>4. RestoreInv'
    BY ZenonT(60), <1>Crash, <1>type, <1>no
       DEF TypeInv, TypeOK, RestoreInv, IsOn, owns, Crash, persistent, kernel
  <2> QED
    BY <1>type, <2>1, <2>2, <2>3, <2>4
<1>Sweep. CASE Sweep
  <2>1. KindInv'
    BY ZenonT(60), <1>Sweep, <1>type DEF TypeInv, TypeOK, KindInv, Sweep
  <2>2. NameInv'
    BY ZenonT(30), <1>Sweep, <1>type DEF TypeInv, TypeOK, NameInv, Sweep, mem, persistent
  <2>3. OwnInv'
    <3>1. ASSUME NEW t \in Tunnels PROVE Settled(t)'
      BY ZenonT(60), <1>Sweep, <1>type DEF Sweep, RestoreInv, Settled, owns, mem
    <3> QED
      BY ZenonT(60), <1>Sweep, <3>1 DEF OwnInv, Sweep
  <2>4. RestoreInv'
    BY ZenonT(30), <1>Sweep, <1>type, <1>no
       DEF TypeInv, TypeOK, KindInv, RestoreInv, IsOn, owns, Sweep, Configured, mem
  <2> QED
    BY <1>type, <2>1, <2>2, <2>3, <2>4
<1>RestoreNext. CASE RestoreNext
  <2>0. \A t \in Tunnels : Settled(t)
    BY ZenonT(30), <1>RestoreNext, SettledIdle DEF RestoreNext
  <2>1. CASE pend = {} /\ pc' = "idle" /\ UNCHANGED <<pend, kind, tun, work>>
    <3>1. KindInv'
      BY ZenonT(30), <1>RestoreNext, <2>1, <1>type DEF KindInv, RestoreNext
    <3>2. NameInv'
      BY ZenonT(60), <1>RestoreNext, <2>1, <1>type DEF NameInv, RestoreNext, mem, persistent
    <3>3. OwnInv'
      BY <1>RestoreNext, <2>0, <2>1, <1>type
         DEF OwnInv, Settled, IsOn, owns, RestoreNext, mem, kernel
    <3>4. RestoreInv'
      BY <1>RestoreNext, <2>1, <1>type DEF RestoreInv, RestoreNext
    <3> QED
      BY <1>type, <3>1, <3>2, <3>3, <3>4
  <2>2. ASSUME NEW t \in pend, pend' = pend \ {t}, kind' = "restore", tun' = t,
               work' = config[t], pc' = "key"
        PROVE  OwnersInv'
    <3>1. t \in Tunnels /\ IsOn(config, t) /\ (\A k \in Keys : ~owns(k, t))
      BY <1>type DEF TypeInv, TypeOK, RestoreInv
    <3>2. UNCHANGED <<config, refs, disk, keys, link, route>>
      BY ZenonT(30), <1>RestoreNext DEF RestoreNext, mem, persistent, kernel
    <3>3. KindInv'
      BY ZenonT(60), <2>2, <3>1, <3>2 DEF KindInv, IsOn
    <3>4. NameInv'
      BY ZenonT(60), <2>2, <3>1, <3>2 DEF NameInv, IsOn
    <3>5. OwnInv'
      BY ZenonT(60), <2>0, <2>2, <3>1, <3>2 DEF OwnInv, Settled, IsOn, owns
    <3>6. RestoreInv'
      BY ZenonT(60), <2>2, <3>1, <3>2 DEF RestoreInv, IsOn, owns
    <3> QED
      BY ZenonT(30), <1>type, <3>3, <3>4, <3>5, <3>6
  <2> QED
    BY <1>RestoreNext, <2>1, <2>2 DEF RestoreNext
<1>create. ASSUME NEW t \in Tunnels, NEW ips \in SUBSET CIDRs, NEW metric \in Metrics,
                  CreateTunnel(t, ips, metric)
           PROVE  OwnersInv'
  <2>1. PICK n \in Names :
          /\ nextInterfaceName(n)
          /\ Enter("create", t,
                   [iface |-> n, enabled |-> TRUE, ips |-> ips, metric |-> metric], "clean")
    BY ZenonT(60), <1>create DEF CreateTunnel
  <2>2. KindInv'
    BY ZenonT(60), <1>create, <2>1 DEF KindInv, CreateTunnel, Enter
  <2>3. \A u \in Tunnels : config[u] # NoCfg => config[u].iface # n
    BY <2>1 DEF nextInterfaceName, UsedNames, Configured
  <2> QED
    BY SMTT(60), <1>create, <1>type, <2>1, <2>2, <2>3, EnterStep DEF CreateTunnel
<1>delete. ASSUME NEW t \in Tunnels, DeleteTunnel(t) PROVE OwnersInv'
  <2>1. KindInv'
    BY ZenonT(60), <1>delete DEF KindInv, DeleteTunnel, Enter
  <2>2. ASSUME NEW k \in Keys, owns(k, t) PROVE MayOwn(k)'
    BY ZenonT(60), <1>delete, <2>2, SettledIdle
       DEF MayOwn, Settled, IsOn, owns, DeleteTunnel, Enter, mem, kernel
  <2> QED
    BY ZenonT(60), <1>delete, <1>type, <2>1, <2>2, EnterStep DEF DeleteTunnel, NameInv
<1>enable. ASSUME NEW t \in Tunnels, EnableTunnel(t) PROVE OwnersInv'
  <2>1. KindInv'
    BY ZenonT(60), <1>enable DEF KindInv, EnableTunnel, Enter
  <2>2. ASSUME NEW k \in Keys, owns(k, t) PROVE MayOwn(k)'
    BY ZenonT(30), <1>enable, <2>2, SettledIdle DEF Settled, IsOn, EnableTunnel
  <2> QED
    BY ZenonT(60), <1>enable, <1>type, <2>1, <2>2, EnterStep DEF EnableTunnel, NameInv
<1>disable. ASSUME NEW t \in Tunnels, DisableTunnel(t) PROVE OwnersInv'
  <2>1. KindInv'
    BY ZenonT(60), <1>disable DEF KindInv, DisableTunnel, Enter
  <2>2. ASSUME NEW k \in Keys, owns(k, t) PROVE MayOwn(k)'
    BY ZenonT(60), <1>disable, <2>2, SettledIdle
       DEF MayOwn, Settled, IsOn, owns, DisableTunnel, Enter, mem, kernel
  <2> QED
    BY ZenonT(60), <1>disable, <1>type, <2>1, <2>2, EnterStep DEF DisableTunnel, NameInv
<1>update. ASSUME NEW t \in Tunnels, NEW ips \in SUBSET CIDRs, NEW metric \in Metrics,
                  NEW hard \in BOOLEAN, UpdateTunnel(t, ips, metric, hard)
           PROVE  OwnersInv'
  <2> DEFINE merged == [config[t] EXCEPT !.ips = ips, !.metric = metric]
             first == IF ~config[t].enabled THEN "save" ELSE IF hard THEN "recreate" ELSE "hot"
  <2>1. config[t] \in Cfg /\ config[t] # NoCfg /\ pc = "idle"
    BY <1>update, <1>type DEF UpdateTunnel, TypeInv, TypeOK
  <2>2. merged.iface = config[t].iface /\ merged.enabled = config[t].enabled
    BY <2>1 DEF Cfg
  <2>3. Enter("update", t, merged, first) /\ (hard => KeysOf(merged) = KeysOf(config[t]))
    BY ZenonT(30), <1>update DEF UpdateTunnel
  <2> HIDE DEF merged
  <2>4. KindInv'
    BY ZenonT(60), <2>2, <2>3 DEF KindInv, Enter
  <2>5. ASSUME NEW k \in Keys, owns(k, t) PROVE MayOwn(k)'
    BY <2>1, <2>2, <2>3, <2>5, SettledIdle
       DEF MayOwn, Settled, IsOn, owns, Enter, mem, kernel
  <2> QED
    BY ZenonT(60), <1>type, <2>1, <2>2, <2>3, <2>4, <2>5, EnterStep DEF NameInv
<1> QED
  BY ZenonT(30), <1>LoadKey, <1>CleanLookup, <1>CleanRelease, <1>CleanDelete, <1>MakeLink,
     <1>SetUpDevice, <1>Claim, <1>Cleanup, <1>DownLookup, <1>DownRelease, <1>DownDelete,
     <1>HotPeer, <1>HotRelease, <1>HotClaim, <1>Recreate, <1>SaveOK, <1>DeleteKeyFiles,
     <1>Crash, <1>Sweep, <1>RestoreNext,
     <1>create, <1>delete, <1>enable, <1>disable, <1>update, <1>stutter
     DEF Next, Step, Request, SaveFails, MayFail

(* As long as saves and peer updates succeed and no update mixes new routes *)
(* with a recreate, no failure of the kernel, no missing key and no crash   *)
(* ever leaves an owner in the reference counter whose interface is gone.   *)
THEOREM OwnersAreLive ==
    ASSUME "save" \notin Faults, "peer" \notin Faults, ~Combined
    PROVE  Spec => []OwnersLive
<1>1. OwnersInv /\ [Next]_vars => OwnersInv'
  BY OwnersStep
<1>2. OwnersInv => OwnersLive
  <2> SUFFICES ASSUME OwnersInv, NEW k \in Keys, NEW t \in Tunnels, owns(k, t)
               PROVE  \E n \in Names : link[n] = refs[k][t]
    BY ZenonT(60) DEF OwnersLive
  <2>1. CASE t = tun
    <3>1. Busy
      BY <2>1, ConstantsOK DEF OwnersInv, KindInv
    <3>2. MayOwn(k) /\ work.iface \in Names
      BY <2>1, <3>1, IfaceType DEF OwnersInv, OwnInv, TypeInv
    <3> QED
      BY ZenonT(30), <2>1, <3>2 DEF MayOwn
  <2>2. CASE t # tun
    <3>1. Settled(t)
      BY ZenonT(30), <2>2 DEF OwnersInv, OwnInv
    <3>2. config[t].iface \in Names /\ refs[k][t] = link[config[t].iface]
      BY ZenonT(30), <3>1, IfaceType DEF OwnersInv, TypeInv, TypeOK, Settled, IsOn
    <3> QED
      BY <3>2
  <2> QED
    BY <2>1, <2>2
<1> QED
  BY OwnersInit, <1>1, <1>2, PTL DEF Spec

-----------------------------------------------------------------------------
(* Routes follow their owners. *)

(* Initially there is no route. *)
LEMMA RoutesInit == Init => RoutesInv
  BY OwnersInit, ConstantsOK
     DEF Init, RoutesInv, LinkInv, RouteInv, NoRestart, LinkUp, owns

(* Releasing a route leaves it with a surviving owner or removes it. *)
LEMMA ReleaseFollows ==
    ASSUME RoutesInv, "route" \notin Faults, Busy, NEW k \in Keys, ReleaseRoute(k)
    PROVE  RouteInv'
<1> USE DEF RoutesInv
<1>1. TypeOK /\ tun \in Tunnels
  BY DEF OwnersInv, TypeInv
<1>2. refs' = [refs EXCEPT ![k][tun] = NoIdx]
  BY ZenonT(60) DEF ReleaseRoute
<1>3. ASSUME NEW j \in Keys, j # k
      PROVE  (\/ route[j] = NoIdx /\ \A t \in Tunnels : ~owns(j, t)
              \/ \E t \in Tunnels : owns(j, t) /\ route[j] = refs[j][t])'
  <2>1. refs'[j] = refs[j] /\ route'[j] = route[j]
    BY ZenonT(60), <1>1, <1>2, <1>3 DEF TypeOK, ReleaseRoute, RouteVia, MayFail
  <2> QED
    BY <2>1 DEF RouteInv, owns
<1>4. CASE OtherOwners(k) = {}
  <2>1. \A t \in Tunnels : ~owns(k, t)'
    BY ZenonT(30), <1>1, <1>2, <1>4 DEF TypeOK, OtherOwners, owns
  <2>2. route'[k] = NoIdx
    <3>1. route' = IF route[k] = link[work.iface] THEN [route EXCEPT ![k] = NoIdx] ELSE route
      BY <1>4 DEF ReleaseRoute, MayFail
    <3>2. route[k] = NoIdx \/ (owns(k, tun) /\ route[k] = refs[k][tun])
      BY ZenonT(60), <1>1, <1>4 DEF RouteInv, OtherOwners
    <3>3. owns(k, tun) => refs[k][tun] = link[work.iface]
      BY ZenonT(60) DEF OwnersInv, OwnInv, MayOwn
    <3> QED
      BY ZenonT(30), <1>1, <3>1, <3>2, <3>3 DEF TypeOK
  <2> QED
    BY ZenonT(30), <1>3, <2>1, <2>2 DEF RouteInv
<1>5. CASE OtherOwners(k) # {}
  <2>1. PICK u \in OtherOwners(k) : route' = RouteVia(k, refs[k][u])
    BY <1>5 DEF ReleaseRoute, MayFail
  <2>2. u \in Tunnels /\ u # tun /\ owns(k, u)
    BY ZenonT(30) DEF OtherOwners
  <2>3. \E n \in Names : link[n] = refs[k][u]
    BY SMTT(60), <2>2, IfaceType DEF OwnersInv, OwnInv, Settled, IsOn, TypeInv, TypeOK
  <2>4. route'[k] = refs[k][u]
    BY ZenonT(30), <1>1, <2>1, <2>3 DEF RouteVia, TypeOK
  <2>5. refs'[k][u] = refs[k][u]
    BY ZenonT(30), <1>1, <1>2, <2>2 DEF TypeOK
  <2> QED
    BY <1>3, <2>2, <2>4, <2>5 DEF RouteInv, owns
<1> QED
  BY <1>4, <1>5

(* A claimed route leads to its new owner or, if it existed, to an older one. *)
LEMMA ClaimFollows ==
    ASSUME RoutesInv, "route" \notin Faults, pc \in {"claim", "hotClaim"},
           NEW k \in Keys, ClaimRoute(k)
    PROVE  RouteInv'
<1> USE DEF RoutesInv
<1>1. TypeOK /\ tun \in Tunnels /\ work.iface \in Names /\ link[work.iface] # NoIdx
  BY IfaceType DEF OwnersInv, TypeInv, LinkUp, Busy
<1>2. refs' = [refs EXCEPT ![k][tun] = link[work.iface]]
  BY DEF ClaimRoute
<1>3. route' = IF route[k] = NoIdx THEN [route EXCEPT ![k] = link[work.iface]] ELSE route
  BY ZenonT(30), <1>1 DEF ClaimRoute, RouteVia, MayFail
<1>4. ASSUME NEW j \in Keys, j # k
      PROVE  (\/ route[j] = NoIdx /\ \A t \in Tunnels : ~owns(j, t)
              \/ \E t \in Tunnels : owns(j, t) /\ route[j] = refs[j][t])'
  <2>1. refs'[j] = refs[j] /\ route'[j] = route[j]
    BY <1>1, <1>2, <1>3, <1>4 DEF TypeOK
  <2> QED
    BY ZenonT(30), <2>1 DEF RouteInv, owns
<1>5. refs'[k][tun] = link[work.iface]
  BY ZenonT(60), <1>1, <1>2 DEF TypeOK
<1>6. \E t \in Tunnels : refs'[k][t] # NoIdx /\ route'[k] = refs'[k][t]
  <2>1. CASE route[k] = NoIdx
    BY ZenonT(60), <1>1, <1>3, <1>5, <2>1 DEF TypeOK
  <2>2. CASE route[k] # NoIdx
    <3>1. PICK t \in Tunnels : owns(k, t) /\ route[k] = refs[k][t]
      BY <2>2 DEF RouteInv
    <3>2. refs'[k][t] = refs[k][t]
      <4>1. CASE t = tun
        BY ZenonT(30), <1>5, <3>1, <4>1 DEF OwnersInv, OwnInv, MayOwn, Busy
      <4>2. CASE t # tun
        BY <1>1, <1>2, <4>2 DEF TypeOK
      <4> QED
        BY ZenonT(60), <4>1, <4>2
    <3> QED
      BY ZenonT(30), <1>3, <2>2, <3>1, <3>2 DEF owns
  <2> QED
    BY ZenonT(30), <2>1, <2>2
<1> QED
  BY ZenonT(30), <1>4, <1>6 DEF RouteInv, owns

(* Deleting the interface of a tunnel that owns nothing takes no owned     *)
(* route with it.                                                          *)
LEMMA DropFollows ==
    ASSUME RoutesInv, Busy, DropLink(work.iface), UNCHANGED refs,
           \A k \in Keys : ~owns(k, tun)
    PROVE  RouteInv' /\ LinkInv'
<1> USE DEF RoutesInv
<1>1. TypeOK /\ work.iface \in Names
  BY ZenonT(30), IfaceType DEF OwnersInv, TypeInv
<1>2. LinkInv'
  BY <1>1 DEF LinkInv, DropLink, TypeOK
<1>3. ASSUME NEW k \in Keys, NEW t \in Tunnels, owns(k, t), route[k] = refs[k][t]
      PROVE  route'[k] = route[k]
  <2>1. /\ config[t].iface \in Names /\ config[t].iface # work.iface
        /\ refs[k][t] = link[config[t].iface]
    BY ZenonT(30), <1>1, <1>3, IfaceType DEF OwnersInv, OwnInv, NameInv, Settled, IsOn, TypeOK
  <2>2. route[k] # link[work.iface]
    BY ZenonT(60), <1>1, <1>3, <2>1 DEF LinkInv, owns
  <2> QED
    BY ZenonT(30), <2>2 DEF DropLink
<1>4. RouteInv'
  <2> SUFFICES ASSUME NEW k \in Keys
               PROVE  (\/ route[k] = NoIdx /\ \A t \in Tunnels : ~owns(k, t)
                       \/ \E t \in Tunnels : owns(k, t) /\ route[k] = refs[k][t])'
    BY ZenonT(30) DEF RouteInv
  <2>1. CASE route[k] = NoIdx /\ \A t \in Tunnels : ~owns(k, t)
    BY ZenonT(30), <2>1 DEF DropLink, owns
  <2>2. CASE \E t \in Tunnels : owns(k, t) /\ route[k] = refs[k][t]
    BY ZenonT(30), <1>3, <2>2 DEF owns
  <2> QED
    BY ZenonT(60), <2>1, <2>2 DEF RouteInv
<1> QED
  BY <1>2, <1>4

(* Every step keeps the kernel routes with their owners. *)
LEMMA RoutesStep ==
    ASSUME "save" \notin Faults, "peer" \notin Faults, "route" \notin Faults,
           ~Combined, ~CanCrash, RoutesInv, [Next]_vars
    PROVE  RoutesInv'
<1>0. OwnersInv /\ OwnersInv' /\ TypeOK /\ TypeOK'
  BY ZenonT(60), OwnersStep DEF RoutesInv, OwnersInv, TypeInv
<1>1. NoRestart'
  BY ZenonT(60) DEF RoutesInv, NoRestart, Next, Request, Step, vars,
     CreateTunnel, DeleteTunnel, EnableTunnel, DisableTunnel, UpdateTunnel, Enter,
     LoadKey, CleanLookup, CleanRelease, CleanDelete, MakeLink, SetUpDevice, Claim, Cleanup,
     DownLookup, DownRelease, DownDelete, HotPeer, HotRelease, HotClaim, Recreate,
     SaveOK, SaveFails, DeleteKeyFiles, Sweep, RestoreNext, Crash,
     DownDone, UpDone, Goto, ReturnError, Return
<1> SUFFICES LinkUp' /\ LinkInv' /\ RouteInv'
  BY <1>0, <1>1 DEF RoutesInv
<1> USE DEF RoutesInv
<1>quiet. ASSUME UNCHANGED <<refs, link, route>> PROVE LinkInv' /\ RouteInv'
  BY ZenonT(30), <1>quiet DEF LinkInv, RouteInv, owns
<1>release. ASSUME Busy, UNCHANGED link,
                   \/ UNCHANGED <<refs, route>>
                   \/ \E k \in todo : ReleaseRoute(k)
            PROVE  LinkInv' /\ RouteInv'
  BY ZenonT(60), <1>0, <1>release, ReleaseFollows DEF TypeOK, LinkInv, RouteInv, owns
<1>claim. ASSUME pc \in {"claim", "hotClaim"}, UNCHANGED link,
                 \/ UNCHANGED <<refs, route>>
                 \/ \E k \in todo : ClaimRoute(k)
          PROVE  LinkInv' /\ RouteInv'
  BY ZenonT(30), <1>0, <1>claim, ClaimFollows DEF TypeOK, LinkInv, RouteInv, owns
<1>drop. ASSUME pc \in {"cleanDel", "downDel", "cleanup"}, UNCHANGED refs,
                DropLink(work.iface) \/ UNCHANGED kernel
         PROVE  LinkInv' /\ RouteInv'
  <2>1. Busy /\ \A k \in Keys : ~owns(k, tun)
    BY ZenonT(60), <1>0, <1>drop DEF OwnersInv, OwnInv, MayOwn, Busy
  <2> QED
    BY ZenonT(30), <1>drop, <1>quiet, <2>1, DropFollows DEF kernel
<1>2. CASE UNCHANGED vars
  BY ZenonT(60), <1>2, <1>quiet DEF vars, mem, kernel, LinkUp
<1>3. CASE Request
  BY ZenonT(60), <1>3, <1>quiet DEF Request, CreateTunnel, DeleteTunnel, EnableTunnel, DisableTunnel,
     UpdateTunnel, Enter, mem, kernel, LinkUp
<1>4. CASE LoadKey
  BY <1>4, <1>quiet DEF LoadKey, Goto, ReturnError, Return, mem, kernel, LinkUp
<1>5. CASE CleanLookup
  BY <1>5, <1>quiet DEF CleanLookup, Goto, mem, kernel, LinkUp
<1>6. CASE CleanRelease
  BY <1>6, <1>release DEF CleanRelease, Goto, Busy, LinkUp
<1>7. CASE CleanDelete
  BY <1>7, <1>drop DEF CleanDelete, Goto, ReturnError, Return, mem, LinkUp
<1>8. CASE MakeLink
  <2>0. work.iface \in Names /\ NoIdx \notin Idx
    BY <1>0, <1>8, IfaceType, ConstantsOK DEF MakeLink, OwnersInv, TypeInv, Busy
  <2>1. UNCHANGED <<refs, route>>
    BY ZenonT(30), <1>8 DEF MakeLink, mem
  <2>2. CASE UNCHANGED link
    BY ZenonT(60), <1>0, <1>8, <2>0, <2>1, <2>2, <1>quiet
       DEF MakeLink, Goto, ReturnError, Return, LinkUp, TypeOK, NewIndex, Fresh
  <2>3. ASSUME NEW i \in Idx, NewIndex(i), link' = [link EXCEPT ![work.iface] = i]
        PROVE  LinkUp' /\ LinkInv' /\ RouteInv'
    <3>1. LinkUp'
      BY ZenonT(30), <1>0, <1>8, <2>0, <2>3 DEF MakeLink, Goto, ReturnError, Return, LinkUp, TypeOK
    <3>2. LinkInv'
      BY ZenonT(60), <1>0, <2>0, <2>3 DEF LinkInv, NewIndex, Fresh, TypeOK
    <3>3. RouteInv'
      BY ZenonT(30), <2>1 DEF RouteInv, owns
    <3> QED
      BY ZenonT(60), <3>1, <3>2, <3>3
  <2> QED
    BY ZenonT(60), <1>8, <2>2, <2>3 DEF MakeLink
<1>9. CASE SetUpDevice
  BY ZenonT(30), <1>9, <1>quiet DEF SetUpDevice, Goto, mem, kernel, LinkUp
<1>10. CASE Claim
  BY ZenonT(30), <1>10, <1>claim DEF Claim, ClaimFails, MayFail, UpDone, Goto, Return, LinkUp
<1>11. CASE Cleanup
  BY ZenonT(60), <1>11, <1>drop DEF Cleanup, ReturnError, Return, mem, LinkUp
<1>12. CASE DownLookup
  BY ZenonT(60), <1>12, <1>quiet
     DEF DownLookup, DownDone, Goto, ReturnError, Return, mem, kernel, LinkUp
<1>13. CASE DownRelease
  BY ZenonT(60), <1>13, <1>release DEF DownRelease, Goto, Busy, LinkUp
<1>14. CASE DownDelete
  BY ZenonT(60), <1>14, <1>drop DEF DownDelete, DownDone, Goto, ReturnError, Return, mem, LinkUp
<1>15. CASE HotPeer
  BY ZenonT(60), <1>15, <1>quiet DEF HotPeer, Goto, mem, kernel, LinkUp
<1>16. CASE HotRelease
  BY ZenonT(60), <1>16, <1>release DEF HotRelease, Goto, Busy, LinkUp
<1>17. CASE HotClaim
  BY ZenonT(60), <1>17, <1>claim DEF HotClaim, ClaimFails, MayFail, Goto, LinkUp
<1>18. CASE Recreate
  BY ZenonT(60), <1>18, <1>quiet DEF Recreate, Goto, ReturnError, Return, mem, kernel, LinkUp
<1>19. CASE SaveOK
  BY ZenonT(30), <1>19, <1>quiet DEF SaveOK, Goto, Return, kernel, LinkUp
<1>20. CASE DeleteKeyFiles
  BY <1>20, <1>quiet DEF DeleteKeyFiles, Return, mem, kernel, LinkUp
<1> QED
  BY ZenonT(60), <1>2, <1>3, <1>4, <1>5, <1>6, <1>7, <1>8, <1>9, <1>10, <1>11, <1>12, <1>13, <1>14,
     <1>15, <1>16, <1>17, <1>18, <1>19, <1>20
     DEF Next, Step, NoRestart, Sweep, RestoreNext, Crash, SaveFails, MayFail

(* As long as saves, peer updates and route requests succeed, the process  *)
(* does not die and no update mixes new routes with a recreate, a route    *)
(* that has an owner is in the kernel and leads to one of its owners at    *)
(* every step of every operation, interfaces that cannot be created,       *)
(* configured or deleted and missing keys included.                        *)
THEOREM RoutesFollowOwners ==
    ASSUME "save" \notin Faults, "peer" \notin Faults, "route" \notin Faults,
           ~Combined, ~CanCrash
    PROVE  Spec => []RouteFollowsOwners
<1>1. RoutesInv /\ [Next]_vars => RoutesInv'
  BY RoutesStep
<1>2. RoutesInv => RouteFollowsOwners
  BY DEF RoutesInv, RouteInv, RouteFollowsOwners
<1> QED
  BY RoutesInit, <1>1, <1>2, PTL DEF Spec

=============================================================================
