---------------------------- MODULE TunnelManager ----------------------------
(***************************************************************************)
(* The WireGuard site-to-site tunnel manager: the tunnel list in memory    *)
(* and in tunnels.json, the key files, the reference counter that lets     *)
(* several tunnels share one kernel route, and the kernel tables (links    *)
(* and routes) its operations drive.                                       *)
(*                                                                         *)
(* TunnelManager.mu is held for a whole operation, so at most one is in    *)
(* flight; it is split into one step per kernel or disk call so that a     *)
(* crash can fall between any two of them.                                 *)
(*                                                                         *)
(* Abstractions: a CIDR stands for its normalised form, so AllowedIPs is   *)
(* a set; a metric is an effective one; the order in which owners of a     *)
(* route registered is forgotten; what needsRecreate compares (port,       *)
(* address, MTU, peer key) is one bit of an update request; an interface   *)
(* index is any value no table mentions, as the kernel never reuses one.   *)
(***************************************************************************)
EXTENDS Naturals, FiniteSets

CONSTANTS
    Tunnels,    \* tunnel IDs
    CIDRs,      \* destination networks
    Metrics,    \* effective route metrics
    Names,      \* numbers n of the interface names wg-s2s<n>
    Idx,        \* kernel interface indices
    NoIdx, NoTun, NoCfg,
    Faults,     \* the calls that may fail: link, dev, peer, route, key, save
    CanCrash,   \* may the process die and be restarted?
    Combined    \* may one update change the routes and need a recreate?

Keys == CIDRs \X Metrics

Cfg == [iface : Names, enabled : BOOLEAN, ips : SUBSET CIDRs, metric : Metrics]

ASSUME ConstantsOK ==
    /\ Names \subseteq Nat
    /\ Idx \subseteq Nat
    /\ NoIdx \notin Idx
    /\ NoTun \notin Tunnels
    /\ NoCfg \notin Cfg
    /\ CanCrash \in BOOLEAN
    /\ Combined \in BOOLEAN

VARIABLES
    config,     \* m.config.Tunnels
    disk,       \* tunnels.json
    keys,       \* tunnels that have key files
    refs,       \* m.routeRefs.owners
    link,       \* kernel: interface name -> index
    route,      \* kernel: (destination, metric) -> output interface index
    pc, kind,   \* next step and kind of the operation holding m.mu
    tun, work,  \* its tunnel and the configuration it works on
    todo, reg,  \* routes a loop has left, routes claimRoutes registered
    pend        \* tunnels RestoreAll has not reached

mem == <<config, refs>>
persistent == <<disk, keys>>
kernel == <<link, route>>
vars == <<mem, persistent, kernel, pc, kind, tun, work, todo, reg, pend>>

Kinds == {"none", "create", "delete", "enable", "disable", "update", "restore",
          "undoCreate", "undoDelete", "undoEnable", "undoDisable"}

Steps == {"idle", "key", "clean", "cleanRel", "cleanDel", "mk", "dev", "claim",
          "cleanup", "down", "downRel", "downDel", "hot", "hotRel", "hotClaim",
          "recreate", "save", "rmkeys", "sweep", "restore"}

(* Each variable ranges over the values its declaration above describes. *)
TypeOK ==
    /\ config \in [Tunnels -> Cfg \cup {NoCfg}]
    /\ disk \in [Tunnels -> Cfg \cup {NoCfg}]
    /\ keys \subseteq Tunnels
    /\ refs \in [Keys -> [Tunnels -> Idx \cup {NoIdx}]]
    /\ link \in [Names -> Idx \cup {NoIdx}]
    /\ route \in [Keys -> Idx \cup {NoIdx}]
    /\ pc \in Steps
    /\ kind \in Kinds
    /\ tun \in Tunnels \cup {NoTun}
    /\ work \in Cfg \cup {NoCfg}
    /\ todo \subseteq Keys
    /\ reg \subseteq Keys
    /\ pend \subseteq Tunnels

-----------------------------------------------------------------------------
(* Helpers. *)

KeysOf(c) == c.ips \X {c.metric}

Configured(cs) == {t \in Tunnels : cs[t] # NoCfg}

UsedNames(cs) == {cs[t].iface : t \in Configured(cs)}

(* Mutant: the number of tunnels instead of the lowest free number. *)
nextInterfaceName_Count(n) ==
    n \in Names /\ n = Cardinality(Configured(config))

nextInterfaceName(n) ==
    /\ n \in Names \ UsedNames(config)
    /\ \A m \in Names : m < n => m \in UsedNames(config)

owns(k, t) == refs[k][t] # NoIdx

OtherOwners(k) == {u \in Tunnels \ {tun} : owns(k, u)}

MayFail(call) == call \in Faults

Fresh(i) ==
    /\ \A n \in Names : link[n] # i
    /\ \A k \in Keys : route[k] # i /\ \A t \in Tunnels : refs[k][t] # i

(* The kernel's next index; which one is immaterial as long as it is new. *)
NewIndex(i) ==
    /\ i \in Idx /\ Fresh(i)
    /\ \A j \in Idx : j < i => ~Fresh(j)

(* Deleting a link makes the kernel drop every route through it. *)
DropLink(n) ==
    /\ link' = [link EXCEPT ![n] = NoIdx]
    /\ route' = [k \in Keys |-> IF route[k] = link[n] THEN NoIdx ELSE route[k]]

(* The kernel refuses a route through an interface that does not exist. *)
RouteVia(k, i) ==
    IF \E n \in Names : link[n] = i THEN [route EXCEPT ![k] = i] ELSE route

Goto(step) == pc' = step /\ UNCHANGED <<kind, tun, work>>

(* The operation returns and releases m.mu; a restored tunnel hands over to *)
(* the next one.                                                            *)
Return ==
    /\ pc' = IF kind = "restore" THEN "restore" ELSE "idle"
    /\ kind' = "none"
    /\ tun' = NoTun
    /\ work' = NoCfg
    /\ todo' = {}
    /\ reg' = {}
    /\ UNCHANGED pend

(* Only CreateTunnel, failing, deletes the key files it wrote. *)
ReturnError ==
    /\ Return
    /\ keys' = IF kind \in {"create", "undoCreate"} THEN keys \ {tun} ELSE keys

-----------------------------------------------------------------------------
(* Bodies of the loops of releaseRoutes and claimRoutes, for one route. *)

(* Mutant: no reference counting, a released route is always deleted. *)
ReleaseRoute_Uncounted(k) ==
    /\ refs' = [refs EXCEPT ![k][tun] = NoIdx]
    /\ route' = [route EXCEPT ![k] = NoIdx]

(* Mutant: a shared route is left where it is instead of moved. *)
ReleaseRoute_NoReplace(k) ==
    /\ refs' = [refs EXCEPT ![k][tun] = NoIdx]
    /\ IF OtherOwners(k) = {} THEN route' = [route EXCEPT ![k] = NoIdx] ELSE UNCHANGED route

(* Mutant: drops the whole entry of the route, the other owners included. *)
ReleaseRoute_AllOwners(k) ==
    /\ refs' = [refs EXCEPT ![k] = [t \in Tunnels |-> NoIdx]]
    /\ route' = IF route[k] = link[work.iface] THEN [route EXCEPT ![k] = NoIdx] ELSE route

(* The last owner's route is deleted (a request that names this interface  *)
(* matches only a route through it), a shared one is moved to a survivor;  *)
(* a kernel error is only logged.                                          *)
ReleaseRoute(k) ==
    /\ refs' = [refs EXCEPT ![k][tun] = NoIdx]
    /\ \/ /\ OtherOwners(k) = {}
          /\ route' = IF route[k] = link[work.iface]
                      THEN [route EXCEPT ![k] = NoIdx]
                      ELSE route
       \/ \E u \in OtherOwners(k) : route' = RouteVia(k, refs[k][u])
       \/ MayFail("route") /\ UNCHANGED route

(* A route that already exists is left as it is (EEXIST); another kernel   *)
(* error is only logged when the route has other owners.                   *)
ClaimRoute(k) ==
    /\ refs' = [refs EXCEPT ![k][tun] = link[work.iface]]
    /\ \/ route' = IF route[k] = NoIdx THEN RouteVia(k, link[work.iface]) ELSE route
       \/ MayFail("route") /\ OtherOwners(k) # {} /\ UNCHANGED route

(* The sole owner's route cannot be added: unregisterRoutes. *)
ClaimFails(k) ==
    /\ MayFail("route")
    /\ OtherOwners(k) = {}
    /\ refs' = [j \in Keys |->
                  IF j \in reg \cup {k} THEN [refs[j] EXCEPT ![tun] = NoIdx] ELSE refs[j]]
    /\ UNCHANGED route

-----------------------------------------------------------------------------
(* bringUpTunnel and bringUp. *)

UpDone ==
    IF kind \in {"create", "enable", "update"}
    THEN Goto("save") /\ UNCHANGED <<todo, reg, pend, keys>>
    ELSE Return /\ UNCHANGED keys

LoadKey ==
    /\ pc = "key"
    /\ \/ tun \in keys /\ Goto("clean") /\ UNCHANGED <<todo, reg, pend, keys>>
       \/ (tun \notin keys \/ MayFail("key")) /\ ReturnError
    /\ UNCHANGED <<mem, disk, kernel>>

CleanLookup ==
    /\ pc = "clean"
    /\ IF link[work.iface] = NoIdx
       THEN Goto("mk") /\ UNCHANGED todo
       ELSE Goto("cleanRel") /\ todo' = KeysOf(work)
    /\ UNCHANGED <<mem, persistent, kernel, reg, pend>>

CleanRelease ==
    /\ pc = "cleanRel"
    /\ \/ todo = {} /\ Goto("cleanDel") /\ UNCHANGED <<todo, refs, route>>
       \/ \E k \in todo : ReleaseRoute(k) /\ todo' = todo \ {k} /\ Goto("cleanRel")
    /\ UNCHANGED <<config, persistent, link, reg, pend>>

(* A failed delete is retried once over a new netlink connection. *)
CleanDelete ==
    /\ pc = "cleanDel"
    /\ \/ DropLink(work.iface) /\ Goto("mk") /\ UNCHANGED <<todo, reg, pend, keys>>
       \/ MayFail("link") /\ ReturnError /\ UNCHANGED kernel
    /\ UNCHANGED <<mem, disk>>

(* createInterface may fail before or after the link exists. *)
MakeLink ==
    /\ pc = "mk"
    /\ \/ /\ \E i \in Idx : NewIndex(i) /\ link' = [link EXCEPT ![work.iface] = i]
          /\ \/ Goto("dev") /\ UNCHANGED <<todo, reg, pend, keys>>
             \/ MayFail("link") /\ ReturnError
       \/ MayFail("link") /\ ReturnError /\ UNCHANGED link
    /\ UNCHANGED <<mem, disk, route>>

(* setMTU, configureDevice, addAddress, setInterfaceUp. *)
SetUpDevice ==
    /\ pc = "dev"
    /\ \/ Goto("claim") /\ todo' = KeysOf(work) /\ reg' = {}
       \/ MayFail("dev") /\ Goto("cleanup") /\ UNCHANGED <<todo, reg>>
    /\ UNCHANGED <<mem, persistent, kernel, pend>>

Claim ==
    /\ pc = "claim"
    /\ \/ todo = {} /\ UpDone /\ UNCHANGED <<refs, route>>
       \/ \E k \in todo :
            /\ \/ ClaimRoute(k) /\ todo' = todo \ {k} /\ reg' = reg \cup {k} /\ Goto("claim")
               \/ ClaimFails(k) /\ Goto("cleanup") /\ UNCHANGED <<todo, reg>>
            /\ UNCHANGED <<pend, keys>>
    /\ UNCHANGED <<config, disk, link>>

(* bringUp's cleanup(): the new link is deleted, or stays if that fails. *)
Cleanup ==
    /\ pc = "cleanup"
    /\ \/ DropLink(work.iface)
       \/ MayFail("link") /\ UNCHANGED kernel
    /\ ReturnError
    /\ UNCHANGED <<mem, disk>>

-----------------------------------------------------------------------------
(* tearDown, also the rollback of CreateTunnel and the undo of EnableTunnel. *)

DownDone ==
    CASE kind \in {"delete", "disable"} -> Goto("save") /\ UNCHANGED <<todo, reg, pend, keys>>
      [] kind = "update" -> Goto("key") /\ UNCHANGED <<todo, reg, pend, keys>>
      [] OTHER -> ReturnError

DownLookup ==
    /\ pc = "down"
    /\ \/ link[work.iface] = NoIdx /\ DownDone
       \/ /\ link[work.iface] # NoIdx
          /\ Goto("downRel")
          /\ todo' = KeysOf(work)
          /\ UNCHANGED <<reg, pend, keys>>
    /\ UNCHANGED <<mem, disk, kernel>>

DownRelease ==
    /\ pc = "downRel"
    /\ \/ todo = {} /\ Goto("downDel") /\ UNCHANGED <<todo, refs, route>>
       \/ \E k \in todo : ReleaseRoute(k) /\ todo' = todo \ {k} /\ Goto("downRel")
    /\ UNCHANGED <<config, persistent, link, reg, pend>>

(* Mutant: a failed deleteLink is only logged. *)
DownDelete_IgnoreError ==
    /\ pc = "downDel"
    /\ DropLink(work.iface) \/ (MayFail("link") /\ UNCHANGED kernel)
    /\ DownDone
    /\ UNCHANGED <<mem, disk>>

DownDelete ==
    /\ pc = "downDel"
    /\ \/ DropLink(work.iface) /\ DownDone
       \/ MayFail("link") /\ UNCHANGED kernel /\ ReturnError
    /\ UNCHANGED <<mem, disk>>

-----------------------------------------------------------------------------
(* The operations, as they enter under m.mu. Requests that are refused     *)
(* before anything changes are not steps.                                  *)

Enter(k, t, c, step) ==
    /\ kind' = k
    /\ tun' = t
    /\ work' = c
    /\ pc' = step
    /\ UNCHANGED <<mem, disk, kernel, todo, reg, pend>>

(* Mutant: the default metric is not filled in. *)
CreateTunnel_NoDefaults(t, ips, metric) ==
    /\ pc = "idle"
    /\ config[t] = NoCfg /\ disk[t] = NoCfg /\ t \notin keys
    /\ \E n \in Names :
         /\ nextInterfaceName(n)
         /\ Enter("create", t, [iface |-> n, enabled |-> TRUE, ips |-> ips, metric |-> 0], "clean")
    /\ keys' = keys \cup {t}

(* generateID gives an ID nothing refers to. *)
CreateTunnel(t, ips, metric) ==
    /\ pc = "idle"
    /\ config[t] = NoCfg /\ disk[t] = NoCfg /\ t \notin keys
    /\ \A k \in Keys : ~owns(k, t)
    /\ \E n \in Names :
         /\ nextInterfaceName(n)
         /\ Enter("create", t, [iface |-> n, enabled |-> TRUE, ips |-> ips, metric |-> metric],
                  "clean")
    /\ keys' = keys \cup {t}

DeleteTunnel(t) ==
    /\ pc = "idle"
    /\ config[t] # NoCfg
    /\ Enter("delete", t, config[t], IF config[t].enabled THEN "down" ELSE "save")
    /\ UNCHANGED keys

(* Mutant: persists before it brings the interface up. *)
EnableTunnel_DiskFirst(t) ==
    /\ pc = "idle"
    /\ config[t] # NoCfg /\ ~config[t].enabled
    /\ Enter("enable", t, config[t], "save")
    /\ UNCHANGED keys

EnableTunnel(t) ==
    /\ pc = "idle"
    /\ config[t] # NoCfg /\ ~config[t].enabled
    /\ Enter("enable", t, config[t], "key")
    /\ UNCHANGED keys

DisableTunnel(t) ==
    /\ pc = "idle"
    /\ config[t] # NoCfg /\ config[t].enabled
    /\ Enter("disable", t, config[t], "down")
    /\ UNCHANGED keys

(* hard: the update changes what needsRecreate compares. *)
UpdateTunnel(t, ips, metric, hard) ==
    /\ pc = "idle"
    /\ config[t] # NoCfg
    /\ LET merged == [config[t] EXCEPT !.ips = ips, !.metric = metric] IN
         /\ hard => Combined \/ KeysOf(merged) = KeysOf(config[t])
         /\ Enter("update", t, merged,
                  IF ~config[t].enabled THEN "save" ELSE IF hard THEN "recreate" ELSE "hot")
    /\ UNCHANGED keys

(* Mutant: releases the new routes instead of the old ones. *)
HotPeer_ReleaseNew ==
    /\ pc = "hot"
    /\ link[work.iface] # NoIdx
    /\ Goto("hotRel") /\ todo' = KeysOf(work)
    /\ UNCHANGED <<mem, persistent, kernel, reg, pend>>

(* hotUpdate: updatePeer needs the link; any failure falls back to recreate. *)
(* The lists are compared in order, so the same routes may count as changed.  *)
HotPeer ==
    /\ pc = "hot"
    /\ \/ /\ link[work.iface] # NoIdx
          /\ \/ /\ KeysOf(config[tun]) = KeysOf(work)
                /\ Goto("save") /\ UNCHANGED todo
             \/ Goto("hotRel") /\ todo' = KeysOf(config[tun])
       \/ /\ link[work.iface] = NoIdx \/ MayFail("peer")
          /\ Goto("recreate") /\ UNCHANGED todo
    /\ UNCHANGED <<mem, persistent, kernel, reg, pend>>

HotRelease ==
    /\ pc = "hotRel"
    /\ \/ /\ todo = {} /\ Goto("hotClaim")
          /\ todo' = KeysOf(work) /\ reg' = {}
          /\ UNCHANGED <<refs, route>>
       \/ \E k \in todo :
            ReleaseRoute(k) /\ todo' = todo \ {k} /\ Goto("hotRel") /\ UNCHANGED reg
    /\ UNCHANGED <<config, persistent, link, pend>>

(* Mutant: a failed claim retries the hot update. *)
HotClaim_Retry ==
    /\ pc = "hotClaim"
    /\ \/ todo = {} /\ Goto("save") /\ UNCHANGED <<refs, route, todo, reg>>
       \/ \E k \in todo :
            \/ ClaimRoute(k) /\ todo' = todo \ {k} /\ reg' = reg \cup {k} /\ Goto("hotClaim")
            \/ ClaimFails(k) /\ Goto("hot") /\ UNCHANGED <<todo, reg>>
    /\ UNCHANGED <<config, persistent, link, pend>>

HotClaim ==
    /\ pc = "hotClaim"
    /\ \/ todo = {} /\ Goto("save") /\ UNCHANGED <<refs, route, todo, reg>>
       \/ \E k \in todo :
            \/ ClaimRoute(k) /\ todo' = todo \ {k} /\ reg' = reg \cup {k} /\ Goto("hotClaim")
            \/ ClaimFails(k) /\ Goto("recreate") /\ UNCHANGED <<todo, reg>>
    /\ UNCHANGED <<config, persistent, link, pend>>

(* recreateTunnel checks the key before it tears down, by the new config. *)
Recreate ==
    /\ pc = "recreate"
    /\ \/ tun \in keys /\ Goto("down") /\ UNCHANGED <<todo, reg, pend, keys>>
       \/ (tun \notin keys \/ MayFail("key")) /\ ReturnError
    /\ UNCHANGED <<mem, disk, kernel>>

-----------------------------------------------------------------------------
(* The change of m.config and m.save(). *)

Committed ==
    [config EXCEPT ![tun] = CASE kind = "delete" -> NoCfg
                              [] kind = "enable" -> [work EXCEPT !.enabled = TRUE]
                              [] kind = "disable" -> [work EXCEPT !.enabled = FALSE]
                              [] OTHER -> work]

SaveOK ==
    /\ pc = "save"
    /\ config' = Committed
    /\ disk' = Committed
    /\ IF kind = "delete" THEN Goto("rmkeys") /\ UNCHANGED <<todo, reg, pend>> ELSE Return
    /\ UNCHANGED <<refs, keys, kernel>>

(* WriteFile may report an error before or after the rename took effect.   *)
(* The failed step is not undone by ops.Run, only those before it; an      *)
(* update restores the old config itself.                                  *)
SaveFails ==
    /\ pc = "save"
    /\ MayFail("save")
    /\ disk' \in {disk, Committed}
    /\ config' = IF kind = "update" THEN config ELSE Committed
    /\ \/ /\ kind \in {"create", "enable"}
          /\ kind' = IF kind = "create" THEN "undoCreate" ELSE "undoEnable"
          /\ pc' = "down"
          /\ UNCHANGED <<tun, work, todo, reg, pend>>
       \/ /\ kind \in {"delete", "disable"} /\ work.enabled
          /\ kind' = IF kind = "delete" THEN "undoDelete" ELSE "undoDisable"
          /\ pc' = "key"
          /\ UNCHANGED <<tun, work, todo, reg, pend>>
       \/ /\ kind = "update" \/ (kind = "delete" /\ ~work.enabled)
          /\ Return
    /\ UNCHANGED <<refs, keys, kernel>>

DeleteKeyFiles ==
    /\ pc = "rmkeys"
    /\ keys' = keys \ {tun}
    /\ Return
    /\ UNCHANGED <<mem, disk, kernel>>

-----------------------------------------------------------------------------
(* The process dies, with or without the machine, and starts again:        *)
(* NewTunnelManager loads tunnels.json and RestoreAll runs.                *)

Crash ==
    /\ CanCrash
    /\ config' = disk
    /\ refs' = [k \in Keys |-> [t \in Tunnels |-> NoIdx]]
    /\ \/ UNCHANGED kernel
       \/ link' = [n \in Names |-> NoIdx] /\ route' = [k \in Keys |-> NoIdx]
    /\ pc' = "sweep" /\ kind' = "none" /\ tun' = NoTun /\ work' = NoCfg
    /\ todo' = {} /\ reg' = {} /\ pend' = {}
    /\ UNCHANGED persistent

(* Mutant: a tunnel whose interface survived the crash is not restored. *)
Sweep_SkipLive ==
    /\ pc = "sweep"
    /\ pend' = {t \in Configured(config) :
                  config[t].enabled /\ link[config[t].iface] = NoIdx}
    /\ pc' = "restore"
    /\ UNCHANGED <<mem, persistent, kernel, kind, tun, work, todo, reg>>

(* removeOrphanInterfaces; a link that cannot be deleted is left. *)
Sweep ==
    /\ pc = "sweep"
    /\ LET orphans == {n \in Names \ UsedNames(config) : link[n] # NoIdx} IN
         \E gone \in SUBSET orphans :
           /\ gone # orphans => MayFail("link")
           /\ link' = [n \in Names |-> IF n \in gone THEN NoIdx ELSE link[n]]
           /\ route' = [k \in Keys |-> IF \E n \in gone : route[k] = link[n]
                                       THEN NoIdx ELSE route[k]]
    /\ pend' = {t \in Configured(config) : config[t].enabled}
    /\ pc' = "restore"
    /\ UNCHANGED <<mem, persistent, kind, tun, work, todo, reg>>

RestoreNext ==
    /\ pc = "restore"
    /\ \/ pend = {} /\ pc' = "idle" /\ UNCHANGED <<pend, kind, tun, work>>
       \/ \E t \in pend :
            /\ pend' = pend \ {t}
            /\ kind' = "restore" /\ tun' = t /\ work' = config[t]
            /\ pc' = "key"
    /\ UNCHANGED <<mem, persistent, kernel, todo, reg>>

-----------------------------------------------------------------------------
Init ==
    /\ config = [t \in Tunnels |-> NoCfg]
    /\ disk = config
    /\ keys = {}
    /\ refs = [k \in Keys |-> [t \in Tunnels |-> NoIdx]]
    /\ link = [n \in Names |-> NoIdx]
    /\ route = [k \in Keys |-> NoIdx]
    /\ pc = "idle" /\ kind = "none" /\ tun = NoTun /\ work = NoCfg
    /\ todo = {} /\ reg = {} /\ pend = {}

Request ==
    \E t \in Tunnels :
      \/ \E ips \in SUBSET CIDRs, metric \in Metrics : CreateTunnel(t, ips, metric)
      \/ DeleteTunnel(t)
      \/ EnableTunnel(t)
      \/ DisableTunnel(t)
      \/ \E ips \in SUBSET CIDRs, metric \in Metrics, hard \in BOOLEAN :
           UpdateTunnel(t, ips, metric, hard)

Step ==
    \/ LoadKey \/ CleanLookup \/ CleanRelease \/ CleanDelete \/ MakeLink
    \/ SetUpDevice \/ Claim \/ Cleanup
    \/ DownLookup \/ DownRelease \/ DownDelete
    \/ HotPeer \/ HotRelease \/ HotClaim \/ Recreate
    \/ SaveOK \/ SaveFails \/ DeleteKeyFiles
    \/ Sweep \/ RestoreNext

Next == Request \/ Step \/ Crash

Spec == Init /\ [][Next]_vars /\ WF_vars(Step)

-----------------------------------------------------------------------------
(* Properties. *)

(* Every owner the reference counter lists is a tunnel whose interface     *)
(* exists under the listed index, so releaseRoutes always moves a shared   *)
(* route to an interface the kernel accepts.                               *)
OwnersLive ==
    \A k \in Keys, t \in Tunnels :
      owns(k, t) => \E n \in Names : link[n] = refs[k][t]

(* No blackhole: as long as a route has an owner, the kernel has that      *)
(* route and it leads to one of its owners, whichever of them is taken     *)
(* down, recreated or updated (what routeRefCounter exists for).           *)
RouteFollowsOwners ==
    \A k \in Keys :
      (\E t \in Tunnels : owns(k, t)) => \E t \in Tunnels : owns(k, t) /\ route[k] = refs[k][t]

IsOn(cs, t) == cs[t] # NoCfg /\ cs[t].enabled

(* Between operations, traffic for a network an enabled tunnel has claimed *)
(* leaves through an enabled tunnel that carries it, not through a link    *)
(* left behind and not into nowhere.                                       *)
NoBlackhole ==
    pc = "idle" =>
      \A t \in Tunnels : IsOn(config, t) =>
        \A k \in KeysOf(config[t]) : owns(k, t) =>
          \E u \in Tunnels :
            /\ IsOn(config, u) /\ k \in KeysOf(config[u])
            /\ route[k] = link[config[u].iface] /\ route[k] # NoIdx

(* Two tunnels never have the same interface name, in memory or on disk    *)
(* (nextInterfaceName), whatever fails and whenever the process dies.      *)
NamesDistinct ==
    \A cs \in {config, disk} : \A t, u \in Configured(cs) :
      t # u => cs[t].iface # cs[u].iface

(* An operation on one tunnel neither deletes nor replaces the interface   *)
(* of another configured tunnel, and never takes a route from it.          *)
Isolation ==
    [][pc' # "sweep" =>
         \A u \in Configured(config) \ {tun} :
           /\ link'[config[u].iface] = link[config[u].iface]
           /\ \A k \in Keys : refs'[k][u] = refs[k][u]]_vars

(* Kernel first (EnableTunnel, DisableTunnel, DeleteTunnel): tunnels.json  *)
(* says "enabled" only once the interface and its routes are there, and    *)
(* stops saying it only once the interface is gone.                        *)
DiskFollowsKernel ==
    [][\A t \in Tunnels :
         /\ ~IsOn(disk, t) /\ IsOn(disk', t) =>
              /\ link[disk'[t].iface] # NoIdx
              /\ \A k \in KeysOf(disk'[t]) : owns(k, t)
         /\ IsOn(disk, t) /\ ~IsOn(disk', t) => link[disk[t].iface] = NoIdx]_vars

(* Whenever no operation runs, also right after RestoreAll, every enabled  *)
(* tunnel has its interface and owns each of its routes through it.        *)
EnabledIsUp ==
    pc = "idle" =>
      \A t \in Configured(config) :
        config[t].enabled =>
          /\ link[config[t].iface] # NoIdx
          /\ \A k \in KeysOf(config[t]) : refs[k][t] = link[config[t].iface]

(* Every operation returns and gives up m.mu, whatever fails in it. *)
OperationsReturn == pc # "idle" ~> pc = "idle"

=============================================================================
