----------------------------- MODULE S2sFirewall ----------------------------
(***************************************************************************)
(* The firewall side of the site-to-site tunnels: zones and policies in the*)
(* controller (service/firewall.go), rules and ipset entries in UDAPI      *)
(* (firewall.go, udapi/), the WAN port, the requests that change them      *)
(* (service/wgs2s.go) and the watcher that puts back what is missing       *)
(* (watcher_firewall.go).  The tunnels themselves are TunnelManager's.     *)
(*                                                                         *)
(* A goroutine works off a plan of calls, one request to the controller or *)
(* to UDAPI per step.  A zone is its id; the two policies of a zone are    *)
(* <<zone, 1>> and <<zone, 2>>, and the controller refuses to delete a     *)
(* zone while a policy names it.  A tunnel has one AllowedIPs network.     *)
(* Default is the chain prefix "VPN"; a zone's own prefix is its id.       *)
(***************************************************************************)
EXTENDS Integers, Sequences, FiniteSets, Functions

CONSTANTS
    Tunnel,
    Config,        \* the [cidr, port] an update may give a tunnel
    First,         \* tunnel -> the [cidr, port] it is created with
    MaxZone,       \* bound: zones the controller grants
    MaxS2sCalls,   \* bound: requests of the user
    MaxRefusals    \* bound: refused calls, restarts, provisionings

Default == 0
NoRule == -1
Chain == {"FORWARD_IN", "INPUT", "OUTPUT"}
Worker == {"user", "watcher"}
inZone(z, pols) == [zone |-> z, prefix |-> Default, pols |-> pols]
NoZone == inZone(0, {})
NoTunnel == [state |-> "none", cidr |-> 0, port |-> 0]
newTunnel(t) == [state |-> "up", cidr |-> First[t].cidr, port |-> First[t].port]
noRules == [c \in Chain |-> NoRule]

VARIABLES
    tunnels,    \* what TunnelManager has: tunnel -> [state, cidr, port]
    zoneOf,     \* Manifest.WgS2s in memory: tunnel -> [zone, prefix, pols]
    fileZones,  \* Manifest.WgS2s in the file
    keyed,      \* IntegrationReady
    degraded,   \* IsDegraded(WatcherFirewall), which Integration models
    zones,      \* zones in the controller; they all have the same name
    zonePols,   \* policies in the controller
    zoneCache,  \* zones ListZones answers with, {0} when the cache is old
    lastZone,
    chains,     \* zones whose chains are in iptables
    rules,      \* tunnel -> chain -> prefix it jumps to, NoRule if none
    members,    \* the ipsets: set of <<prefix, cidr>>
    wan,        \* tunnel -> port of its WAN policy, 0 if none
    plan,       \* goroutine -> calls to do
    phase,      \* goroutine -> step of the head call
    hand,       \* goroutine -> what it has of a manifest entry in hand
    clash,      \* history: two goroutines worked on one tunnel or on zones
    odd,        \* history: "old" a zone list out of the cache was out of
                \* date, "unsaved" a manifest was not, "left" a call that was
                \* refused left something behind, "revived" the firewall of
                \* a tunnel that is down was put back
    s2sCalls, refusals

s2sVars == <<tunnels, zoneOf, fileZones, keyed, degraded, zones, zonePols, zoneCache, lastZone,
             chains, rules, members, wan, plan, phase, hand, clash, odd, s2sCalls,
             refusals>>

\* Some tunnels are up in zone 1, as one CreateTunnel for each leaves them.
S2sInit ==
    /\ \E T \in SUBSET Tunnel :
          LET some(x) == IF T = {} THEN {} ELSE x
              own == [zone |-> 1, prefix |-> 1, pols |-> {<<1, 1>>, <<1, 2>>}]
          IN  /\ tunnels = [t \in Tunnel |-> IF t \in T THEN newTunnel(t) ELSE NoTunnel]
              /\ zoneOf = [t \in Tunnel |-> IF t \in T THEN own ELSE NoZone]
              /\ zones = some({1}) /\ chains = some({1}) /\ zonePols = some(own.pols)
              /\ lastZone = IF T = {} THEN 0 ELSE 1
              /\ rules = [t \in Tunnel |-> IF t \in T THEN [c \in Chain |-> 1] ELSE noRules]
              /\ members = {<<1, tunnels[t].cidr>> : t \in T}
              /\ wan = [t \in Tunnel |-> tunnels[t].port]
    /\ fileZones = zoneOf
    /\ keyed \in BOOLEAN /\ degraded = FALSE
    /\ zoneCache = {0}
    /\ plan = [w \in Worker |-> <<>>]
    /\ phase = [w \in Worker |-> "start"]
    /\ hand = [w \in Worker |-> NoZone]
    /\ clash = FALSE /\ odd = {}
    /\ s2sCalls = 0 /\ refusals = 0

-----------------------------------------------------------------------------
(* Plans *)

todo(op, t, x) == [op |-> op, t |-> t, x |-> x]
task(w) == Head(plan[w])
tn(w) == task(w).t
doing(w, op, p) == plan[w] # <<>> /\ task(w).op = op /\ phase[w] = p

follow(w, p, h) ==
    /\ phase' = [phase EXCEPT ![w] = p] /\ hand' = [hand EXCEPT ![w] = h]
    /\ UNCHANGED plan
become(w, q) ==
    /\ plan' = [plan EXCEPT ![w] = q]
    /\ phase' = [phase EXCEPT ![w] = "start"] /\ hand' = [hand EXCEPT ![w] = NoZone]
done(w) == become(w, Tail(plan[w]))

granted == UNCHANGED <<refusals, odd>>
refused(x) == refusals < MaxRefusals /\ refusals' = refusals + 1 /\ odd' = odd \cup x

\* saveLocked: the entry is in memory whether or not the file is written.
zoneSaved == fileZones' = zoneOf' /\ granted
unsaved == UNCHANGED fileZones /\ refused({"unsaved"})

manifestSide == <<zoneOf, fileZones>>
controllerSide == <<zones, zonePols, zoneCache, lastZone>>
deviceSide == <<rules, members, wan>>
stays == UNCHANGED <<tunnels, chains, keyed, degraded, s2sCalls>>

-----------------------------------------------------------------------------
(* SetupWgS2sZone: x is the zone to join, 0 for the zone by its name *)

\* What follows the tunnels still to be reconciled.
afterReconcile(q) ==
    {SubSeq(q, k, Len(q)) : k \in
        {i \in 1..(Len(q) + 1) : /\ \A j \in 1..(i - 1) : q[j].op = "reconcile"
                                 /\ i <= Len(q) => q[i].op # "reconcile"}}

\* Without a key ReconcileZones does not look at the other tunnels either.
zoneRefused(w) ==
    /\ doing(w, "zone", "start")
    /\ ~keyed \/ (task(w).x # 0 /\ \A u \in Tunnel : zoneOf[u].zone # task(w).x)
    /\ \E q \in (IF keyed THEN {Tail(plan[w])} ELSE afterReconcile(Tail(plan[w]))) : become(w, q)
    /\ granted /\ stays /\ UNCHANGED <<manifestSide, controllerSide, deviceSide>>

\* The entry of a tunnel of the zone is copied.
zoneJoin(w) ==
    /\ doing(w, "zone", "start") /\ keyed /\ task(w).x # 0
    /\ \E u \in Tunnel : zoneOf[u].zone = task(w).x /\ zoneOf' = [zoneOf EXCEPT ![tn(w)] = zoneOf[u]]
    /\ zoneSaved \/ unsaved
    /\ done(w) /\ stays /\ UNCHANGED <<controllerSide, deviceSide>>

\* EnsureZone through the zone list, which is kept for five seconds.
zoneByName(w) ==
    /\ doing(w, "zone", "start") /\ keyed /\ task(w).x = 0
    /\ LET cached == zoneCache # {0}
           seen == IF cached THEN zoneCache ELSE zones
       IN  \/ /\ zoneCache' = seen
              /\ odd' = odd \cup (IF seen # zones THEN {"old"} ELSE {}) /\ UNCHANGED refusals
              /\ \/ \E z \in seen : follow(w, "policies", inZone(z, {}))
                 \/ seen = {} /\ follow(w, "create", NoZone)
           \/ ~cached /\ refused({}) /\ done(w) /\ UNCHANGED zoneCache
    /\ stays /\ UNCHANGED <<manifestSide, zones, zonePols, lastZone, deviceSide>>

CreateZone(w) ==
    /\ doing(w, "zone", "create")
    /\ \/ /\ lastZone < MaxZone /\ lastZone' = lastZone + 1
          /\ zones' = zones \cup {lastZone'}
          /\ follow(w, "policies", inZone(lastZone', {})) /\ granted
       \/ refused({}) /\ done(w) /\ UNCHANGED <<zones, lastZone>>
       \/ lastZone = MaxZone /\ granted /\ done(w) /\ UNCHANGED <<zones, lastZone>>
    /\ stays /\ UNCHANGED <<manifestSide, zonePols, zoneCache, deviceSide>>

\* EnsurePolicies: the two policies by name, whatever zone they belong to;
\* what is missing is created, one after the other.
EnsurePolicies(w) ==
    /\ doing(w, "zone", "policies")
    /\ LET z == hand[w].zone
           missing == {s \in {1, 2} : ~\E p \in zonePols : p[2] = s}
       IN  \/ /\ missing = {} \/ z \in zones
              /\ zonePols' = zonePols \cup {<<z, s>> : s \in missing}
              /\ \E pols \in {{p, q} : p, q \in zonePols'} :
                    /\ {p[2] : p \in pols} = {1, 2}
                    /\ follow(w, "save", inZone(z, pols))
              /\ granted
           \/ /\ \/ z \in zones /\ refused({"left"})
                 \/ z \notin zones /\ missing # {} /\ granted
              /\ \/ UNCHANGED zonePols
                 \/ z \in zones /\ missing = {1, 2} /\ zonePols' = zonePols \cup {<<z, 1>>}
              /\ follow(w, "dropZone", hand[w])
    /\ stays /\ UNCHANGED <<manifestSide, zones, zoneCache, lastZone, deviceSide>>

\* DiscoverChainPrefix: the zone's own, once its chains are in iptables.
discovered(z) == IF z \in chains THEN z ELSE Default

\* SetWgS2sZone; when the file is not written the policies and the zone go.
saveZone(w) ==
    /\ doing(w, "zone", "save")
    /\ zoneOf' = [zoneOf EXCEPT ![tn(w)] = [hand[w] EXCEPT !.prefix = discovered(hand[w].zone)]]
    /\ (zoneSaved /\ done(w)) \/ (unsaved /\ follow(w, "dropPolicies", hand[w]))
    /\ stays /\ UNCHANGED <<controllerSide, deviceSide>>

-----------------------------------------------------------------------------
(* TeardownWgS2sZone, and rollbackZone of a set-up that failed *)

\* Mutant: the zone goes with its first tunnel.
teardownUnshared(w) ==
    /\ doing(w, "unzone", "start")
    /\ zoneOf' = [zoneOf EXCEPT ![tn(w)] = NoZone]
    /\ zoneSaved /\ (IF zoneOf[tn(w)].zone # 0 THEN follow(w, "dropPolicies", zoneOf[tn(w)]) ELSE done(w))
    /\ stays /\ UNCHANGED <<controllerSide, deviceSide>>

\* The tunnel's entry goes first, then the zone if no other tunnel has it.
teardownEntry(w) ==
    /\ doing(w, "unzone", "start")
    /\ zoneOf' = [zoneOf EXCEPT ![tn(w)] = NoZone]
    /\ LET zm == zoneOf[tn(w)]
           last == zm.zone # 0 /\ \A u \in Tunnel : zoneOf'[u].zone # zm.zone
       IN  \/ ~last /\ done(w) /\ (zoneSaved \/ (zm.zone # 0 /\ unsaved))
           \/ last /\ keyed /\ follow(w, "dropPolicies", zm) /\ (zoneSaved \/ unsaved)
           \/ last /\ ~keyed /\ done(w) /\ UNCHANGED refusals
              /\ fileZones' = zoneOf' /\ odd' = odd \cup {"left"}
    /\ stays /\ UNCHANGED <<controllerSide, deviceSide>>

dropping(w, p) == doing(w, "zone", p) \/ doing(w, "unzone", p)

\* Mutant: the policies stay.
keepPolicies(w) ==
    /\ dropping(w, "dropPolicies")
    /\ follow(w, "dropZone", hand[w]) /\ granted
    /\ stays /\ UNCHANGED <<manifestSide, controllerSide, deviceSide>>

\* Every policy is tried, and the zone after them in any case.
dropPolicies(w) ==
    /\ dropping(w, "dropPolicies")
    /\ \/ zonePols' = zonePols \ hand[w].pols /\ granted
       \/ /\ refused({"left"})
          /\ \E kept \in hand[w].pols : zonePols' = zonePols \ (hand[w].pols \ {kept})
    /\ follow(w, "dropZone", hand[w])
    /\ stays /\ UNCHANGED <<manifestSide, zones, zoneCache, lastZone, deviceSide>>

\* DeleteZone: refused while a policy names the zone, or for another reason.
dropZone(w) ==
    /\ dropping(w, "dropZone")
    /\ LET named == \E p \in zonePols : p[1] = hand[w].zone
       IN  \/ zones' = (IF named THEN zones ELSE zones \ {hand[w].zone}) /\ granted
           \/ refused({"left"}) /\ UNCHANGED zones
    /\ done(w)
    /\ stays /\ UNCHANGED <<manifestSide, zonePols, zoneCache, lastZone, deviceSide>>

-----------------------------------------------------------------------------
(* SetupWgS2sFirewall, with ops.Run over its two steps; x is the network *)

\* A prefix that was not known is looked for, and saved if found.
rediscoverAndSaveWgS2s(w) ==
    /\ doing(w, "fw", "start")
    /\ LET zm == zoneOf[tn(w)]
           late == zm.zone # 0 /\ zm.prefix = Default /\ zm.zone \in chains
       IN  \/ late /\ zoneOf' = [zoneOf EXCEPT ![tn(w)].prefix = zm.zone] /\ (zoneSaved \/ unsaved)
           \/ ~late /\ UNCHANGED <<manifestSide, refusals, odd>>
    /\ follow(w, "rules", [NoZone EXCEPT !.prefix = zoneOf'[tn(w)].prefix])
    /\ stays /\ UNCHANGED <<controllerSide, deviceSide>>

\* AddInterfaceRulesForZone: a chain that has a rule of the tunnel is left
\* as it is.  A first step that fails has nothing to undo.
addInterfaceRules(w) ==
    /\ doing(w, "fw", "rules")
    /\ LET missing == {c \in Chain : rules[tn(w)][c] = NoRule}
           added(C) == rules' = [rules EXCEPT ![tn(w)] =
                           [c \in Chain |-> IF c \in C THEN hand[w].prefix ELSE @[c]]]
       IN  \/ added(missing) /\ granted /\ follow(w, "ipset", hand[w])
           \/ \E c \in missing : added(missing \ {c}) /\ refused({}) /\ done(w)
    /\ stays /\ UNCHANGED <<manifestSide, controllerSide, members, wan>>

ensureZoneSubnets(w) ==
    /\ doing(w, "fw", "ipset")
    /\ \/ members' = members \cup {<<hand[w].prefix, task(w).x>>} /\ granted /\ done(w)
       \/ UNCHANGED members /\ refused({}) /\ follow(w, "undo", hand[w])
    /\ stays /\ UNCHANGED <<manifestSide, controllerSide, rules, wan>>

\* RemoveInterfaceRules: every chain is tried.
rulesGo(t, x) ==
    \/ rules' = [rules EXCEPT ![t] = noRules] /\ granted
    \/ \E c \in Chain : rules' = [rules EXCEPT ![t] = [noRules EXCEPT ![c] = rules[t][c]]] /\ refused(x)

undoRules(w) ==
    /\ doing(w, "fw", "undo")
    /\ rulesGo(tn(w), {})
    /\ done(w) /\ stays /\ UNCHANGED <<manifestSide, controllerSide, members, wan>>

-----------------------------------------------------------------------------
(* RemoveWgS2sFirewall, RemoveWgS2sIPSetEntries, and the WAN port *)

removeInterfaceRules(w) ==
    /\ doing(w, "unfw", "start")
    /\ rulesGo(tn(w), {"left"})
    /\ become(w, <<todo("unset", tn(w), task(w).x)>> \o Tail(plan[w]))
    /\ stays /\ UNCHANGED <<manifestSide, controllerSide, members, wan>>

\* Entries of the default set are not touched.
RemoveWgS2sIPSetEntries(w) ==
    /\ doing(w, "unset", "start")
    /\ LET prefix == zoneOf[tn(w)].prefix
       IN  \/ /\ members' = IF prefix = Default THEN members ELSE members \ {<<prefix, task(w).x>>}
              /\ granted
           \/ prefix # Default /\ refused({"left"}) /\ UNCHANGED members
    /\ done(w) /\ stays /\ UNCHANGED <<manifestSide, controllerSide, rules, wan>>

\* OpenWanPort: a marker that has a policy is left as it is.
openPort(w) ==
    /\ doing(w, "open", "start")
    /\ \/ wan' = [wan EXCEPT ![tn(w)] = IF keyed /\ @ = 0 THEN task(w).x ELSE @] /\ granted
       \/ keyed /\ wan[tn(w)] = 0 /\ UNCHANGED wan /\ refused({})
    /\ done(w) /\ stays /\ UNCHANGED <<manifestSide, controllerSide, rules, members>>

closePort(w) ==
    /\ doing(w, "close", "start")
    /\ \/ keyed /\ wan' = [wan EXCEPT ![tn(w)] = 0] /\ granted
       \/ keyed /\ wan[tn(w)] # 0 /\ UNCHANGED wan /\ refused({"left"})
       \/ ~keyed /\ UNCHANGED <<wan, refusals>> /\ odd' = odd \cup (IF wan[tn(w)] # 0 THEN {"left"} ELSE {})
    /\ done(w) /\ stays /\ UNCHANGED <<manifestSide, controllerSide, rules, members>>

\* The last step of DeleteTunnel's saga; when it fails the firewall is put
\* back, also for a tunnel that is down, and the zone is not.
wgDelete(w) ==
    /\ doing(w, "wgDelete", "start")
    /\ \/ tunnels' = [tunnels EXCEPT ![tn(w)] = NoTunnel] /\ granted /\ done(w)
       \/ /\ UNCHANGED tunnels
          /\ refused(IF tunnels[tn(w)].state = "up" THEN {} ELSE {"revived"})
          /\ become(w, <<todo("fw", tn(w), tunnels[tn(w)].cidr),
                         todo("open", tn(w), tunnels[tn(w)].port)>>)
    /\ UNCHANGED <<chains, keyed, degraded, s2sCalls, manifestSide, controllerSide, deviceSide>>

-----------------------------------------------------------------------------
(* The watcher *)

\* reconcileTunnelZone: the first zone of the manifest, or one by its name.
zoneCall(t) ==
    LET known == {zoneOf[u].zone : u \in Tunnel} \ {0}
    IN  {todo("zone", t, z) : z \in (IF known = {} THEN {0} ELSE known)}

\* ReconcileZones, for a tunnel that has no zone when its turn comes.
ReconcileZones(w) ==
    /\ doing(w, "reconcile", "start")
    /\ \/ zoneOf[tn(w)] # NoZone /\ done(w)
       \/ zoneOf[tn(w)] = NoZone /\ \E c \in zoneCall(tn(w)) : become(w, <<c>> \o Tail(plan[w]))
    /\ granted /\ stays /\ UNCHANGED <<manifestSide, controllerSide, deviceSide>>

\* The orders in which a loop may take the tunnels of a set.
orders(S) == UNION {Bijection(1..n, S) : n \in 0..Cardinality(Tunnel)}

reconcileAll == orders({t \in Tunnel : tunnels[t] # NoTunnel /\ zoneOf[t] = NoZone})
reconcileFirst(q) == [i \in 1..Len(q) |-> todo("reconcile", q[i], 0)]

\* CheckWgS2sRulesPresent: all three chains and the network in the ipset.
present(t) ==
    /\ \A c \in Chain : rules[t][c] # NoRule
    /\ <<zoneOf[t].prefix, tunnels[t].cidr>> \in members

\* The set-up of the tunnels of T that are up, with the networks of now.
setUpAll(T) ==
    {[i \in 1..Len(q) |-> todo("fw", q[i], tunnels[q[i]].cidr)] :
        q \in orders({t \in T : tunnels[t].state = "up"})}

\* Mutant: the check looks at one chain only.
checkForwardOnly(w) ==
    /\ doing(w, "check", "start")
    /\ \E q \in setUpAll({t \in Tunnel : rules[t]["FORWARD_IN"] = NoRule}) : become(w, q)
    /\ granted /\ stays /\ UNCHANGED <<manifestSide, controllerSide, deviceSide>>

checkRules(w) ==
    /\ doing(w, "check", "start")
    /\ \E q \in setUpAll({t \in Tunnel : ~present(t)}) : become(w, q)
    /\ granted /\ stays /\ UNCHANGED <<manifestSide, controllerSide, deviceSide>>

\* Every tick, unless the watcher is degraded: the zones of the tunnels there
\* are, then the rules.
restoreWgS2sRules ==
    /\ plan["watcher"] = <<>> /\ ~degraded
    /\ \E q \in reconcileAll : become("watcher", reconcileFirst(q) \o <<todo("check", 0, 0)>>)
    /\ granted /\ stays /\ UNCHANGED <<manifestSide, controllerSide, deviceSide>>

workStep(w) ==
    \/ zoneRefused(w) \/ zoneJoin(w) \/ zoneByName(w) \/ CreateZone(w)
    \/ EnsurePolicies(w) \/ saveZone(w) \/ teardownEntry(w) \/ dropPolicies(w)
    \/ dropZone(w) \/ rediscoverAndSaveWgS2s(w) \/ addInterfaceRules(w)
    \/ ensureZoneSubnets(w) \/ undoRules(w) \/ removeInterfaceRules(w)
    \/ RemoveWgS2sIPSetEntries(w) \/ openPort(w) \/ closePort(w) \/ wgDelete(w)
    \/ ReconcileZones(w) \/ checkRules(w)

-----------------------------------------------------------------------------
(* Requests: the tunnel first, then what goes with it *)

request(t, tunnel, q) ==
    /\ plan["user"] = <<>>
    /\ s2sCalls < MaxS2sCalls /\ s2sCalls' = s2sCalls + 1
    /\ tunnels' = [tunnels EXCEPT ![t] = tunnel]
    /\ become("user", q)
    /\ granted /\ UNCHANGED <<chains, keyed, degraded, manifestSide, controllerSide, deviceSide>>

setUp(t, tunnel) == <<todo("fw", t, tunnel.cidr), todo("open", t, tunnel.port)>>
tearDown(t) == <<todo("unfw", t, tunnels[t].cidr), todo("close", t, 0)>>

\* CreateTunnel with setupTunnelZone: a new zone, a zone asked for, or the
\* first one; no zone when there are zones and none was asked for.
CreateTunnel(t) ==
    /\ tunnels[t] = NoTunnel
    /\ LET tunnel == newTunnel(t)
           known == {zoneOf[u].zone : u \in Tunnel} \ {0}
       IN  \/ \E z \in {0} \cup known : request(t, tunnel, <<todo("zone", t, z)>> \o setUp(t, tunnel))
           \/ known # {} /\ request(t, tunnel, setUp(t, tunnel))

\* UpdateTunnel: the ipset follows AllowedIPs when they are given, the WAN
\* port follows the listen port, on a tunnel that is up.
UpdateTunnel(t) ==
    /\ tunnels[t] # NoTunnel
    /\ \E c \in Config, given \in BOOLEAN :
          LET old == tunnels[t]
              new == [old EXCEPT !.port = c.port, !.cidr = IF given THEN c.cidr ELSE @]
              networks == <<todo("unset", t, old.cidr), todo("fw", t, new.cidr)>>
              port == <<todo("close", t, 0), todo("open", t, new.port)>>
          IN  request(t, new, IF old.state # "up" THEN <<>> ELSE
                 (IF given THEN networks ELSE <<>>) \o (IF new.port # old.port THEN port ELSE <<>>))

DeleteTunnel(t) ==
    /\ tunnels[t] # NoTunnel
    /\ request(t, tunnels[t], tearDown(t) \o <<todo("unzone", t, 0), todo("wgDelete", t, 0)>>)

EnableTunnel(t) ==
    /\ tunnels[t] # NoTunnel
    /\ LET new == [tunnels[t] EXCEPT !.state = "up"] IN request(t, new, setUp(t, new))

\* Mutant: the port stays open.
disableKeepsPort(t) ==
    /\ tunnels[t] # NoTunnel
    /\ request(t, [tunnels[t] EXCEPT !.state = "down"], SubSeq(tearDown(t), 1, 1))

DisableTunnel(t) ==
    /\ tunnels[t] # NoTunnel
    /\ request(t, [tunnels[t] EXCEPT !.state = "down"], tearDown(t))

SetupZoneForTunnel(t) ==
    /\ tunnels[t] # NoTunnel /\ zoneOf[t] = NoZone
    /\ \E c \in zoneCall(t) : request(t, tunnels[t], <<c>>)

-----------------------------------------------------------------------------
(* The device, the controller and the process *)

idle == UNCHANGED <<tunnels, manifestSide, zones, zonePols, lastZone, wan, plan, phase,
                    hand, s2sCalls>>

\* UniFi builds the chains of a new zone; the cached list gets old.
chainsAppear ==
    /\ \E z \in zones \ chains : chains' = chains \cup {z}
    /\ idle /\ granted /\ UNCHANGED <<zoneCache, keyed, degraded, rules, members>>
zoneListAges ==
    /\ zoneCache # {0} /\ zoneCache' = {0}
    /\ idle /\ granted /\ UNCHANGED <<chains, keyed, degraded, rules, members>>

\* UniFi provisions the firewall anew: the manager's rules are gone.
provision ==
    /\ refused({})
    /\ rules' = [t \in Tunnel |-> noRules] /\ members' = {}
    /\ idle /\ UNCHANGED <<chains, keyed, degraded, zoneCache>>

\* An API key is set or deleted.
keyChanges ==
    /\ refused({}) /\ keyed' = ~keyed
    /\ idle /\ UNCHANGED <<chains, degraded, zoneCache, rules, members>>

\* The watcher's health becomes degraded, and is cleared again, or not.
healthChanges ==
    /\ (~degraded /\ refused({})) \/ (degraded /\ granted)
    /\ degraded' = ~degraded
    /\ idle /\ UNCHANGED <<chains, keyed, zoneCache, rules, members>>

\* A crash, and initWgS2s: the zones, then every tunnel that is up.
initWgS2s ==
    /\ refused(IF plan["user"] \o plan["watcher"] # <<>> THEN {"left"} ELSE {})
    /\ zoneOf' = fileZones
    /\ \E q \in reconcileAll, all \in setUpAll(Tunnel) :
          plan' = [plan EXCEPT !["user"] = <<>>, !["watcher"] = reconcileFirst(q) \o all]
    /\ phase' = [w \in Worker |-> "start"] /\ hand' = [w \in Worker |-> NoZone]
    /\ zoneCache' = {0} /\ degraded' = FALSE
    /\ UNCHANGED <<tunnels, fileZones, keyed, zones, zonePols, lastZone, chains, deviceSide,
                   s2sCalls>>

\* Two goroutines have the same tunnel in hand, or zone work.
workingOn(w) == {c.t : c \in Range(plan[w])} \cap Tunnel
onZones(w) == plan[w] # <<>> /\ task(w).op \in {"zone", "unzone"}
clashing == workingOn("user") \cap workingOn("watcher") # {} \/ (onZones("user") /\ onZones("watcher"))
watched == clash' = (clash \/ clashing')

work == \E w \in Worker : workStep(w)
userRequest == \E t \in Tunnel :
    \/ CreateTunnel(t) \/ UpdateTunnel(t) \/ DeleteTunnel(t)
    \/ EnableTunnel(t) \/ DisableTunnel(t) \/ SetupZoneForTunnel(t)

S2sStep ==
    \/ work \/ restoreWgS2sRules \/ userRequest
    \/ chainsAppear \/ zoneListAges \/ provision \/ keyChanges
    \/ healthChanges \/ initWgS2s

S2sNext == S2sStep /\ watched

\* Where a goroutine is; every step of it changes that.
place(w) == <<plan[w], phase[w], hand[w]>>

\* The watcher ticks for ever, what is planned is worked off, five seconds go
\* by.
userWorks == workStep("user") /\ watched
watcherWorks == (workStep("watcher") \/ restoreWgS2sRules) /\ watched
listAges == zoneListAges /\ watched
S2sSpec ==
    /\ S2sInit /\ [][S2sNext]_s2sVars
    /\ WF_(place("user"))(userWorks) /\ WF_(place("watcher"))(watcherWorks)
    /\ WF_(zoneCache)(listAges)

-----------------------------------------------------------------------------
(* Properties *)

atRest == plan["user"] = <<>> /\ plan["watcher"] = <<>>
orderly == ~clash /\ odd \cap {"old", "unsaved"} = {}

\* Deleting a tunnel, or rolling back a failed set-up, never takes the zone
\* or the policies of another tunnel with it: the zone a tunnel has in the
\* manifest is there, and its policies are the zone's own.
ZoneInUseKept ==
    orderly => \A t \in Tunnel : zoneOf[t] # NoZone =>
        /\ zoneOf[t].zone \in zones
        /\ zoneOf[t].pols = {<<zoneOf[t].zone, 1>>, <<zoneOf[t].zone, 2>>}
        /\ zoneOf[t].pols \subseteq zonePols

\* Nothing of a deleted tunnel stays in the controller: with no call refused
\* on the way, a zone and its policies are there for a tunnel's sake.
NoZoneLeft ==
    orderly /\ "left" \notin odd /\ atRest =>
        \A z \in zones \cup {p[1] : p \in zonePols} : \E t \in Tunnel : zoneOf[t].zone = z

\* A tunnel that is down or deleted has neither rules nor an open WAN port,
\* and the port open for one that is up is the one it listens on.  Outside
\* of this is what DeleteTunnel's undo does for a tunnel that is down: it
\* sets its firewall up and opens its port.
ClosedWhenDown ==
    orderly /\ odd \cap {"left", "revived"} = {} /\ atRest => \A t \in Tunnel :
        /\ tunnels[t].state # "up" => rules[t] = noRules /\ wan[t] = 0
        /\ wan[t] \in {0, tunnels[t].port}

\* Whatever was refused, provisioned away, cut off by a restart or done at
\* the same time, in the end every tunnel that is up has its three rules and
\* its network in the ipset of its zone, and keeps them; with an API key it
\* has a zone.  (No claim while the watcher's health stays degraded, nor once
\* the bound on zones is reached.)
TunnelsGuarded ==
    []<>degraded \/ <>[](\A t \in Tunnel : tunnels[t].state = "up" =>
            present(t) /\ (keyed /\ lastZone < MaxZone => zoneOf[t].zone # 0))
=============================================================================
