----------------------------- MODULE Integration ----------------------------
(***************************************************************************)
(* The API key of the controller (service/integration.go), and the zone,   *)
(* policies and rules the manager sets up for Tailscale with it            *)
(* (service/firewall.go), as four goroutines do it: the firewall watcher   *)
(* with the boot before it (server.go, watcher_firewall.go), the status    *)
(* refresh (watcher.go), an HTTP request, and a restore in the background. *)
(*                                                                         *)
(* One request to the controller or UDAPI is one step.  A key is a number, *)
(* 0 is none.  A zone is its id, its own chain prefix is its id as well,   *)
(* and Default is the prefix "VPN".  The three rules of the interface are  *)
(* one.  The two policies of a zone are <<zone, 1>> and <<zone, 2>>.       *)
(***************************************************************************)
EXTENDS Integers, FiniteSets

CONSTANTS
    MaxTsZone,         \* bound: zones the controller grants
    MaxKeyCalls,       \* bound: requests and signals
    MaxSetupFaults     \* bound: failures, restarts, provisionings, resets

DefaultPrefix == 0
NoHook == -1
OldKey == 1   \* what the controller accepts, and
NewKey == 2   \* what it accepts after a factory reset
BadKey == 3
NoTsZone == [zone |-> 0, prefix |-> DefaultPrefix, pols |-> {}]
Goroutine == {"fw", "refresh", "user", "bg"}

VARIABLES
    key, keyFile,   \* IntegrationClient's key, the key on disk
    accepted,       \* keys the controller accepts
    site,           \* Manifest.SiteID, 0 if not set
    statusCache,    \* integrationCache: a status, or "nil"
    tsZone, tsFile, \* Manifest.Tailscale, in memory and in the file
    tsZones, tsPols, lastTsZone,    \* in the controller
    zoneList,       \* the zone list ListZones keeps, {0} when it is old
    tsChains,       \* zones whose chains are in iptables
    hook,           \* prefix the rules of tailscale0 jump to, or NoHook
    cgnat,          \* prefixes whose ipset has the Tailscale network
    health,         \* status of WatcherFirewall
    retried, waited,    \* retryCount > 0, and its interval is over
    restoring,      \* who holds the CAS, or "none"
    ipc, why, held, \* goroutine -> step, what for, value in hand
    overlap,        \* history: a key was entered while a status was fetched
    oldZones,       \* history: a zone list was used that was out of date
    keyCalls, setupFaults

integrationVars == <<key, keyFile, accepted, site, statusCache, tsZone, tsFile, tsZones,
    tsPols, lastTsZone, zoneList, tsChains, hook, cgnat, health, retried, waited,
    restoring, ipc, why, held, overlap, oldZones, keyCalls, setupFaults>>

keyPart == <<key, keyFile, site, statusCache>>
remotePart == <<accepted, tsZones, tsPols, lastTsZone, zoneList, tsChains>>
manifestPart == <<tsZone, tsFile>>
rulePart == <<hook, cgnat>>
healthPart == <<health, retried, waited>>
countPart == <<keyCalls, overlap, oldZones>>

\* The manager starts: without a key, with one it has not used, or with one
\* and a zone whose policies were deleted in the meantime.
IntegrationInit ==
    /\ key \in {0, OldKey} /\ keyFile = key /\ accepted = {OldKey}
    /\ site = (IF key = 0 THEN 0 ELSE 1) /\ statusCache = "nil"
    /\ lastTsZone \in {0, key}
    /\ tsZones = 1..lastTsZone /\ tsChains = tsZones /\ tsPols = {} /\ zoneList = {0}
    /\ tsZone = (IF lastTsZone = 0 THEN NoTsZone
                 ELSE [zone |-> 1, prefix |-> 1, pols |-> {<<1, 1>>, <<1, 2>>}])
    /\ tsFile = tsZone
    /\ hook = NoHook /\ cgnat = {}
    /\ health = "healthy" /\ retried = FALSE /\ waited = TRUE
    /\ restoring = "none"
    /\ ipc = [g \in Goroutine |-> IF g = "fw" THEN "validate" ELSE "idle"]
    /\ why = [g \in Goroutine |-> "-"] /\ held = [g \in Goroutine |-> "-"]
    /\ overlap = FALSE /\ oldZones = FALSE /\ keyCalls = 0 /\ setupFaults = 0

-----------------------------------------------------------------------------
(* Steps *)

go(g, p, w, h) ==
    /\ ipc' = [ipc EXCEPT ![g] = p] /\ why' = [why EXCEPT ![g] = w]
    /\ held' = [held EXCEPT ![g] = h]
goTo(g, p, h) == go(g, p, why[g], h)
rest(g) == go(g, "idle", "-", "-")

sound == UNCHANGED setupFaults
failing == setupFaults < MaxSetupFaults /\ setupFaults' = setupFaults + 1
asked == keyCalls < MaxKeyCalls /\ keyCalls' = keyCalls + 1
booted == ipc["fw"] \notin {"validate", "boot"} /\ why["fw"] # "boot"

integrationReady == key # 0 /\ site # 0
DiscoverSiteID == IF NewKey \in accepted THEN 2 ELSE 1
authorized == key \in accepted
answered == authorized /\ site = DiscoverSiteID
ownPrefix(z) == IF z \in tsChains THEN z ELSE DefaultPrefix

RecordSuccess == health' = "healthy" /\ retried' = FALSE /\ UNCHANGED waited
RecordError == health' = "unhealthy" /\ UNCHANGED <<retried, waited>>
SetDegraded == health' = "degraded" /\ UNCHANGED <<retried, waited>>
ShouldRetry == health # "degraded" /\ (~retried \/ waited)
ResetIntegration == tsZone' = NoTsZone /\ tsFile' = NoTsZone

\* Mutant: nobody looks at the CAS.
unguarded(g) == restoring' = g
\* guardedSetup: the CAS, or not at all.
guardedSetup(g) == restoring = "none" /\ restoring' = g
release(g) == restoring' = IF restoring = g THEN "none" ELSE restoring

-----------------------------------------------------------------------------
(* SetupTailscaleFirewall, by the goroutine that holds the CAS *)

setupStays == UNCHANGED <<keyPart, accepted, tsChains, healthPart, restoring, keyCalls, overlap>>
setUpDone(g, ok) == goTo(g, "setUp", ok)

\* EnsureZone: the list, at most five seconds old, then a new zone.
listZones(g) ==
    /\ ipc[g] = "list"
    /\ LET cached == zoneList # {0}
           seen == IF cached THEN zoneList ELSE tsZones
       IN  \/ /\ integrationReady /\ (cached \/ answered) /\ sound
              /\ zoneList' = seen /\ oldZones' = (oldZones \/ seen # tsZones)
              /\ \/ seen = {} /\ goTo(g, "create", 0)
                 \/ \E z \in seen : goTo(g, "policies", z)
           \/ /\ (integrationReady /\ ~cached /\ ~answered /\ sound) \/ (~cached /\ failing)
              /\ setUpDone(g, FALSE) /\ UNCHANGED <<zoneList, oldZones>>
           \/ ~integrationReady /\ sound /\ setUpDone(g, TRUE) /\ UNCHANGED <<zoneList, oldZones>>
    /\ setupStays /\ UNCHANGED <<tsZones, tsPols, lastTsZone, manifestPart, rulePart>>

createZone(g) ==
    /\ ipc[g] = "create"
    /\ \/ /\ answered /\ sound /\ lastTsZone < MaxTsZone /\ lastTsZone' = lastTsZone + 1
          /\ tsZones' = tsZones \cup {lastTsZone'} /\ goTo(g, "policies", lastTsZone')
       \/ /\ failing \/ ((~answered \/ lastTsZone = MaxTsZone) /\ sound)
          /\ setUpDone(g, FALSE) /\ UNCHANGED <<tsZones, lastTsZone>>
    /\ setupStays /\ UNCHANGED <<tsPols, zoneList, oldZones, manifestPart, rulePart>>

\* A cancelled request counts as failed here as well.
ensurePolicies(g) ==
    /\ ipc[g] = "policies"
    /\ LET z == held[g]
           missing == {s \in {1, 2} : ~\E p \in tsPols : p[2] = s}
       IN  \/ /\ answered /\ (missing = {} \/ z \in tsZones) /\ sound
              /\ tsPols' = tsPols \cup {<<z, s>> : s \in missing}
              /\ goTo(g, "save", [zone |-> z, prefix |-> ownPrefix(z), pols |-> tsPols'])
           \/ /\ failing \/ ((~answered \/ (missing # {} /\ z \notin tsZones)) /\ sound)
              /\ \/ UNCHANGED tsPols
                 \/ answered /\ missing = {1, 2} /\ z \in tsZones /\ tsPols' = tsPols \cup {<<z, 1>>}
              /\ goTo(g, "rollback", [zone |-> z, prefix |-> DefaultPrefix, pols |-> {}])
    /\ setupStays /\ UNCHANGED <<tsZones, lastTsZone, zoneList, oldZones, manifestPart, rulePart>>

\* rollbackZone: what was refused is only logged.
rollbackTsZone(g) ==
    /\ ipc[g] = "rollback"
    /\ LET zone == held[g].zone
           left == tsPols \ held[g].pols
       IN  \/ /\ answered /\ sound /\ tsPols' = left
              /\ tsZones' = IF \E p \in left : p[1] = zone THEN tsZones ELSE tsZones \ {zone}
           \/ (failing \/ (~answered /\ sound)) /\ UNCHANGED <<tsZones, tsPols>>
    /\ setUpDone(g, FALSE)
    /\ setupStays /\ UNCHANGED <<lastTsZone, zoneList, oldZones, manifestPart, rulePart>>

\* The old entry is kept in hand in case the rules cannot be written.
SetTailscaleZone(g) ==
    /\ ipc[g] = "save"
    /\ tsZone' = held[g]
    /\ \/ tsFile' = tsZone' /\ sound /\ goTo(g, "migrate", [old |-> tsZone, prefix |-> held[g].prefix])
       \/ UNCHANGED tsFile /\ failing /\ goTo(g, "rollback", held[g])
    /\ setupStays /\ UNCHANGED <<tsZones, tsPols, lastTsZone, zoneList, oldZones, rulePart>>

\* RemoveTailscaleInterfaceRules, when the prefix is another one.
migrateRules(g) ==
    /\ ipc[g] = "migrate"
    /\ LET moved == held[g].prefix # held[g].old.prefix
       IN  \/ hook' = (IF moved THEN NoHook ELSE hook) /\ sound
           \/ moved /\ UNCHANGED hook /\ failing
    /\ goTo(g, "rules", held[g])
    /\ setupStays /\ UNCHANGED <<tsZones, tsPols, lastTsZone, zoneList, oldZones, manifestPart, cgnat>>

\* EnsureTailscaleRules: rules of the interface that are there are left as
\* they are, whatever they jump to; the ipset of the zone gets the network.
rulesEnsured(prefix) ==
    /\ prefix \in {DefaultPrefix} \cup tsChains \/ (hook # NoHook /\ prefix \in cgnat)
    /\ hook' = IF hook = NoHook THEN prefix ELSE hook
    /\ cgnat' = cgnat \cup {prefix} /\ sound
rulesNotEnsured(prefix) ==
    /\ UNCHANGED cgnat
    /\ \/ failing /\ hook' \in {hook, IF hook = NoHook THEN prefix ELSE hook}
       \/ prefix \notin {DefaultPrefix} \cup tsChains \cup cgnat /\ sound
          /\ hook' = IF hook = NoHook THEN prefix ELSE hook

applyRules(g) ==
    /\ ipc[g] = "rules"
    /\ \/ rulesEnsured(held[g].prefix) /\ setUpDone(g, TRUE) /\ UNCHANGED manifestPart
       \/ /\ rulesNotEnsured(held[g].prefix) /\ setUpDone(g, FALSE)
          /\ tsZone' = held[g].old /\ tsFile' = held[g].old
    /\ setupStays /\ UNCHANGED <<tsZones, tsPols, lastTsZone, zoneList, oldZones>>

setUpStep(g) ==
    \/ listZones(g) \/ createZone(g) \/ ensurePolicies(g) \/ rollbackTsZone(g)
    \/ SetTailscaleZone(g) \/ migrateRules(g) \/ applyRules(g)

-----------------------------------------------------------------------------
(* The firewall watcher, and the boot before it *)

\* validateIntegration and validateManifestZones.
validateIntegration ==
    /\ ipc["fw"] = "validate"
    /\ \/ /\ (key = 0 /\ sound) \/ (key # 0 /\ failing)
          /\ UNCHANGED <<key, keyFile, site, manifestPart, healthPart>>
       \/ /\ key # 0 /\ ~authorized /\ sound
          /\ key' = 0 /\ keyFile' = 0 /\ ResetIntegration /\ SetDegraded /\ UNCHANGED site
       \/ /\ key # 0 /\ authorized /\ sound
          /\ site' = DiscoverSiteID
          /\ IF site \notin {0, site'} \/ (tsZone.zone # 0 /\ tsZone.zone \notin tsZones)
             THEN ResetIntegration
             ELSE tsZone' = [tsZone EXCEPT !.pols = @ \cap tsPols] /\ tsFile' = tsZone'
          /\ UNCHANGED <<key, keyFile, healthPart>>
    /\ goTo("fw", "boot", "-")
    /\ UNCHANGED <<statusCache, remotePart, rulePart, restoring, countPart>>

\* Run: the first set-up; runFirewallWatcher begins with a success.
boot ==
    /\ ipc["fw"] = "boot"
    /\ \/ integrationReady /\ guardedSetup("fw") /\ go("fw", "list", "boot", "-") /\ UNCHANGED healthPart
       \/ ~integrationReady /\ rest("fw") /\ RecordSuccess /\ UNCHANGED restoring
    /\ sound /\ UNCHANGED <<keyPart, remotePart, manifestPart, rulePart, countPart>>

reapplyOnSIGHUP ==
    /\ ipc["fw"] = "idle" /\ asked
    /\ \/ guardedSetup("fw") /\ go("fw", "list", "sighup", "-")
       \/ restoring # "none" /\ UNCHANGED <<restoring, ipc, why, held>>
    /\ sound /\ UNCHANGED <<keyPart, remotePart, manifestPart, rulePart, healthPart, overlap, oldZones>>

\* Mutant: one failed attempt is the last.
retryOnce ==
    /\ ipc["fw"] = "idle" /\ guardedSetup("fw")
    /\ \/ /\ integrationReady /\ tsZone.zone = 0 /\ ~retried /\ health # "degraded"
          /\ retried' = TRUE /\ waited' = FALSE /\ go("fw", "list", "retry", "-")
       \/ /\ ~(integrationReady /\ tsZone.zone = 0 /\ ~retried /\ health # "degraded")
          /\ go("fw", "restore", "-", "-") /\ UNCHANGED <<retried, waited>>
    /\ sound /\ UNCHANGED <<keyPart, remotePart, manifestPart, rulePart, health, countPart>>

\* checkAndRestoreRules, with retryIntegrationSetup.
checkAndRestoreRules ==
    /\ ipc["fw"] = "idle" /\ guardedSetup("fw")
    /\ \/ /\ integrationReady /\ tsZone.zone = 0 /\ ShouldRetry
          /\ retried' = TRUE /\ waited' = FALSE /\ go("fw", "list", "retry", "-")
       \/ /\ ~(integrationReady /\ tsZone.zone = 0 /\ ShouldRetry)
          /\ retried' = (retried /\ ~(integrationReady /\ tsZone.zone # 0))
          /\ go("fw", "restore", "-", "-") /\ UNCHANGED waited
    /\ sound /\ UNCHANGED <<keyPart, remotePart, manifestPart, rulePart, health, countPart>>

fwSetUpDone ==
    /\ ipc["fw"] = "setUp"
    /\ \/ why["fw"] = "boot" /\ RecordSuccess /\ rest("fw") /\ release("fw")
       \/ why["fw"] = "sighup" /\ rest("fw") /\ release("fw") /\ UNCHANGED healthPart
       \/ /\ why["fw"] = "retry" /\ go("fw", "restore", "-", "-") /\ UNCHANGED restoring
          /\ IF held["fw"] /\ tsZone.zone # 0 THEN RecordSuccess ELSE UNCHANGED healthPart
    /\ sound /\ UNCHANGED <<keyPart, remotePart, manifestPart, rulePart, countPart>>

\* CheckTailscaleRulesPresent; without a zone the ipset does not count.
bound == hook # NoHook /\ (tsZone.zone = 0 \/ tsZone.prefix \in cgnat)

\* RestoreTailscaleRules up to the rules: a prefix found late is saved and
\* the rules that jump to the default chains go.
restorePrefix(g) ==
    LET late == tsZone.zone # 0 /\ tsZone.prefix = DefaultPrefix /\ tsZone.zone \in tsChains
    IN  /\ IF late THEN /\ tsZone' = [tsZone EXCEPT !.prefix = tsZone.zone] /\ tsFile' = tsZone'
                        /\ (hook' = NoHook /\ sound) \/ (UNCHANGED hook /\ failing)
           ELSE UNCHANGED <<manifestPart, hook>> /\ sound
        /\ goTo(g, "ensure", tsZone'.prefix)

restoreTailscaleRules ==
    /\ ipc["fw"] = "restore"
    /\ \/ /\ integrationReady /\ health # "degraded" /\ ~bound
          /\ restorePrefix("fw") /\ UNCHANGED restoring
       \/ /\ ~(integrationReady /\ health # "degraded" /\ ~bound)
          /\ rest("fw") /\ release("fw") /\ sound /\ UNCHANGED <<manifestPart, hook>>
    /\ UNCHANGED <<keyPart, remotePart, cgnat, healthPart, countPart>>

ensureRules ==
    /\ ipc["fw"] = "ensure"
    /\ (rulesEnsured(held["fw"]) /\ RecordSuccess) \/ (rulesNotEnsured(held["fw"]) /\ RecordError)
    /\ rest("fw") /\ release("fw")
    /\ UNCHANGED <<keyPart, remotePart, manifestPart, countPart>>

\* RestoreRulesWithRetry, after a WAN port was opened or closed: without the
\* CAS, three times at most.
restoreInBackground ==
    \/ /\ ipc["bg"] = "idle" /\ booted /\ asked /\ integrationReady
       /\ restorePrefix("bg")
       /\ UNCHANGED <<keyPart, remotePart, cgnat, healthPart, restoring, overlap, oldZones>>
    \/ /\ ipc["bg"] = "ensure"
       /\ \/ rulesEnsured(held["bg"]) /\ rest("bg")
          \/ rulesNotEnsured(held["bg"]) /\ (rest("bg") \/ goTo("bg", "again", "-"))
       /\ UNCHANGED <<keyPart, remotePart, manifestPart, healthPart, restoring, countPart>>
    \/ /\ ipc["bg"] = "again"
       /\ \/ integrationReady /\ restorePrefix("bg")
          \/ ~integrationReady /\ rest("bg") /\ sound /\ UNCHANGED <<manifestPart, hook>>
       /\ UNCHANGED <<keyPart, remotePart, cgnat, healthPart, restoring, countPart>>

-----------------------------------------------------------------------------
(* The status refresh *)

\* The answers to GetStatus that are told apart: "zbf" is a valid status with
\* ZBF enabled, which is only asked with a site.
answers == IF ~authorized THEN {"expired"} ELSE IF site # 0 THEN {"zbf", "other"} ELSE {"other"}

policiesMissing == health # "degraded" /\ tsZone.zone # 0 /\ tsZone.pols = {}

\* refreshTick does something about two of them: the first GetStatus looks
\* for an expired key and for policies to repair, the second, after a key was
\* cleared, for policies, the last for neither.
returned(g, w, st) ==
    CASE st = "expired" /\ w = "first" -> go(g, "expiry", w, st)
      [] st = "zbf" /\ w \in {"first", "second"} /\ policiesMissing -> go(g, "repair", w, st)
      [] OTHER -> rest(g)

\* GetStatus up to its answer.  An answer on its way knows the key it was
\* asked with only.
GetStatus(g, w) ==
    \/ (key = 0 \/ statusCache # "nil") /\ returned(g, w, IF key = 0 THEN "none" ELSE statusCache) /\ sound
    \/ key # 0 /\ statusCache = "nil" /\ \E st \in answers : go(g, "cache", w, st) /\ sound
    \/ key # 0 /\ statusCache = "nil" /\ go(g, "cache", w, "other") /\ failing

cacheStatus(g) ==
    /\ ipc[g] = "cache"
    /\ statusCache' = held[g] /\ returned(g, why[g], held[g])
    /\ sound
    /\ UNCHANGED <<key, keyFile, site, remotePart, manifestPart, rulePart, healthPart,
                   restoring, countPart>>

refreshStays == UNCHANGED <<remotePart, rulePart, keyCalls, oldZones>>

refreshTick ==
    /\ ipc["refresh"] = "idle" /\ booted
    /\ GetStatus("refresh", "first")
    /\ refreshStays /\ UNCHANGED <<keyPart, manifestPart, healthPart, restoring, overlap>>

\* handleAPIKeyExpiry: the key in memory, then all the rest.
clearKey ==
    /\ ipc["refresh"] = "expiry"
    /\ IF key # 0
       THEN key' = 0 /\ goTo("refresh", "clearFile", "-")
       ELSE rest("refresh") /\ UNCHANGED key
    /\ sound /\ refreshStays
    /\ UNCHANGED <<keyFile, site, statusCache, manifestPart, healthPart, restoring, overlap>>
clearKeyFile ==
    /\ ipc["refresh"] = "clearFile"
    /\ keyFile' = 0 /\ ResetIntegration /\ SetDegraded /\ statusCache' = "nil"
    /\ go("refresh", "ask", "second", "-")
    /\ sound /\ refreshStays /\ UNCHANGED <<key, site, restoring, overlap>>
askAgain ==
    /\ ipc["refresh"] = "ask"
    /\ GetStatus("refresh", why["refresh"])
    /\ refreshStays /\ UNCHANGED <<keyPart, manifestPart, healthPart, restoring, overlap>>

repairMissingPolicies ==
    /\ ipc["refresh"] = "repair"
    /\ \/ guardedSetup("refresh") /\ go("refresh", "list", "last", "-")
       \/ restoring # "none" /\ go("refresh", "ask", "last", "-") /\ UNCHANGED restoring
    /\ sound /\ refreshStays /\ UNCHANGED <<keyPart, manifestPart, healthPart, overlap>>
repairDone ==
    /\ ipc["refresh"] = "setUp"
    /\ IF held["refresh"] THEN UNCHANGED healthPart ELSE SetDegraded
    /\ release("refresh") /\ go("refresh", "ask", "last", "-")
    /\ sound /\ refreshStays /\ UNCHANGED <<keyPart, manifestPart, overlap>>

-----------------------------------------------------------------------------
(* Requests *)

userStays == UNCHANGED <<remotePart, manifestPart, rulePart, oldZones>>
fetching == ipc["refresh"] \in {"cache", "expiry", "clearFile"}

\* Mutant: the status of the old key stays in the cache.
setKeyKeepsStatus(k) ==
    /\ ipc["user"] = "idle" /\ booted /\ asked
    /\ key' = k /\ UNCHANGED statusCache /\ overlap' = (overlap \/ fetching)
    /\ go("user", "check", "-", k)
    /\ sound /\ userStays /\ UNCHANGED <<keyFile, site, healthPart, restoring>>

SetAPIKey(k) ==
    /\ ipc["user"] = "idle" /\ booted /\ asked
    /\ key' = k /\ statusCache' = "nil" /\ overlap' = (overlap \/ fetching)
    /\ go("user", "check", "-", k)
    /\ sound /\ userStays /\ UNCHANGED <<keyFile, site, healthPart, restoring>>

validateKey ==
    /\ ipc["user"] = "check"
    /\ \/ authorized /\ sound /\ goTo("user", "saveKey", held["user"]) /\ UNCHANGED <<key, statusCache>>
       \/ /\ failing \/ (~authorized /\ sound)
          /\ key' = 0 /\ statusCache' = "nil" /\ rest("user")
    /\ userStays /\ UNCHANGED <<keyFile, site, healthPart, restoring, keyCalls, overlap>>

saveAPIKey ==
    /\ ipc["user"] = "saveKey"
    /\ \/ keyFile' = held["user"] /\ sound /\ goTo("user", "site", "-")
       \/ UNCHANGED keyFile /\ failing /\ rest("user")
    /\ userStays /\ UNCHANGED <<key, site, statusCache, healthPart, restoring, keyCalls, overlap>>

\* The site, and OnKeyConfigured when there is one.
siteAndSetUp ==
    /\ ipc["user"] = "site"
    /\ \/ /\ authorized /\ sound /\ site' = DiscoverSiteID
          /\ \/ guardedSetup("user") /\ goTo("user", "list", "-")
             \/ restoring # "none" /\ goTo("user", "setUp", FALSE) /\ UNCHANGED restoring
       \/ /\ failing \/ (~authorized /\ sound)
          /\ goTo("user", "setUp", FALSE) /\ UNCHANGED <<site, restoring>>
    /\ userStays /\ UNCHANGED <<key, keyFile, statusCache, healthPart, keyCalls, overlap>>

\* ClearDegraded and RecordSuccess, whatever the set-up came to.
OnKeyConfigured ==
    /\ ipc["user"] = "setUp"
    /\ RecordSuccess /\ release("user") /\ rest("user")
    /\ sound /\ userStays /\ UNCHANGED <<keyPart, keyCalls, overlap>>

DeleteAPIKey ==
    /\ ipc["user"] = "idle" /\ booted /\ asked /\ sound
    /\ keyFile' = 0 /\ key' = 0 /\ statusCache' = "nil"
    /\ userStays /\ UNCHANGED <<site, healthPart, restoring, ipc, why, held, overlap>>

handleIntegrationStatus ==
    /\ ipc["user"] = "idle" /\ booted /\ GetStatus("user", "last")
    /\ userStays /\ UNCHANGED <<keyPart, healthPart, restoring, keyCalls, overlap>>

-----------------------------------------------------------------------------
(* Time, the controller, the device and the process *)

asIs == UNCHANGED <<key, keyFile, site, manifestPart, health, retried, restoring, ipc, why,
                    held, oldZones, lastTsZone, keyCalls>>

retryComesDue ==
    /\ ~waited /\ waited' = TRUE
    /\ asIs /\ sound /\ UNCHANGED <<statusCache, accepted, tsZones, tsPols, zoneList, tsChains, rulePart, overlap>>
statusGetsOld ==
    /\ statusCache # "nil" /\ statusCache' = "nil"
    /\ asIs /\ sound /\ UNCHANGED <<waited, accepted, tsZones, tsPols, zoneList, tsChains, rulePart, overlap>>
zoneListGetsOld ==
    /\ zoneList # {0} /\ zoneList' = {0}
    /\ asIs /\ sound /\ UNCHANGED <<waited, statusCache, accepted, tsZones, tsPols, tsChains, rulePart, overlap>>
zoneChainsAppear ==
    /\ tsZones \ tsChains # {} /\ tsChains' = tsChains \cup tsZones
    /\ asIs /\ sound /\ UNCHANGED <<waited, statusCache, accepted, tsZones, tsPols, zoneList, rulePart, overlap>>

\* UniFi writes its firewall anew, an admin deletes the policies, the
\* console is reset.
provisioned ==
    /\ failing /\ hook' = NoHook /\ cgnat' = {}
    /\ asIs /\ UNCHANGED <<waited, statusCache, accepted, tsZones, tsPols, zoneList, tsChains, overlap>>
policiesDeleted ==
    /\ failing /\ tsPols # {} /\ tsPols' = {}
    /\ asIs /\ UNCHANGED <<waited, statusCache, accepted, tsZones, zoneList, tsChains, rulePart, overlap>>
factoryReset ==
    /\ failing /\ accepted' = {NewKey}
    /\ tsZones' = {} /\ tsPols' = {} /\ tsChains' = {} /\ hook' = NoHook /\ cgnat' = {}
    /\ asIs /\ UNCHANGED <<waited, statusCache, zoneList, overlap>>

processRestarts ==
    /\ failing
    /\ key' = keyFile /\ tsZone' = tsFile /\ statusCache' = "nil" /\ zoneList' = {0}
    /\ health' = "healthy" /\ retried' = FALSE /\ waited' = TRUE /\ restoring' = "none"
    /\ ipc' = [g \in Goroutine |-> IF g = "fw" THEN "validate" ELSE "idle"]
    /\ why' = [g \in Goroutine |-> "-"] /\ held' = [g \in Goroutine |-> "-"]
    /\ UNCHANGED <<keyFile, site, accepted, tsFile, tsZones, tsPols, lastTsZone, tsChains,
                   rulePart, countPart>>

-----------------------------------------------------------------------------
fwStep ==
    \/ setUpStep("fw") \/ validateIntegration \/ boot \/ checkAndRestoreRules \/ fwSetUpDone
    \/ restoreTailscaleRules \/ ensureRules
refreshStep ==
    \/ setUpStep("refresh") \/ refreshTick \/ cacheStatus("refresh") \/ clearKey \/ clearKeyFile
    \/ askAgain \/ repairMissingPolicies \/ repairDone
userStep ==
    \/ setUpStep("user") \/ cacheStatus("user") \/ validateKey \/ saveAPIKey \/ siteAndSetUp
    \/ OnKeyConfigured
bgStep == ipc["bg"] # "idle" /\ restoreInBackground
timeStep == retryComesDue \/ statusGetsOld \/ zoneListGetsOld

IntegrationNext ==
    \/ fwStep \/ refreshStep \/ userStep \/ restoreInBackground \/ timeStep
    \/ reapplyOnSIGHUP \/ handleIntegrationStatus \/ DeleteAPIKey
    \/ \E k \in accepted \cup {BadKey} : SetAPIKey(k)
    \/ zoneChainsAppear \/ provisioned \/ policiesDeleted \/ factoryReset \/ processRestarts

\* Every goroutine goes on, and time goes by.  A step of a goroutine that
\* changes anything changes its place.
IntegrationSpec ==
    /\ IntegrationInit /\ [][IntegrationNext]_integrationVars
    /\ WF_(ipc["fw"])(fwStep) /\ WF_(ipc["refresh"])(refreshStep)
    /\ WF_(ipc["user"])(userStep) /\ WF_(ipc["bg"])(bgStep)
    /\ WF_(waited)(retryComesDue) /\ WF_(zoneList)(zoneListGetsOld)

-----------------------------------------------------------------------------
(* Properties *)

\* However SIGHUP, a new key, the repair, the boot and the watcher's retry
\* fall together, the Tailscale zone is created once (guardedSetup).  (Not
\* when a set-up uses a zone list that is out of date.)
OneTailscaleZone == ~oldZones => Cardinality(tsZones) <= 1

\* Neither the refresh nor the boot takes away a key the controller accepts:
\* a status says "expired" of the key it was asked with, and is forgotten
\* when another key is entered.  (Not for a key entered while the status was
\* on its way.)
ValidKeyKept ==
    [][~overlap /\ key \in accepted /\ key = keyFile /\ key' = 0
       => (\A g \in {"fw", "refresh"} : ipc'[g] = ipc[g])]_integrationVars

\* With a key that stays accepted, health that is not degraded and no other
\* zone in the manifest than the controller's, the zone is set up in the end,
\* and the rules and the ipset entry come back however often they are lost.
\* (No claim at the bound on zones.)
FirewallComesBack ==
    LET good == /\ answered /\ health # "degraded" /\ tsZone.zone \in {0} \cup tsZones
                /\ lastTsZone < MaxTsZone
    IN  <>[]good => <>[](tsZone.zone # 0 /\ bound)
=============================================================================
