------------------------------- MODULE Cleanup ------------------------------
(***************************************************************************)
(* vpn-pack-manager --cleanup (cleanup.go): everything the manager put on  *)
(* the device and in the controller is taken away, each piece on a best    *)
(* effort, while the service is stopped; the command may be run again.     *)
(*                                                                         *)
(* A policy of the controller is [id, zones, ours, parent]: the zones it   *)
(* names, whether its name begins with "VPN Pack: ", and for a policy      *)
(* UniFi derived the one it was derived from.  The controller refuses to   *)
(* delete a zone a policy names.  DNS policies are a resource of their own *)
(* (client/integration.go DeleteDNSPolicy).                                *)
(***************************************************************************)
EXTENDS Integers, Sequences

CONSTANTS
    MaxCleanRuns,    \* bound: times the command is run
    MaxCleanFaults   \* bound: calls that fail

VARIABLES
    service,      \* what systemctl says: "active", "inactive", no answer
    manifestFile, \* "whole", "corrupt", "gone" or "unreadable"
    apiKey,       \* there is a key on disk
    leftPols, leftZones, leftDns,    \* in the controller
    leftRules,    \* interfaces with UDAPI rules of the manager
    links,        \* wg-s2s interfaces
    entries,      \* prefixes whose ipset has the Tailscale network
    ipRules,      \* ip rules: <<family, table, priority>>
    masquerade,   \* families with the exit node's masquerade rule
    fingerprint,  \* DPI fingerprinting: "on", "off", or "none" on this device
    cleanAt,      \* steps of runCleanup still to do, or <<"done">>
    deletions,    \* what removeIntegrationResources still has to delete: sets, in order
    discovering,  \* it goes by the names, not by the manifest
    smooth,       \* history: no call of this run failed
    everSmooth,   \* history: no call of any run failed
    cleanRuns, cleanFaults

cleanVars == <<service, manifestFile, apiKey, leftPols, leftZones, leftDns, leftRules, links,
    entries, ipRules, masquerade, fingerprint, cleanAt, deletions, discovering, smooth, everSmooth,
    cleanRuns, cleanFaults>>

-----------------------------------------------------------------------------
(* What the manager left *)

WgLinks == {"wg-s2s0", "wg-s2s1"}
ExitTable == 53
ExitPrio == 5280..5300

policy(id, zs, ours, parent) == [id |-> id, zones |-> zs, ours |-> ours, parent |-> parent]

\* The manifest: two tunnels share a zone.
WanPolicies == {"wan"}
ZonePolicies == {"s2sIn", "s2sOut", "tsIn", "tsOut"}
DnsPolicies == {"dns"}
ManifestZones == {"s2s", "ts"}

\* Theirs, the one UniFi derived, one no manifest tells of, and another's.
PolicyObjects ==
    {policy("wan", {"gateway"}, TRUE, "none")}
    \cup {policy(id, {"s2s", "internal"}, TRUE, "none") : id \in {"s2sIn", "s2sOut"}}
    \cup {policy(id, {"ts", "internal"}, TRUE, "none") : id \in {"tsIn", "tsOut"}}
    \cup {policy("derived", {"ts", "internal"}, TRUE, "tsIn"),
          policy("stray", {"gateway"}, TRUE, "none"),
          policy("other", {"gateway", "internal"}, FALSE, "none")}

CleanupInit ==
    /\ service \in {"active", "inactive", "unknown"}
    /\ manifestFile \in {"whole", "corrupt", "gone", "unreadable"}
    /\ apiKey \in BOOLEAN
    /\ leftPols = PolicyObjects
    /\ leftZones = ManifestZones \cup {"gateway", "internal"}
    /\ leftDns = DnsPolicies
    /\ leftRules = WgLinks \cup {"tailscale0"} /\ links = WgLinks
    /\ entries = {"VPN", "CUSTOM1"}
    /\ ipRules = {<<4, ExitTable, 5280>>, <<6, ExitTable, 5280>>, <<4, ExitTable, 5270>>, <<4, 201, 5281>>}
    /\ masquerade = {4, 6} /\ fingerprint \in {"none", "off"}
    /\ cleanAt = <<"done">> /\ deletions = <<>> /\ discovering = FALSE
    /\ smooth = FALSE /\ everSmooth = TRUE
    /\ cleanRuns = 0 /\ cleanFaults = 0

-----------------------------------------------------------------------------
(* runCleanup *)

fine == UNCHANGED <<smooth, everSmooth, cleanFaults>>
fails ==
    /\ cleanFaults < MaxCleanFaults /\ cleanFaults' = cleanFaults + 1
    /\ smooth' = FALSE /\ everSmooth' = FALSE
at_(s) == Head(cleanAt) = s /\ cleanAt' = Tail(cleanAt)
onDevice == <<leftRules, links, entries, ipRules, masquerade, fingerprint>>
inController == <<leftPols, leftZones, leftDns>>
cleanStays == UNCHANGED <<service, apiKey, discovering, cleanRuns>>

\* Mutant: the interfaces go before the rules.
interfacesFirst == <<"tsRules", "links", "wgRules", "subnets", "exit", "resources", "dpi", "done">>
cleanupSteps == <<"tsRules", "wgRules", "links", "subnets", "exit", "resources", "dpi", "done">>

\* cleanupManagerActiveCheck: only "inactive" is taken for not active.
runCleanup ==
    /\ cleanAt = <<"done">> /\ cleanRuns < MaxCleanRuns /\ cleanRuns' = cleanRuns + 1
    /\ service = "inactive"
    /\ cleanAt' = cleanupSteps /\ smooth' = TRUE /\ discovering' = FALSE
    /\ UNCHANGED <<service, manifestFile, apiKey, inController, onDevice, deletions, everSmooth,
                   cleanFaults>>

\* Everything that goes is gone, or a failure leaves some of it (all of it
\* when it cannot be listed, or the 60 seconds are over).
bestEffort(left, goes_, leftNow) ==
    \/ fine /\ leftNow = left \ goes_
    \/ fails /\ \E gone \in SUBSET goes_ : gone # goes_ /\ leftNow = left \ gone

removeTailscaleUDAPIRules ==
    /\ at_("tsRules") /\ bestEffort(leftRules, {"tailscale0"}, leftRules')
    /\ cleanStays
    /\ UNCHANGED <<manifestFile, inController, links, entries, ipRules, masquerade, fingerprint, deletions>>

\* The interfaces there are say whose rules to remove.
removeWgS2sUDAPIRules ==
    /\ at_("wgRules")
    /\ bestEffort(leftRules, links, leftRules')
    /\ cleanStays
    /\ UNCHANGED <<manifestFile, inController, links, entries, ipRules, masquerade, fingerprint, deletions>>

removeWgS2sInterfaces ==
    /\ at_("links") /\ bestEffort(links, links, links')
    /\ cleanStays
    /\ UNCHANGED <<manifestFile, inController, leftRules, entries, ipRules, masquerade, fingerprint, deletions>>

\* A corrupt file is copied and left in place by LoadManifest, and counts as
\* an empty manifest, as does one that is not there.
removeSubnetsEntries ==
    /\ at_("subnets")
    /\ bestEffort(entries, {"VPN"} \cup (IF manifestFile = "whole" THEN {"CUSTOM1"} ELSE {}), entries')
    /\ cleanStays
    /\ UNCHANGED <<manifestFile, inController, leftRules, links, ipRules, masquerade, fingerprint, deletions>>

\* ip rule del names the priority alone, and no other rule has one of these.
removeExitNodeRules ==
    /\ at_("exit")
    /\ LET mine == {r \in ipRules : r[2] = ExitTable /\ r[3] \in ExitPrio}
       IN  \/ bestEffort(ipRules, mine, ipRules') /\ masquerade' = {}
           \/ bestEffort(masquerade, masquerade, masquerade') /\ ipRules' = ipRules \ mine
    /\ cleanStays
    /\ UNCHANGED <<manifestFile, inController, leftRules, links, entries, fingerprint, deletions>>

setDPIFingerprint ==
    /\ at_("dpi")
    /\ \/ fine /\ fingerprint' = (IF fingerprint = "none" THEN "none" ELSE "on")
       \/ fingerprint = "off" /\ fails /\ UNCHANGED fingerprint
    /\ cleanStays
    /\ UNCHANGED <<manifestFile, inController, leftRules, links, entries, ipRules, masquerade, deletions>>

-----------------------------------------------------------------------------
(* The controller *)

del(kind, ids) == <<{<<kind, id>> : id \in ids}>>

\* Mutant: the zones before the policies.
zonesFirst ==
    del("zone", ManifestZones) \o del("policy", WanPolicies \cup ZonePolicies \cup DnsPolicies)

\* By the manifest: WAN ports, zone policies and DNS policies through
\* DeletePolicy, then every zone once.
namedInManifest ==
    del("policy", WanPolicies \cup ZonePolicies \cup DnsPolicies) \o del("zone", ManifestZones)

\* Mutant: whatever the controller lists.
allThereIs == del("policy", {p.id : p \in leftPols}) \o del("zone", leftZones)

\* By the names: policies of ours that were not derived, then zones.
discovered_ ==
    del("policy", {p.id : p \in {q \in leftPols : q.ours /\ q.parent = "none"}})
    \o del("zone", leftZones \cap ManifestZones)

removeIntegrationResources ==
    /\ at_("resources")
    /\ discovering' = (apiKey /\ manifestFile # "whole")
    /\ \/ apiKey /\ manifestFile = "whole" /\ deletions' = namedInManifest /\ fine
       \/ apiKey /\ manifestFile # "whole" /\ deletions' = discovered_ /\ fine
       \/ /\ apiKey /\ manifestFile # "whole" /\ fails
          /\ deletions' \in {<<>>, <<discovered_[1]>>, <<discovered_[2]>>}
       \/ ~apiKey /\ deletions' = <<>> /\ fine
    /\ UNCHANGED <<service, manifestFile, apiKey, inController, onDevice, cleanRuns>>

\* deleteResourceBestEffort, of a firewall policy or a zone.  What is not
\* found counts as removed; after 30 seconds nothing more is.
deleteResourceBestEffort(kind, id) ==
    LET rest_ == Head(deletions) \ {<<kind, id>>}
        inUse == \E p \in leftPols : id \in p.zones
    IN  \/ /\ fine /\ deletions' = IF rest_ = {} THEN Tail(deletions) ELSE <<rest_>> \o Tail(deletions)
           /\ \/ /\ kind = "policy" /\ UNCHANGED leftZones
                 /\ leftPols' = {p \in leftPols : p.id # id /\ p.parent # id}
              \/ /\ kind = "zone" /\ UNCHANGED leftPols
                 /\ leftZones' = IF inUse THEN leftZones ELSE leftZones \ {id}
        \/ /\ fails /\ UNCHANGED <<leftPols, leftZones>>
           /\ deletions' \in {IF rest_ = {} THEN Tail(deletions) ELSE <<rest_>> \o Tail(deletions), <<>>}

deleteResource ==
    /\ deletions # <<>>
    /\ IF Head(deletions) = {}
       THEN deletions' = Tail(deletions) /\ fine /\ UNCHANGED <<leftPols, leftZones>>
       ELSE \E d \in Head(deletions) : deleteResourceBestEffort(d[1], d[2])
    /\ UNCHANGED <<service, manifestFile, apiKey, leftDns, onDevice, cleanAt, discovering, cleanRuns>>

CleanupNext ==
    \/ runCleanup \/ deleteResource
    \/ /\ deletions = <<>>
       /\ \/ removeTailscaleUDAPIRules \/ removeWgS2sUDAPIRules \/ removeWgS2sInterfaces
          \/ removeSubnetsEntries \/ removeExitNodeRules \/ removeIntegrationResources
          \/ setDPIFingerprint

CleanupSpec == CleanupInit /\ [][CleanupNext]_cleanVars

-----------------------------------------------------------------------------
(* Properties *)

cleaned == cleanAt = <<"done">> /\ deletions = <<>> /\ smooth

\* A run in which no call failed leaves no interface, no rule of tailscale0,
\* no exit node rule and no ipset entry the manifest tells of, whatever
\* earlier runs left half done; the rules of the tunnels are gone if no
\* earlier run failed, since they are found by their interface.
DeviceCleared ==
    cleaned =>
        /\ links = {} /\ masquerade = {} /\ fingerprint # "off"
        /\ "tailscale0" \notin leftRules /\ "VPN" \notin entries
        /\ manifestFile = "whole" => entries = {}
        /\ ipRules = {<<4, ExitTable, 5270>>, <<4, 201, 5281>>}
        /\ everSmooth => leftRules = {}

\* With a key, a run in which no call failed leaves no zone and no firewall
\* policy the manifest names, and without the manifest none of ours at all:
\* the policies go before the zones they name.
ControllerCleared ==
    cleaned /\ apiKey =>
        /\ leftZones \cap ManifestZones = {}
        /\ \A p \in leftPols : p.ours => ~discovering /\ p.id \notin WanPolicies \cup ZonePolicies

\* What is not the manager's stays: policies and zones of others.
OthersKept == "other" \in {p.id : p \in leftPols} /\ {"gateway", "internal"} \subseteq leftZones

\* As the changelog has it: a run in which no call failed, with a key and the
\* manifest, leaves no DNS forwarding policy (removeIntegrationResources).
DnsPoliciesGo == cleaned /\ apiKey /\ ~discovering => leftDns = {}
=============================================================================
