------------------------------ MODULE WanPorts ------------------------------
(***************************************************************************)
(* The policies the manager keeps in the UniFi controller for one port or  *)
(* one domain: the WAN ports of the relay server and of tailscaled, and the*)
(* DNS forwarding of the tailnet's suffix (firewall.go), with the settings *)
(* request that moves them (service/settings.go), the boot sequence and    *)
(* the reconciliation that recreates what was deleted.                     *)
(*                                                                         *)
(* A goroutine is a queue of calls; every request to the controller is a   *)
(* step of its own, which may be refused, or be carried out and its answer *)
(* lost.  A policy's name stands for <<marker, port>>; the DNS policies    *)
(* are the ones of marker "dns", whose port is the domain.  Saving the     *)
(* manifest succeeds here.                                                 *)
(***************************************************************************)
EXTENDS Integers, Sequences, Functions

CONSTANTS
    Port,          \* ports, and domains; 0 is none
    BootPort,      \* tailscaled's port, and the tailnet's suffix, at first
    Request,       \* settings requests: [relay, udp, dns]
    MaxPolicyId,   \* bound: policies ever created
    MaxRequests,   \* bound: settings requests
    MaxWanFaults,  \* bound: failing calls
    MaxUpsets      \* bound: restarts, key changes, deletions by the admin

\* What validate lets through: a port for tailscaled; for the relay
\* server a port, or 0 for none.  -1 and 0 are fields left out.
ASSUME PortAssumption ==
    /\ Port \subseteq Nat \ {0} /\ BootPort \in Port
    /\ \A q \in Request : q.relay \in Port \cup {-1, 0} /\ q.udp \in Port \cup {0}

VARIABLES
    policies,    \* the controller's policies of the manager: [id, m, port]
    lastId,
    record,      \* Manifest.WanPorts and DNSPolicies: marker -> [id, port]
    zonesKnown,  \* ExternalZoneID and GatewayZoneID are in the manifest
    ready,       \* IntegrationReady
    setting,     \* marker -> the relay port of the prefs, tailscaled's port,
                 \*           the tailnet's suffix
    calls,       \* goroutine -> its calls to do, the head under way
    step,        \* goroutine -> step within the head call
    found,       \* goroutine -> policy id in hand
    snap,        \* the entries the reconciliation still works on
    serving,     \* the HTTP server is up
    raced,       \* history: two goroutines had the same marker in hand
    behind,      \* history: markers whose last change failed or was cut off
    loose,       \* history: policies whose entry was given up, or never made
    requests, wanFaults, upsets

wanVars == <<policies, lastId, record, zonesKnown, ready, setting, calls, step,
             found, snap, serving, raced, behind, loose, requests, wanFaults,
             upsets>>

Marker == {"relay", "wg", "dns"}
Routine == {"http", "bg"}
NoRecord == [id |-> 0, port |-> 0]
call(op, m, port) == [op |-> op, m |-> m, port |-> port, old |-> 0]

\* Run opens tailscaled's port, then starts the reconciliation and the server.
bootCalls(port) == <<call("open", "wg", port), call("reconcile", "none", 0)>>

WanInit ==
    /\ policies = {} /\ lastId = 0
    /\ record = [m \in Marker |-> NoRecord]
    /\ snap = record
    /\ zonesKnown = FALSE
    /\ ready = TRUE
    /\ setting = [relay |-> 0, wg |-> BootPort, dns |-> BootPort]
    /\ calls = [r \in Routine |-> IF r = "bg" THEN bootCalls(setting["wg"]) ELSE <<>>]
    /\ step = [r \in Routine |-> "start"]
    /\ found = [r \in Routine |-> 0]
    /\ serving = FALSE /\ raced = FALSE /\ behind = {} /\ loose = {}
    /\ requests = 0 /\ wanFaults = 0 /\ upsets = 0

-----------------------------------------------------------------------------
(* Calls *)

at(r, op, s) == calls[r] # <<>> /\ Head(calls[r]).op = op /\ step[r] = s
now(r) == Head(calls[r])

\* The markers a goroutine has in hand.
inHand(r) ==
    {c.m : c \in Range(calls[r])}
    \cup (IF \E c \in Range(calls[r]) : c.op \in {"keyDelete", "keyDrop"} THEN Marker ELSE {})
    \cup (IF at(r, "reconcile", "list") \/ \E c \in Range(calls[r]) : c.op = "recreate"
          THEN {m \in Marker : snap[m] # NoRecord} ELSE {})

\* The head call goes on with step s and the policy id in hand; or it ends,
\* and with it, after "abort", the whole request.
goOn(r, s, id) ==
    /\ step' = [step EXCEPT ![r] = s] /\ found' = [found EXCEPT ![r] = id]
    /\ UNCHANGED <<calls, serving>>
doNext(r, q) ==
    /\ calls' = [calls EXCEPT ![r] = q]
    /\ step' = [step EXCEPT ![r] = "start"] /\ found' = [found EXCEPT ![r] = 0]
    /\ serving' = (serving \/ (r = "bg" /\ now(r).op = "open"))
return(r) == doNext(r, Tail(calls[r]))
abort(r) == doNext(r, <<>>)
returnErr(r) == IF now(r).m = "dns" THEN abort(r) ELSE return(r)

noFault == UNCHANGED <<wanFaults, behind>>
faultOn(M) ==
    /\ wanFaults < MaxWanFaults /\ wanFaults' = wanFaults + 1
    /\ behind' = behind \cup M
fault(r) == faultOn({now(r).m})

controllerSame == UNCHANGED <<policies, lastId>>
named(m, port) == {p \in policies : p.m = m /\ p.port = port}

\* What a call of a goroutine leaves alone besides.
context == UNCHANGED <<ready, setting, snap, requests, upsets>>
others == context /\ UNCHANGED loose

-----------------------------------------------------------------------------
(* OpenWanPort, and EnsureDNSForwarding *)

openStart(r) ==
    /\ at(r, "open", "start")
    /\ IF ~ready \/ record[now(r).m].id # 0 THEN return(r)
       ELSE goOn(r, IF zonesKnown THEN "list" ELSE "zones", 0)
    /\ noFault /\ controllerSame /\ others /\ UNCHANGED <<record, zonesKnown>>

\* resolveSystemZones
resolveSystemZones(r) ==
    /\ at(r, "open", "zones")
    /\ \/ zonesKnown' = TRUE /\ goOn(r, "list", 0) /\ noFault
       \/ UNCHANGED zonesKnown /\ return(r) /\ fault(r)
    /\ controllerSame /\ others /\ UNCHANGED record

\* The entry of another domain goes first, whatever the controller answers.
dnsStart(r) ==
    /\ at(r, "dnsOn", "start")
    /\ LET e == record["dns"]
           known == now(r).port # 0
       IN  \/ /\ ~ready \/ ~known
              /\ abort(r) /\ noFault /\ controllerSame /\ UNCHANGED <<record, loose>>
           \/ /\ ready /\ known /\ e # NoRecord /\ e.port = now(r).port
              /\ return(r) /\ noFault /\ controllerSame /\ UNCHANGED <<record, loose>>
           \/ /\ ready /\ known /\ e = NoRecord
              /\ goOn(r, "list", 0) /\ noFault /\ controllerSame /\ UNCHANGED <<record, loose>>
           \/ /\ ready /\ known /\ e # NoRecord /\ e.port # now(r).port
              /\ goOn(r, "list", 0)
              /\ record' = [record EXCEPT !["dns"] = NoRecord]
              /\ \/ policies' = {p \in policies : p.id # e.id} /\ noFault /\ UNCHANGED loose
                 \/ UNCHANGED policies /\ fault(r) /\ loose' = loose \cup {e.id}
              /\ UNCHANGED lastId
    /\ context /\ UNCHANGED zonesKnown

\* Mutant: the name is compared without the marker.
findByPort(r) ==
    /\ at(r, "open", "list") \/ at(r, "dnsOn", "list")
    /\ LET same == {p \in policies : p.port = now(r).port}
       IN  \/ \E p \in same : goOn(r, "save", p.id) /\ noFault
           \/ same = {} /\ goOn(r, "create", 0) /\ noFault
           \/ returnErr(r) /\ fault(r)
    /\ controllerSame /\ others /\ UNCHANGED <<record, zonesKnown>>

\* Mutant: a policy is created without looking for one of its name.
findNothing(r) ==
    /\ at(r, "open", "list") \/ at(r, "dnsOn", "list")
    /\ goOn(r, "create", 0) /\ noFault
    /\ controllerSame /\ others /\ UNCHANGED <<record, zonesKnown>>

\* EnsureWanPortPolicy, EnsureDNSForwardDomain: the policies are listed and
\* one of the right name is adopted.
findExisting(r) ==
    /\ at(r, "open", "list") \/ at(r, "dnsOn", "list")
    /\ LET same == named(now(r).m, now(r).port)
       IN  \/ \E p \in same : goOn(r, "save", p.id) /\ noFault
           \/ same = {} /\ goOn(r, "create", 0) /\ noFault
           \/ returnErr(r) /\ fault(r)
    /\ controllerSame /\ others /\ UNCHANGED <<record, zonesKnown>>

\* CreatePolicy, CreateDNSPolicy: done, refused, or done and the answer lost.
create(r) ==
    /\ at(r, "open", "create") \/ at(r, "dnsOn", "create")
    /\ lastId < MaxPolicyId
    /\ LET created ==
              /\ lastId' = lastId + 1
              /\ policies' = policies \cup
                     {[id |-> lastId + 1, m |-> now(r).m, port |-> now(r).port]}
       IN  \/ created /\ goOn(r, "save", lastId + 1) /\ noFault /\ UNCHANGED loose
           \/ created /\ returnErr(r) /\ fault(r) /\ loose' = loose \cup {lastId + 1}
           \/ controllerSame /\ returnErr(r) /\ fault(r) /\ UNCHANGED loose
    /\ context /\ UNCHANGED <<record, zonesKnown>>

\* SetWanPort, SetDNSPolicy
saveEntry(r) ==
    /\ at(r, "open", "save") \/ at(r, "dnsOn", "save")
    /\ record' = [record EXCEPT ![now(r).m] = [id |-> found[r], port |-> now(r).port]]
    /\ return(r) /\ noFault /\ controllerSame /\ others /\ UNCHANGED zonesKnown

-----------------------------------------------------------------------------
(* CloseWanPort, RemoveDNSForwarding, and the reconciliation *)

closeStart(r) ==
    /\ at(r, "close", "start")
    /\ IF ~ready \/ record[now(r).m].id = 0 THEN return(r)
       ELSE goOn(r, "delete", record[now(r).m].id)
    /\ noFault /\ controllerSame /\ others /\ UNCHANGED <<record, zonesKnown>>

\* Mutant: the entry goes although the controller kept the policy.
deleteForgets(r) ==
    /\ at(r, "close", "delete")
    /\ \/ policies' = {p \in policies : p.id # found[r]} /\ noFault
       \/ UNCHANGED policies /\ fault(r)
    /\ goOn(r, "forget", found[r])
    /\ others /\ UNCHANGED <<lastId, record, zonesKnown>>

\* DeletePolicy: a policy that is not there counts as deleted; on any other
\* error the entry stays.
deletePolicy(r) ==
    /\ at(r, "close", "delete")
    /\ LET gone == policies' = {p \in policies : p.id # found[r]}
       IN  \/ gone /\ goOn(r, "forget", found[r]) /\ noFault
           \/ gone /\ return(r) /\ fault(r)
           \/ UNCHANGED policies /\ return(r) /\ fault(r)
    /\ others /\ UNCHANGED <<lastId, record, zonesKnown>>

\* RemoveWanPort
forget(r) ==
    /\ at(r, "close", "forget")
    /\ record' = [record EXCEPT ![now(r).m] = NoRecord]
    /\ return(r) /\ noFault /\ controllerSame /\ others /\ UNCHANGED zonesKnown

\* RemoveDNSForwarding: the entry goes whatever the controller answers.
dnsOff(r) ==
    /\ at(r, "dnsOff", "start")
    /\ record' = [record EXCEPT !["dns"] = NoRecord]
    /\ \/ /\ ready
          /\ policies' = {p \in policies : p.id # record["dns"].id}
          /\ noFault /\ UNCHANGED loose
       \/ /\ UNCHANGED policies /\ loose' = loose \cup ({record["dns"].id} \ {0})
          /\ \/ ready /\ record["dns"] # NoRecord /\ fault(r)
             \/ ~ready /\ noFault
    /\ return(r) /\ context /\ UNCHANGED <<lastId, zonesKnown>>

\* reconcileWanPortPolicies: the snapshot, then the list of the policies.
reconcileSnapshot(r) ==
    /\ at(r, "reconcile", "start")
    /\ snap' = [record EXCEPT !["dns"] = NoRecord]
    /\ IF snap' = [m \in Marker |-> NoRecord] THEN return(r) ELSE goOn(r, "list", 0)
    /\ noFault /\ controllerSame
    /\ UNCHANGED <<record, zonesKnown, ready, setting, loose, requests, upsets>>

reconcileList(r) ==
    /\ at(r, "reconcile", "list")
    /\ \/ /\ snap' = [m \in Marker |->
                         IF \E p \in policies : p.id = snap[m].id THEN NoRecord ELSE snap[m]]
          /\ doNext(r, <<call("recreate", "none", 0)>> \o Tail(calls[r])) /\ noFault
       \/ UNCHANGED snap /\ return(r) /\ fault(r)
    /\ controllerSame
    /\ UNCHANGED <<record, zonesKnown, ready, setting, loose, requests, upsets>>

\* The missing ones, in any order: RemoveWanPort, then OpenWanPort.
recreate(r) ==
    /\ at(r, "recreate", "start")
    /\ \/ (\A m \in Marker : snap[m] = NoRecord) /\ return(r) /\ UNCHANGED <<record, snap>>
       \/ \E m \in Marker :
             /\ snap[m] # NoRecord
             /\ record' = [record EXCEPT ![m] = NoRecord] /\ snap' = [snap EXCEPT ![m] = NoRecord]
             /\ doNext(r, <<call("open", m, snap[m].port)>> \o calls[r])
    /\ noFault /\ controllerSame
    /\ UNCHANGED <<zonesKnown, ready, setting, loose, requests, upsets>>

-----------------------------------------------------------------------------
(* SetSettings *)

swap(old, new, m) ==
    (IF old > 0 THEN <<call("close", m, old)>> ELSE <<>>)
    \o (IF new > 0 THEN <<call("open", m, new)>> ELSE <<>>)

\* fetchPreEditPrefs and EditPrefs: the relay port before the edit is the
\* one to close; tailscaled may refuse, which ends the request.
editPrefs(r) ==
    /\ at(r, "prefs", "start")
    /\ LET c == now(r)
           old == setting["relay"]
       IN  \/ /\ setting' = IF c.m = "relay" THEN [setting EXCEPT !["relay"] = c.port] ELSE setting
              /\ doNext(r, [i \in 1..(Len(calls[r]) - 1) |->
                               IF calls[r][i + 1].op = "swapRelay"
                               THEN [calls[r][i + 1] EXCEPT !.old = old] ELSE calls[r][i + 1]])
              /\ noFault
           \/ UNCHANGED setting /\ abort(r) /\ faultOn({})
    /\ controllerSame /\ UNCHANGED <<record, zonesKnown, ready, snap, loose, requests, upsets>>

\* applyUDPPortChange: the file that tailscaled starts from, when it changes.
applyUDPPortChange(r) ==
    /\ at(r, "portFile", "start")
    /\ \/ setting' = [setting EXCEPT !["wg"] = now(r).port] /\ return(r) /\ noFault
       \/ UNCHANGED setting /\ setting["wg"] # now(r).port /\ abort(r)
          /\ faultOn(inHand(r) \ {"wg"})
    /\ controllerSame /\ UNCHANGED <<record, zonesKnown, ready, snap, loose, requests, upsets>>

\* Without a key the rules are not touched, and nothing does it later;
\* tailscaled's entry is brought up to date from whatever it was.
swapping(r) ==
    /\ behind' = IF ~ready THEN behind \cup {now(r).m}
                 ELSE IF now(r).op = "swapWg" THEN behind \ {"wg"} ELSE behind
    /\ UNCHANGED wanFaults

\* updateRelayPortRules, with the port the preferences had before.
updateRelayPortRules(r) ==
    /\ at(r, "swapRelay", "start")
    /\ doNext(r, (IF ready THEN swap(now(r).old, now(r).port, "relay") ELSE <<>>) \o Tail(calls[r]))
    /\ swapping(r) /\ controllerSame /\ others /\ UNCHANGED <<record, zonesKnown>>

\* Mutant: the port to close is the one tailscaled starts from, which the
\* request has just changed.
swapFromFile(r) ==
    /\ at(r, "swapWg", "start")
    /\ doNext(r, (IF ready /\ setting["wg"] # now(r).port
                  THEN swap(setting["wg"], now(r).port, "wg") ELSE <<>>) \o Tail(calls[r]))
    /\ noFault /\ controllerSame /\ others /\ UNCHANGED <<record, zonesKnown>>

\* updateTailscaleWgPortRules, with the port the manifest has.
updateTailscaleWgPortRules(r) ==
    /\ at(r, "swapWg", "start")
    /\ doNext(r, (IF ready /\ record["wg"].port # now(r).port
                  THEN swap(record["wg"].port, now(r).port, "wg") ELSE <<>>) \o Tail(calls[r]))
    /\ swapping(r) /\ controllerSame /\ others /\ UNCHANGED <<record, zonesKnown>>

\* The key goes.  DeleteKey keeps the manifest, handleAPIKeyExpiry resets it
\* (ResetIntegration).
keyGoes(r) ==
    /\ at(r, "keyDelete", "start")
    /\ ready' = FALSE
    /\ return(r) /\ noFault /\ controllerSame
    /\ UNCHANGED <<record, zonesKnown, setting, snap, loose, requests, upsets>>
resetIntegration(r) ==
    /\ at(r, "keyDrop", "start")
    /\ ready' = FALSE /\ zonesKnown' = FALSE
    /\ record' = [m \in Marker |-> NoRecord]
    /\ loose' = loose \cup ({record[m].id : m \in Marker} \ {0})
    /\ return(r) /\ noFault /\ controllerSame
    /\ UNCHANGED <<setting, snap, requests, upsets>>

callStep(r) ==
    \/ openStart(r) \/ resolveSystemZones(r) \/ dnsStart(r) \/ findExisting(r)
    \/ create(r) \/ saveEntry(r) \/ closeStart(r) \/ deletePolicy(r) \/ forget(r)
    \/ dnsOff(r) \/ reconcileSnapshot(r) \/ reconcileList(r) \/ recreate(r)
    \/ editPrefs(r) \/ applyUDPPortChange(r) \/ updateRelayPortRules(r)
    \/ updateTailscaleWgPortRules(r) \/ keyGoes(r) \/ resetIntegration(r)

-----------------------------------------------------------------------------
(* What starts the calls *)

starts(r, q) ==
    /\ serving /\ calls[r] = <<>>
    /\ calls' = [calls EXCEPT ![r] = q]
    /\ UNCHANGED <<policies, lastId, record, zonesKnown, ready, setting, step,
                   found, snap, serving, loose, wanFaults>>
opt(present, c) == IF present THEN <<c>> ELSE <<>>

\* SetSettings: relay -1, udp 0 and dns "nil" are fields left out.  Whether
\* a port is free is not looked at: every port may be accepted.
SetSettings(relay, udp, dns) ==
    /\ requests < MaxRequests /\ requests' = requests + 1
    /\ dns = "on" => ready
    /\ starts("http",
           opt(dns = "on", call("dnsOn", "dns", setting["dns"]))
           \o opt(dns = "off", call("dnsOff", "dns", 0))
           \o <<IF relay = -1 THEN call("prefs", "none", 0) ELSE call("prefs", "relay", relay)>>
           \o opt(udp # 0, call("portFile", "wg", udp))
           \o opt(relay # -1, call("swapRelay", "relay", relay))
           \o opt(udp # 0, call("swapWg", "wg", udp)))
    /\ UNCHANGED <<behind, upsets>>

upset == upsets < MaxUpsets /\ upsets' = upsets + 1 /\ UNCHANGED requests

\* DeleteKey with OnBeforeKeyDelete; handleAPIKeyExpiry; OnKeyConfigured and
\* the watcher, which open tailscaled's port (openTailscaleWanPort).
DeleteKey ==
    /\ upset /\ ready
    /\ starts("http", <<call("dnsOff", "dns", 0), call("keyDelete", "none", 0)>>)
    /\ UNCHANGED behind
handleAPIKeyExpiry ==
    /\ upset /\ ready
    /\ starts("bg", <<call("keyDrop", "none", 0)>>)
    /\ UNCHANGED behind
SetKey ==
    /\ upset /\ serving /\ calls["http"] = <<>>
    /\ ready' = TRUE
    /\ calls' = [calls EXCEPT !["http"] = <<call("open", "wg", setting["wg"])>>]
    /\ UNCHANGED <<policies, lastId, record, zonesKnown, setting, step, found,
                   snap, serving, wanFaults, behind, loose>>
openTailscaleWanPort ==
    /\ upset /\ ready
    /\ starts("bg", <<call("open", "wg", setting["wg"])>>)
    /\ UNCHANGED behind

\* A crash, and Run again.
restart ==
    /\ upset
    /\ calls' = [r \in Routine |-> IF r = "bg" /\ ready THEN bootCalls(setting["wg"]) ELSE <<>>]
    /\ step' = [r \in Routine |-> "start"] /\ found' = [r \in Routine |-> 0]
    /\ serving' = ~ready
    /\ behind' = behind \cup (Marker \cap (inHand("http") \cup inHand("bg")))
    /\ loose' = loose \cup ({found[r] : r \in Routine} \ {0})
    /\ UNCHANGED <<policies, lastId, record, zonesKnown, ready, setting, snap, wanFaults>>

\* The administrator deletes a policy; the node joins another tailnet.
adminDeletes ==
    /\ upset
    /\ \E p \in policies : policies' = policies \ {p}
    /\ UNCHANGED <<lastId, record, zonesKnown, ready, setting, calls, step, found,
                   snap, serving, wanFaults, behind, loose>>
relogin ==
    /\ upset
    /\ \E d \in (Port \cup {0}) \ {setting["dns"]} : setting' = [setting EXCEPT !["dns"] = d]
    /\ UNCHANGED <<policies, lastId, record, zonesKnown, ready, calls, step, found,
                   snap, serving, wanFaults, behind, loose>>

WanStep ==
    \/ \E r \in Routine : callStep(r)
    \/ \E q \in Request : SetSettings(q.relay, q.udp, q.dns)
    \/ DeleteKey \/ handleAPIKeyExpiry \/ SetKey \/ openTailscaleWanPort
    \/ restart \/ adminDeletes \/ relogin

WanNext ==
    /\ WanStep
    /\ raced' = (raced \/ ((inHand("http") \cap inHand("bg") \cap Marker) # {})')

WanSpec == WanInit /\ [][WanNext]_wanVars

-----------------------------------------------------------------------------
(* Properties *)

\* However the calls are retried, cut off by a restart or answered by an
\* error after they were carried out, there is one policy of a name: the
\* next call for it adopts it.  Two goroutines with the same marker in hand
\* are outside of this, since each may list before the other creates.
OnePolicyPerName == ~raced => \A p \in policies : named(p.m, p.port) = {p}

\* An entry of the manifest never points to the policy of another marker or
\* another port, which closing it would delete.
EntryNamesItsPolicy ==
    \A m \in Marker, p \in policies : p.id = record[m].id => p.m = m /\ p.port = record[m].port

\* Once a settings request is over, the port opened on the WAN side is the
\* port set: for tailscaled also after a failed request, once a later one
\* with a port went through; for the relay server unless a call failed, or
\* the port was changed while there was no key.
PolicyFollowsSetting ==
    ~raced /\ calls["http"] = <<>> /\ calls["bg"] = <<>> =>
        \A m \in {"relay", "wg"} \ behind : record[m].id # 0 => record[m].port = setting[m]

\* No policy is lost sight of: at rest, one that no entry points to is one
\* whose creation was not answered or not recorded before a crash, or whose
\* entry was given up with the key or the DNS setting.  A WAN port that the
\* controller refuses to delete keeps its entry.
NoPolicyLost ==
    ~raced /\ calls["http"] = <<>> /\ calls["bg"] = <<>> =>
        \A p \in policies : record[p.m].id = p.id \/ p.id \in loose
=============================================================================
