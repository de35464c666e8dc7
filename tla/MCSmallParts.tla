---------------------------- MODULE MCSmallParts ----------------------------
(***************************************************************************)
(* One instance of the manager's parts that share no state with each other.*)
(* "part" is the one that runs in a behaviour; the others rest in a state  *)
(* of theirs, so a property of a part speaks of the behaviours of that     *)
(* part.  Fairness is asked of the running part only.                      *)
(***************************************************************************)
EXTENDS ManifestFile, EventHub, LogRing, ChainOrder, NginxSnippet,
        UpdateCheck, VersionGate, SubnetCheck, WanPorts

VARIABLE part

req(relay, udp, dns) == [relay |-> relay, udp |-> udp, dns |-> dns]
Requests ==
    {req(-1, 1, "nil"), req(-1, 2, "nil"), req(1, 0, "nil"), req(2, 2, "nil"),
     req(0, 0, "nil"), req(-1, 0, "on"), req(-1, 0, "off"), req(2, 0, "on")}

VersionsAround == {<<9, 5>>, <<10, 0>>, <<10, 1>>, <<11, 0>>}

allVars == <<part, fileVars, hubVars, logVars, chainVars, ngVars, updVars,
             gateVars, subnetVars, wanVars>>

FileOff == visible = Absent /\ FileInit
LogOff == maxSize = 1 /\ LogInit
NgOff == dir = FALSE /\ NgInit
UpdOff == release = 0 /\ UpdInit
GateOff ==
    /\ installed = Unreadable /\ raw = Unreadable /\ earlyBoot = FALSE
    /\ gatePc = "serve" /\ attempts = 0
    /\ cancelled = FALSE /\ cancelledAt = <<"none", 0>>
SubnetOff == device = [p \in Place |-> NoNet] /\ pbr = FALSE /\ SubnetInit

Init ==
    /\ part \in {"file", "hub", "log", "chain", "nginx", "update", "gate", "subnet",
                "wan"}
    /\ IF part = "file" THEN FileInit ELSE FileOff
    /\ HubInit
    /\ IF part = "log" THEN LogInit ELSE LogOff
    /\ ChainInit
    /\ IF part = "nginx" THEN NgInit ELSE NgOff
    /\ IF part = "update" THEN UpdInit ELSE UpdOff
    /\ IF part = "gate" THEN GateInit ELSE GateOff
    /\ IF part = "subnet" THEN SubnetInit ELSE SubnetOff
    /\ WanInit

\* Only the named part moves.
FileRuns == part = "file" /\ UNCHANGED
    <<part, hubVars, logVars, chainVars, ngVars, updVars, gateVars, subnetVars, wanVars>>
HubRuns == part = "hub" /\ UNCHANGED
    <<part, fileVars, logVars, chainVars, ngVars, updVars, gateVars, subnetVars, wanVars>>
LogRuns == part = "log" /\ UNCHANGED
    <<part, fileVars, hubVars, chainVars, ngVars, updVars, gateVars, subnetVars, wanVars>>
ChainRuns == part = "chain" /\ UNCHANGED
    <<part, fileVars, hubVars, logVars, ngVars, updVars, gateVars, subnetVars, wanVars>>
NgRuns == part = "nginx" /\ UNCHANGED
    <<part, fileVars, hubVars, logVars, chainVars, updVars, gateVars, subnetVars, wanVars>>
UpdRuns == part = "update" /\ UNCHANGED
    <<part, fileVars, hubVars, logVars, chainVars, ngVars, gateVars, subnetVars, wanVars>>
GateRuns == part = "gate" /\ UNCHANGED
    <<part, fileVars, hubVars, logVars, chainVars, ngVars, updVars, subnetVars, wanVars>>
SubnetRuns == part = "subnet" /\ UNCHANGED
    <<part, fileVars, hubVars, logVars, chainVars, ngVars, updVars, gateVars, wanVars>>
WanRuns == part = "wan" /\ UNCHANGED
    <<part, fileVars, hubVars, logVars, chainVars, ngVars, updVars, gateVars, subnetVars>>

Next ==
    \/ FileRuns /\ FileNext
    \/ HubRuns /\ HubNext
    \/ LogRuns /\ LogNext
    \/ ChainRuns /\ ChainNext
    \/ NgRuns /\ NgNext
    \/ UpdRuns /\ UpdNext
    \/ GateRuns /\ GateNext
    \/ SubnetRuns /\ SubnetNext
    \/ WanRuns /\ WanNext

Spec ==
    /\ Init
    /\ [][Next]_allVars
    /\ WF_chainVars(part = "chain" /\ auditNext)
    /\ WF_chainVars(part = "chain" /\ cacheAges)
    /\ WF_chainVars(part = "chain" /\ (\E ok \in BOOLEAN : flightEnds(ok)))
    /\ WF_ngVars(part = "nginx" /\ ngWatcher)
    /\ WF_ngVars(part = "nginx" /\ nginxTick)
    /\ WF_gateVars(part = "gate" /\ gateNext)
=============================================================================
