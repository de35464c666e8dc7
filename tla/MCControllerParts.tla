-------------------------- MODULE MCControllerParts -------------------------
(***************************************************************************)
(* One instance of two parts that work on the controller: the Tailscale    *)
(* zone with the API key, and --cleanup.                                   *)
(* "part" is the one that runs in a behaviour; the other rests in an       *)
(* initial state of its own.  Fairness is asked of the first only.         *)
(***************************************************************************)
EXTENDS Integration, Cleanup

VARIABLE part

allVars == <<part, integrationVars, cleanVars>>

IntegrationOff == key = 0 /\ IntegrationInit
CleanupOff ==
    /\ service = "active" /\ manifestFile = "whole" /\ apiKey = FALSE /\ fingerprint = "none"
    /\ CleanupInit

Init ==
    /\ part \in {"integration", "cleanup"}
    /\ IF part = "integration" THEN IntegrationInit ELSE IntegrationOff
    /\ IF part = "cleanup" THEN CleanupInit ELSE CleanupOff

IntegrationRuns == part = "integration" /\ UNCHANGED <<part, cleanVars>>
CleanupRuns == part = "cleanup" /\ UNCHANGED <<part, integrationVars>>

Next ==
    \/ IntegrationRuns /\ IntegrationNext
    \/ CleanupRuns /\ CleanupNext

Spec ==
    /\ Init
    /\ [][Next]_allVars
    /\ WF_(ipc["fw"])(part = "integration" /\ fwStep)
    /\ WF_(ipc["refresh"])(part = "integration" /\ refreshStep)
    /\ WF_(ipc["user"])(part = "integration" /\ userStep)
    /\ WF_(ipc["bg"])(part = "integration" /\ bgStep)
    /\ WF_(waited)(part = "integration" /\ retryComesDue)
    /\ WF_(zoneList)(part = "integration" /\ zoneListGetsOld)
=============================================================================
