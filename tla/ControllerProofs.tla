-------------------------- MODULE ControllerProofs --------------------------
(***************************************************************************)
(* Proofs about the two parts that work on the controller: the Tailscale   *)
(* zone with the API key, and --cleanup.                                   *)
(***************************************************************************)
EXTENDS Integration, Cleanup, FiniteSetTheorems, SequenceTheorems, TLAPS

-----------------------------------------------------------------------------
(* The Tailscale zone.  Whoever sets it up holds the CAS, so the list that *)
(* was empty when it decided to create a zone is empty when it does.       *)

SettingUp == {"list", "create", "policies", "rollback", "save", "migrate", "rules"}

ZoneInv ==
    /\ DOMAIN ipc = Goroutine
    /\ IsFiniteSet(tsZones)
    /\ \A g \in Goroutine : ipc[g] \in SettingUp => restoring = g
    /\ ~oldZones => Cardinality(tsZones) <= 1
    /\ ~oldZones /\ (\E g \in Goroutine : ipc[g] = "create") => tsZones = {}

(* A step of a goroutine that keeps to the CAS, creates no zone and does   *)
(* not decide to create one.                                               *)
LEMMA ZoneQuiet ==
    ASSUME ZoneInv, NEW g \in Goroutine, NEW p,
           ipc' = [ipc EXCEPT ![g] = p], p # "create",
           p \in SettingUp => restoring' = g,
           restoring' = restoring \/ restoring \in {"none", g},
           tsZones' \subseteq tsZones, oldZones => oldZones'
    PROVE  ZoneInv'
<1>1. DOMAIN ipc' = Goroutine /\ ipc'[g] = p /\ \A h \in Goroutine : h # g => ipc'[h] = ipc[h]
  BY DEF ZoneInv
<1>2. \A h \in Goroutine : ipc'[h] \in SettingUp => restoring' = h
  BY <1>1 DEF ZoneInv, Goroutine
<1>3. IsFiniteSet(tsZones') /\ Cardinality(tsZones') <= Cardinality(tsZones)
  BY FS_Subset DEF ZoneInv
<1>4. Cardinality(tsZones) \in Nat /\ Cardinality(tsZones') \in Nat
  BY <1>3, FS_CardinalityType DEF ZoneInv
<1>5. ~oldZones' => Cardinality(tsZones') <= 1
  BY <1>3, <1>4 DEF ZoneInv
<1>6. ~oldZones' /\ (\E h \in Goroutine : ipc'[h] = "create") => tsZones' = {}
  BY <1>1 DEF ZoneInv
<1> QED
  BY <1>1, <1>2, <1>3, <1>5, <1>6 DEF ZoneInv

(* A step of nobody. *)
LEMMA ZoneStill ==
    ASSUME ZoneInv, UNCHANGED <<ipc, restoring, oldZones>>, tsZones' \subseteq tsZones
    PROVE  ZoneInv'
<1>1. IsFiniteSet(tsZones') /\ Cardinality(tsZones') <= Cardinality(tsZones)
  BY FS_Subset DEF ZoneInv
<1>2. Cardinality(tsZones) \in Nat /\ Cardinality(tsZones') \in Nat
  BY <1>1, FS_CardinalityType DEF ZoneInv
<1>3. ~oldZones' => Cardinality(tsZones') <= 1
  BY <1>1, <1>2 DEF ZoneInv
<1> QED
  BY <1>1, <1>3 DEF ZoneInv

(* What refreshTick does about a status. *)
LEMMA ReturnedIs ==
    ASSUME NEW g, NEW w, NEW st, returned(g, w, st)
    PROVE  \E p \in {"expiry", "repair", "idle"} :
             /\ ipc' = [ipc EXCEPT ![g] = p]
             /\ p = "expiry" => st = "expired"
             /\ p # "idle" => held' = [held EXCEPT ![g] = st]
             /\ p = "idle" => held' = [held EXCEPT ![g] = "-"]
<1>1. CASE st = "expired" /\ w = "first"
  BY Zenon, <1>1 DEF returned, go
<1>2. CASE st = "zbf" /\ w \in {"first", "second"} /\ policiesMissing
  BY Zenon, <1>2 DEF returned, go
<1>3. CASE /\ ~(st = "expired" /\ w = "first")
           /\ ~(st = "zbf" /\ w \in {"first", "second"} /\ policiesMissing)
  BY Zenon, <1>3 DEF returned, rest, go
<1> QED
  BY <1>1, <1>2, <1>3

(* Every step of a set-up keeps the zone single. *)
LEMMA ZoneSetUp ==
    ASSUME ZoneInv, NEW g \in Goroutine, setUpStep(g)
    PROVE  ZoneInv'
<1> USE DEF goTo, go, setUpDone, setupStays
<1>0. UNCHANGED restoring /\ (ipc[g] \in SettingUp => restoring = g)
  BY DEF setUpStep, listZones, createZone, ensurePolicies, rollbackTsZone, SetTailscaleZone,
     migrateRules, applyRules, ZoneInv
<1>1. CASE listZones(g)
  <2>0. oldZones => oldZones'
    BY Zenon, <1>1 DEF listZones
  <2>1. ipc[g] = "list" /\ UNCHANGED tsZones /\ restoring = g /\ (oldZones => oldZones')
    BY <1>0, <1>1, <2>0 DEF listZones, SettingUp
  <2>2. PICK p \in {"create", "policies", "setUp"} :
           /\ ipc' = [ipc EXCEPT ![g] = p]
           /\ p = "create" /\ ~oldZones' => tsZones = {}
    BY ZenonT(60), <1>1 DEF listZones
  <2>3. CASE p # "create"
    BY ZenonT(60), <1>0, <2>1, <2>2, <2>3, ZoneQuiet
  <2>4. CASE p = "create"
    <3>1. \A h \in Goroutine : ipc'[h] \in SettingUp => restoring' = h
      BY <1>0, <2>1, <2>2, <2>4 DEF ZoneInv
    <3>2. ~oldZones' => ~oldZones /\ tsZones' = {}
      BY <2>1, <2>2, <2>4
    <3> QED
      BY <2>1, <2>2, <3>1, <3>2 DEF ZoneInv
  <2> QED
    BY <2>3, <2>4
<1>2. CASE createZone(g)
  <2>1. ipc[g] = "create" /\ UNCHANGED oldZones /\ restoring = g
    BY <1>0, <1>2 DEF createZone, SettingUp
  <2>2. CASE UNCHANGED tsZones /\ ipc' = [ipc EXCEPT ![g] = "setUp"]
    BY ZenonT(60), <1>0, <2>1, <2>2, ZoneQuiet DEF SettingUp
  <2>3. CASE tsZones' = tsZones \cup {lastTsZone'} /\ ipc' = [ipc EXCEPT ![g] = "policies"]
    <3>1. DOMAIN ipc' = Goroutine /\ \A h \in Goroutine : ipc'[h] \in SettingUp => restoring' = h
      BY <1>0, <2>1, <2>3 DEF ZoneInv
    <3>2. \A h \in Goroutine : ipc'[h] # "create"
      BY <2>1, <2>3, <3>1 DEF ZoneInv, Goroutine, SettingUp
    <3>3. IsFiniteSet(tsZones')
      BY <2>3, FS_AddElement DEF ZoneInv
    <3>4. ~oldZones' => tsZones' = {lastTsZone'}
      BY <2>1, <2>3 DEF ZoneInv
    <3>5. Cardinality({lastTsZone'}) = 1
      BY Zenon, FS_Singleton
    <3>6. ~oldZones' => Cardinality(tsZones') <= 1
      BY <3>4, <3>5
    <3> QED
      BY <3>1, <3>2, <3>3, <3>6 DEF ZoneInv
  <2> QED
    BY <1>2, <2>2, <2>3 DEF createZone
<1>3. CASE ensurePolicies(g) \/ SetTailscaleZone(g)
  <2>1. PICK p \in {"save", "rollback", "migrate"} : ipc' = [ipc EXCEPT ![g] = p]
    BY ZenonT(60), <1>3 DEF ensurePolicies, SetTailscaleZone
  <2>2. UNCHANGED <<tsZones, oldZones>> /\ restoring = g
    BY <1>0, <1>3 DEF ensurePolicies, SetTailscaleZone, SettingUp
  <2> QED
    BY ZenonT(60), <1>0, <2>1, <2>2, ZoneQuiet
<1>4. CASE rollbackTsZone(g) \/ migrateRules(g) \/ applyRules(g)
  <2>1. PICK p \in {"setUp", "rules"} : ipc' = [ipc EXCEPT ![g] = p]
    BY ZenonT(60), <1>4 DEF rollbackTsZone, migrateRules, applyRules
  <2>2. tsZones' \subseteq tsZones /\ UNCHANGED oldZones /\ restoring = g
    BY <1>0, <1>4 DEF rollbackTsZone, migrateRules, applyRules, SettingUp
  <2> QED
    BY ZenonT(60), <1>0, <2>1, <2>2, ZoneQuiet
<1> QED
  BY ZenonT(60), <1>1, <1>2, <1>3, <1>4 DEF setUpStep

(* Every step keeps the zone single. *)
LEMMA ZoneStep ==
    ASSUME ZoneInv, [IntegrationNext]_integrationVars
    PROVE  ZoneInv'
<1> USE DEF goTo, go, rest, SettingUp
<1>1. CASE UNCHANGED integrationVars
  BY <1>1, ZoneStill DEF integrationVars
<1>2. CASE \E g \in {"fw", "refresh", "user"} : setUpStep(g)
  BY <1>2, ZoneSetUp DEF Goroutine
<1>3. CASE validateIntegration
  BY ZenonT(60), <1>3, ZoneQuiet DEF validateIntegration, remotePart, countPart, Goroutine
<1>4. CASE boot
  BY <1>4, ZoneQuiet DEF boot, remotePart, countPart, Goroutine, guardedSetup
<1>5. CASE checkAndRestoreRules
  BY <1>5, ZoneQuiet DEF checkAndRestoreRules, remotePart, countPart, Goroutine, guardedSetup
<1>6. CASE fwSetUpDone
  BY <1>6, ZoneQuiet DEF fwSetUpDone, remotePart, countPart, Goroutine, release
<1>7. CASE restoreTailscaleRules
  BY <1>7, ZoneQuiet
     DEF restoreTailscaleRules, restorePrefix, remotePart, countPart, Goroutine, release
<1>8. CASE ensureRules
  BY ZenonT(60), <1>8, ZoneQuiet DEF ensureRules, remotePart, countPart, Goroutine, release
<1>9. CASE reapplyOnSIGHUP
  BY <1>9, ZoneQuiet, ZoneStill
     DEF reapplyOnSIGHUP, remotePart, countPart, Goroutine, guardedSetup
<1>10. CASE restoreInBackground
  BY <1>10, ZoneQuiet DEF restoreInBackground, restorePrefix, remotePart, countPart, Goroutine
<1>11. ASSUME NEW g \in Goroutine, NEW w, GetStatus(g, w),
              UNCHANGED <<restoring, tsZones, oldZones>>
       PROVE  ZoneInv'
  <2>1. PICK p \in {"cache", "expiry", "repair", "idle"} : ipc' = [ipc EXCEPT ![g] = p]
    BY Zenon, <1>11, ReturnedIs DEF GetStatus
  <2> QED
    BY ZenonT(60), <1>11, <2>1, ZoneQuiet
<1>12. CASE refreshTick \/ askAgain
  BY <1>11, <1>12 DEF refreshTick, askAgain, refreshStays, remotePart, Goroutine
<1>13. CASE handleIntegrationStatus
  BY <1>11, <1>13 DEF handleIntegrationStatus, userStays, remotePart, Goroutine
<1>14. CASE \E g \in Goroutine : cacheStatus(g)
  <2>1. PICK g \in Goroutine : cacheStatus(g)
    BY <1>14
  <2>2. PICK p \in {"expiry", "repair", "idle"} : ipc' = [ipc EXCEPT ![g] = p]
    BY Zenon, <2>1, ReturnedIs DEF cacheStatus
  <2> QED
    BY ZenonT(60), <2>1, <2>2, ZoneQuiet DEF cacheStatus, remotePart, countPart
<1>15. CASE clearKey \/ clearKeyFile
  BY <1>15, ZoneQuiet DEF clearKey, clearKeyFile, refreshStays, remotePart, Goroutine
<1>16. CASE repairMissingPolicies
  BY <1>16, ZoneQuiet
     DEF repairMissingPolicies, refreshStays, remotePart, Goroutine, guardedSetup
<1>24. CASE repairDone
  <2>1. /\ ipc' = [ipc EXCEPT !["refresh"] = "ask"] /\ release("refresh")
        /\ UNCHANGED <<tsZones, oldZones>>
    BY Zenon, <1>24 DEF repairDone, refreshStays, remotePart
  <2> QED
    BY ZenonT(60), <2>1, ZoneQuiet DEF release, Goroutine
<1>17. CASE \E k \in accepted \cup {BadKey} : SetAPIKey(k)
  <2>1. ipc' = [ipc EXCEPT !["user"] = "check"] /\ UNCHANGED <<restoring, tsZones, oldZones>>
    BY Zenon, <1>17 DEF SetAPIKey, userStays, remotePart
  <2> QED
    BY ZenonT(60), <2>1, ZoneQuiet DEF Goroutine
<1>18. CASE validateKey \/ saveAPIKey
  BY <1>18, ZoneQuiet DEF validateKey, saveAPIKey, userStays, remotePart, Goroutine
<1>19. CASE siteAndSetUp
  BY <1>19, ZoneQuiet DEF siteAndSetUp, userStays, remotePart, Goroutine, guardedSetup
<1>20. CASE OnKeyConfigured
  BY ZenonT(60), <1>20, ZoneQuiet DEF OnKeyConfigured, userStays, remotePart, Goroutine, release
<1>21. CASE DeleteAPIKey
  BY ZenonT(30), <1>21, ZoneStill DEF DeleteAPIKey, userStays, remotePart
<1>22. CASE timeStep \/ zoneChainsAppear \/ provisioned \/ policiesDeleted \/ factoryReset
  BY <1>22, ZoneStill DEF timeStep, retryComesDue, statusGetsOld, zoneListGetsOld,
     zoneChainsAppear, provisioned, policiesDeleted, factoryReset, asIs
<1>23. CASE processRestarts
  BY <1>23 DEF processRestarts, ZoneInv, countPart
<1> HIDE DEF goTo, go, rest, SettingUp
<1> QED
  BY ZenonT(60), <1>1, <1>2, <1>3, <1>4, <1>5, <1>6, <1>7, <1>8, <1>9, <1>10, <1>12, <1>13, <1>14,
     <1>15, <1>16, <1>17, <1>18, <1>19, <1>20, <1>21, <1>22, <1>23, <1>24
     DEF IntegrationNext, fwStep, refreshStep, userStep, Goroutine

(* However many goroutines, requests, failures and restarts there are, a   *)
(* set-up never creates a second Tailscale zone, unless it went by a zone  *)
(* list that was out of date: guardedSetup lets one of them in at a time.  *)
THEOREM ZoneIsSingle == IntegrationSpec => []OneTailscaleZone
<1>1. IntegrationInit => ZoneInv
  <2> SUFFICES ASSUME IntegrationInit PROVE ZoneInv
    OBVIOUS
  <2>1. tsZones = {} \/ tsZones = {1}
    BY DEF IntegrationInit, OldKey
  <2>2. /\ IsFiniteSet({}) /\ Cardinality({}) = 0
        /\ IsFiniteSet({1}) /\ Cardinality({1}) = 1
    BY Zenon, FS_EmptySet, FS_Singleton
  <2>3. IsFiniteSet(tsZones) /\ Cardinality(tsZones) <= 1
    BY <2>1, <2>2
  <2>4. DOMAIN ipc = Goroutine /\ \A g \in Goroutine : ipc[g] \in {"validate", "idle"}
    BY DEF IntegrationInit
  <2> QED
    BY <2>3, <2>4 DEF ZoneInv, SettingUp
<1>2. ZoneInv /\ [IntegrationNext]_integrationVars => ZoneInv'
  BY ZoneStep
<1>3. ZoneInv => OneTailscaleZone
  BY DEF ZoneInv, OneTailscaleZone
<1> QED
  BY <1>1, <1>2, <1>3, PTL DEF IntegrationSpec
-----------------------------------------------------------------------------
(* The API key.  Where a status "expired" is remembered or on its way, and *)
(* no key was entered since it was asked for, the key is one the           *)
(* controller refuses.                                                     *)

Key == {0, OldKey, NewKey, BadKey}

Expired ==
    \/ statusCache = "expired"
    \/ \E g \in {"refresh", "user"} : ipc[g] \in {"cache", "expiry"} /\ held[g] = "expired"

KeyInv ==
    /\ DOMAIN ipc = Goroutine /\ DOMAIN held = Goroutine
    /\ accepted \in {{OldKey}, {NewKey}}
    /\ key \in Key /\ (key = NewKey => accepted = {NewKey})
    /\ keyFile \in Key /\ (keyFile = NewKey => accepted = {NewKey})
    /\ ipc["user"] \in {"check", "saveKey"} =>
         held["user"] \in Key /\ (held["user"] = NewKey => accepted = {NewKey})
    /\ ipc["refresh"] = "expiry" => held["refresh"] = "expired"
    /\ ~overlap /\ Expired => key \notin accepted

(* A step of a goroutine that learns of no status and enters no key. *)
LEMMA KeyQuiet ==
    ASSUME KeyInv, NEW g \in Goroutine, NEW p, NEW h,
           ipc' = [ipc EXCEPT ![g] = p], held' = [held EXCEPT ![g] = h],
           p \notin {"cache", "expiry", "check", "saveKey"},
           UNCHANGED <<accepted, overlap>>,
           key' \in {key, 0}, keyFile' \in {keyFile, 0}, statusCache' \in {statusCache, "nil"}
    PROVE  KeyInv'
<1> USE DEF KeyInv, Key, OldKey, NewKey, BadKey
<1>1. /\ DOMAIN ipc' = Goroutine /\ ipc'[g] = p
      /\ DOMAIN held' = Goroutine /\ held'[g] = h
      /\ \A f \in Goroutine : f # g => ipc'[f] = ipc[f] /\ held'[f] = held[f]
  OBVIOUS
<1>2. Expired' => Expired
  BY <1>1 DEF Expired, Goroutine
<1>3. 0 \notin accepted
  OBVIOUS
<1>4. ~overlap' /\ Expired' => key' \notin accepted'
  BY <1>2, <1>3
<1>5. /\ ipc'["user"] \in {"check", "saveKey"} =>
           held'["user"] \in Key /\ (held'["user"] = NewKey => accepted' = {NewKey})
      /\ ipc'["refresh"] = "expiry" => held'["refresh"] = "expired"
  BY <1>1 DEF Goroutine
<1> QED
  BY <1>1, <1>4, <1>5

(* A step of nobody. *)
LEMMA KeyStill ==
    ASSUME KeyInv, UNCHANGED <<ipc, held, key, keyFile, overlap>>,
           accepted' \in {accepted, {NewKey}}, statusCache' \in {statusCache, "nil"}
    PROVE  KeyInv'
<1> USE DEF KeyInv, Key, OldKey, NewKey, BadKey
<1>1. Expired' => Expired
  BY DEF Expired
<1>2. key \notin accepted => key \notin accepted'
  OBVIOUS
<1> QED
  BY <1>1, <1>2

(* A goroutine that asked for the status, with the answer st. *)
LEMMA KeyAnswer ==
    ASSUME KeyInv, NEW g \in {"refresh", "user"}, NEW p, NEW st,
           ipc' = [ipc EXCEPT ![g] = p], held' = [held EXCEPT ![g] = st],
           p \in {"cache", "expiry", "repair"}, p = "expiry" => st = "expired",
           st = "expired" /\ ~overlap => key \notin accepted,
           UNCHANGED <<accepted, overlap, key, keyFile>>, statusCache' \in {statusCache, st}
    PROVE  KeyInv'
<1> USE DEF KeyInv
<1>0. g \in Goroutine
  BY DEF Goroutine
<1>1. /\ DOMAIN ipc' = Goroutine /\ ipc'[g] = p
      /\ DOMAIN held' = Goroutine /\ held'[g] = st
      /\ \A f \in Goroutine : f # g => ipc'[f] = ipc[f] /\ held'[f] = held[f]
  BY <1>0
<1>2. Expired' => Expired \/ st = "expired"
  BY <1>1 DEF Expired, Goroutine
<1>3. /\ ipc'["user"] \in {"check", "saveKey"} =>
           held'["user"] \in Key /\ (held'["user"] = NewKey => accepted' = {NewKey})
      /\ ipc'["refresh"] = "expiry" => held'["refresh"] = "expired"
  BY <1>1 DEF Goroutine
<1> QED
  BY <1>1, <1>2, <1>3

(* GetStatus says "expired" only of the key it was asked with. *)
LEMMA KeyStatus ==
    ASSUME KeyInv, NEW g \in {"refresh", "user"}, NEW w, GetStatus(g, w),
           UNCHANGED <<accepted, overlap, keyPart>>
    PROVE  KeyInv'
<1>0. g \in Goroutine
  BY DEF Goroutine
<1>1. CASE (key = 0 \/ statusCache # "nil") /\ returned(g, w, IF key = 0 THEN "none" ELSE statusCache)
  <2> DEFINE st == IF key = 0 THEN "none" ELSE statusCache
  <2>1. st = "expired" /\ ~overlap => key \notin accepted
    BY DEF KeyInv, Expired
  <2>2. returned(g, w, st)
    BY <1>1
  <2> HIDE DEF st
  <2>3. PICK p \in {"expiry", "repair", "idle"} :
             /\ ipc' = [ipc EXCEPT ![g] = p]
             /\ p = "expiry" => st = "expired"
             /\ p # "idle" => held' = [held EXCEPT ![g] = st]
             /\ p = "idle" => held' = [held EXCEPT ![g] = "-"]
    BY Zenon, <2>2, ReturnedIs
  <2>4. CASE p = "idle"
    BY ZenonT(60), <1>0, <2>3, <2>4, KeyQuiet DEF keyPart
  <2>5. CASE p # "idle"
    BY ZenonT(60), <2>1, <2>3, <2>5, KeyAnswer DEF keyPart
  <2> QED
    BY <2>4, <2>5
<1>2. ASSUME NEW st \in answers \cup {"other"}, go(g, "cache", w, st) PROVE KeyInv'
  <2>1. st = "expired" => key \notin accepted
    BY <1>2 DEF answers, authorized
  <2> QED
    BY ZenonT(60), <1>2, <2>1, KeyAnswer DEF keyPart, go
<1> QED
  BY Zenon, <1>1, <1>2 DEF GetStatus
(* Every step keeps what is known of the key. *)
LEMMA KeyStep ==
    ASSUME KeyInv, [IntegrationNext]_integrationVars
    PROVE  KeyInv'
<1> USE DEF goTo, go, rest
<1>1. CASE UNCHANGED integrationVars
  BY <1>1, KeyStill DEF integrationVars
<1>2. ASSUME NEW g \in Goroutine, setUpStep(g) PROVE KeyInv'
  <2>1. UNCHANGED <<keyPart, accepted, overlap>>
    BY Zenon, <1>2 DEF setUpStep, listZones, createZone, ensurePolicies, rollbackTsZone,
       SetTailscaleZone, migrateRules, applyRules, setupStays
  <2>2. PICK p \in {"create", "policies", "setUp", "save", "rollback", "migrate", "rules"} :
          \E h : ipc' = [ipc EXCEPT ![g] = p] /\ held' = [held EXCEPT ![g] = h]
    BY ZenonT(60), <1>2 DEF setUpStep, listZones, createZone, ensurePolicies, rollbackTsZone,
       SetTailscaleZone, migrateRules, applyRules, setUpDone
  <2>3. p \notin {"cache", "expiry", "check", "saveKey"}
    OBVIOUS
  <2> QED
    BY Zenon, <2>1, <2>2, <2>3, KeyQuiet DEF keyPart
<1>3. CASE validateIntegration
  BY ZenonT(60), <1>3, KeyQuiet DEF validateIntegration, remotePart, countPart, Goroutine
<1>4. CASE boot \/ checkAndRestoreRules \/ fwSetUpDone
  <2>1. UNCHANGED <<keyPart, accepted, overlap>>
    BY Zenon, <1>4 DEF boot, checkAndRestoreRules, fwSetUpDone, remotePart, countPart
  <2>2. PICK p \in {"list", "idle", "restore"} :
          ipc' = [ipc EXCEPT !["fw"] = p] /\ held' = [held EXCEPT !["fw"] = "-"]
    BY Zenon, <1>4 DEF boot, checkAndRestoreRules, fwSetUpDone
  <2> QED
    BY ZenonT(60), <2>1, <2>2, KeyQuiet DEF keyPart, Goroutine
<1>5. CASE restoreTailscaleRules \/ ensureRules
  <2>1. UNCHANGED <<keyPart, accepted, overlap>>
    BY Zenon, <1>5 DEF restoreTailscaleRules, ensureRules, remotePart, countPart
  <2>2. PICK p \in {"ensure", "idle"} :
          \E h : ipc' = [ipc EXCEPT !["fw"] = p] /\ held' = [held EXCEPT !["fw"] = h]
    BY Zenon, <1>5 DEF restoreTailscaleRules, ensureRules, restorePrefix
  <2> QED
    BY ZenonT(60), <2>1, <2>2, KeyQuiet DEF keyPart, Goroutine
<1>6. CASE reapplyOnSIGHUP
  <2>1. UNCHANGED <<keyPart, accepted, overlap>>
    BY Zenon, <1>6 DEF reapplyOnSIGHUP, remotePart
  <2>2. \/ ipc' = [ipc EXCEPT !["fw"] = "list"] /\ held' = [held EXCEPT !["fw"] = "-"]
        \/ UNCHANGED <<ipc, held>>
    BY Zenon, <1>6 DEF reapplyOnSIGHUP
  <2> QED
    BY <2>1, <2>2, KeyQuiet, KeyStill DEF keyPart, Goroutine
<1>7. CASE restoreInBackground
  <2>1. UNCHANGED <<keyPart, accepted, overlap>>
    BY Zenon, <1>7 DEF restoreInBackground, remotePart, countPart
  <2>2. PICK p \in {"ensure", "again", "idle"} :
          \E h : ipc' = [ipc EXCEPT !["bg"] = p] /\ held' = [held EXCEPT !["bg"] = h]
    BY Zenon, <1>7 DEF restoreInBackground, restorePrefix
  <2> QED
    BY ZenonT(60), <2>1, <2>2, KeyQuiet DEF keyPart, Goroutine
<1>8. CASE refreshTick \/ askAgain
  BY <1>8, KeyStatus DEF refreshTick, askAgain, refreshStays, remotePart
<1>9. CASE handleIntegrationStatus
  BY <1>9, KeyStatus DEF handleIntegrationStatus, userStays, remotePart
<1>10. ASSUME NEW g \in {"refresh", "user"}, cacheStatus(g) PROVE KeyInv'
  <2>1. /\ UNCHANGED <<key, keyFile, accepted, overlap>> /\ ipc[g] = "cache" /\ g \in Goroutine
        /\ statusCache' = held[g]
    BY <1>10 DEF cacheStatus, remotePart, countPart, Goroutine
  <2>2. held[g] = "expired" /\ ~overlap => key \notin accepted
    BY <2>1 DEF KeyInv, Expired
  <2>3. PICK p \in {"expiry", "repair", "idle"} :
             /\ ipc' = [ipc EXCEPT ![g] = p]
             /\ p = "expiry" => held[g] = "expired"
             /\ p # "idle" => held' = [held EXCEPT ![g] = held[g]]
             /\ p = "idle" => held' = [held EXCEPT ![g] = "-"]
    BY Zenon, <1>10, ReturnedIs DEF cacheStatus
  <2>4. CASE p # "idle"
    BY ZenonT(60), <2>1, <2>2, <2>3, <2>4, KeyAnswer
  <2>5. CASE p = "idle"
    <3>1. /\ DOMAIN ipc' = Goroutine /\ ipc'[g] = "idle" /\ DOMAIN held' = Goroutine
          /\ \A f \in Goroutine : f # g => ipc'[f] = ipc[f] /\ held'[f] = held[f]
      BY <2>1, <2>3, <2>5 DEF KeyInv
    <3>2. Expired' => Expired
      BY SMTT(60), <2>1, <3>1 DEF Expired, Goroutine
    <3> QED
      BY ZenonT(30), <2>1, <3>1, <3>2 DEF KeyInv, Goroutine
  <2> QED
    BY <2>4, <2>5
<1>11. CASE clearKey \/ clearKeyFile
  BY <1>11, KeyQuiet DEF clearKey, clearKeyFile, refreshStays, remotePart, Goroutine
<1>12. CASE repairMissingPolicies \/ repairDone
  <2>1. UNCHANGED <<keyPart, accepted, overlap>>
    BY Zenon, <1>12 DEF repairMissingPolicies, repairDone, refreshStays, remotePart
  <2>2. PICK p \in {"list", "ask"} :
          ipc' = [ipc EXCEPT !["refresh"] = p] /\ held' = [held EXCEPT !["refresh"] = "-"]
    BY ZenonT(60), <1>12 DEF repairMissingPolicies, repairDone
  <2> QED
    BY ZenonT(60), <2>1, <2>2, KeyQuiet DEF keyPart, Goroutine
<1>13. ASSUME NEW k \in accepted \cup {BadKey}, SetAPIKey(k) PROVE KeyInv'
  <2>1. /\ ipc' = [ipc EXCEPT !["user"] = "check"] /\ held' = [held EXCEPT !["user"] = k]
        /\ key' = k /\ statusCache' = "nil" /\ UNCHANGED <<accepted, keyFile>>
        /\ ~overlap' => ipc["refresh"] \notin {"cache", "expiry"}
    BY Zenon, <1>13 DEF SetAPIKey, userStays, remotePart, fetching
  <2>2. /\ DOMAIN ipc' = Goroutine /\ ipc'["user"] = "check" /\ ipc'["refresh"] = ipc["refresh"]
        /\ DOMAIN held' = Goroutine /\ held'["user"] = k /\ held'["refresh"] = held["refresh"]
    BY <2>1 DEF KeyInv, Goroutine
  <2>3. ~overlap' => ~Expired'
    BY <2>1, <2>2 DEF Expired
  <2>4. k \in Key /\ (k = NewKey => accepted = {NewKey})
    BY DEF KeyInv, Key, OldKey, NewKey, BadKey
  <2> QED
    BY <2>1, <2>2, <2>3, <2>4 DEF KeyInv
<1>14. CASE validateKey
  <2>1. UNCHANGED <<keyFile, accepted, overlap>>
    BY Zenon, <1>14 DEF validateKey, userStays, remotePart
  <2>2. CASE /\ ipc' = [ipc EXCEPT !["user"] = "saveKey"]
             /\ held' = [held EXCEPT !["user"] = held["user"]] /\ UNCHANGED <<key, statusCache>>
    <3>1. /\ DOMAIN ipc' = Goroutine /\ ipc'["user"] = "saveKey" /\ ipc'["refresh"] = ipc["refresh"]
          /\ DOMAIN held' = Goroutine /\ held'["user"] = held["user"]
          /\ held'["refresh"] = held["refresh"] /\ ipc["user"] = "check"
      BY <1>14, <2>2 DEF KeyInv, Goroutine, validateKey
    <3>2. Expired' => Expired
      BY ZenonT(30), <2>2, <3>1 DEF Expired
    <3> QED
      BY ZenonT(30), <2>1, <2>2, <3>1, <3>2 DEF KeyInv
  <2>3. CASE key' = 0 /\ statusCache' = "nil" /\ rest("user")
    BY ZenonT(60), <2>1, <2>3, KeyQuiet DEF Goroutine
  <2> QED
    BY Zenon, <1>14, <2>2, <2>3 DEF validateKey
<1>15. CASE saveAPIKey
  <2>1. UNCHANGED <<key, statusCache, accepted, overlap>> /\ ipc["user"] = "saveKey"
    BY Zenon, <1>15 DEF saveAPIKey, userStays, remotePart
  <2>2. CASE keyFile' = held["user"] /\ goTo("user", "site", "-")
    <3>1. /\ DOMAIN ipc' = Goroutine /\ ipc'["user"] = "site" /\ ipc'["refresh"] = ipc["refresh"]
          /\ DOMAIN held' = Goroutine /\ held'["refresh"] = held["refresh"]
      BY <2>2 DEF KeyInv, Goroutine
    <3>2. Expired' => Expired
      BY <2>1, <3>1 DEF Expired
    <3> QED
      BY ZenonT(30), <2>1, <2>2, <3>1, <3>2 DEF KeyInv
  <2>3. CASE UNCHANGED keyFile /\ rest("user")
    BY ZenonT(60), <2>1, <2>3, KeyQuiet DEF Goroutine
  <2> QED
    BY Zenon, <1>15, <2>2, <2>3 DEF saveAPIKey
<1>16. CASE siteAndSetUp \/ OnKeyConfigured
  <2>1. UNCHANGED <<key, keyFile, statusCache, accepted, overlap>>
    BY Zenon, <1>16 DEF siteAndSetUp, OnKeyConfigured, userStays, remotePart, keyPart
  <2>2. PICK p \in {"list", "setUp", "idle"} :
          \E h : ipc' = [ipc EXCEPT !["user"] = p] /\ held' = [held EXCEPT !["user"] = h]
    BY Zenon, <1>16 DEF siteAndSetUp, OnKeyConfigured
  <2> QED
    BY ZenonT(60), <2>1, <2>2, KeyQuiet DEF Goroutine
<1>17. CASE DeleteAPIKey
  <2>1. /\ UNCHANGED <<ipc, held, accepted, overlap>>
        /\ key' = 0 /\ keyFile' = 0 /\ statusCache' = "nil"
    BY Zenon, <1>17 DEF DeleteAPIKey, userStays, remotePart
  <2> QED
    BY <2>1 DEF KeyInv, Key, OldKey, NewKey, BadKey
<1>18. CASE timeStep \/ zoneChainsAppear \/ provisioned \/ policiesDeleted \/ factoryReset
  <2>1. /\ UNCHANGED <<ipc, held, key, keyFile, overlap>>
        /\ accepted' \in {accepted, {NewKey}} /\ statusCache' \in {statusCache, "nil"}
    BY ZenonT(30), <1>18 DEF timeStep, retryComesDue, statusGetsOld, zoneListGetsOld, zoneChainsAppear,
       provisioned, policiesDeleted, factoryReset, asIs
  <2> QED
    BY ZenonT(30), <2>1, KeyStill
<1>19. CASE processRestarts
  <2>1. /\ key' = keyFile /\ statusCache' = "nil" /\ UNCHANGED <<keyFile, accepted>>
        /\ DOMAIN ipc' = Goroutine /\ \A g \in Goroutine : ipc'[g] \in {"validate", "idle"}
        /\ DOMAIN held' = Goroutine
    BY <1>19 DEF processRestarts
  <2>2. ~Expired'
    BY <2>1 DEF Expired, Goroutine
  <2> QED
    BY <2>1, <2>2 DEF KeyInv, Goroutine
<1> HIDE DEF goTo, go, rest
<1> QED
  BY ZenonT(60), <1>1, <1>2, <1>3, <1>4, <1>5, <1>6, <1>7, <1>8, <1>9, <1>10, <1>11, <1>12, <1>13,
     <1>14, <1>15, <1>16, <1>17, <1>18, <1>19
     DEF IntegrationNext, fwStep, refreshStep, userStep, Goroutine

(* Neither the boot nor the status refresh ever takes away a key the       *)
(* controller accepts, however requests, answers, resets of the console    *)
(* and restarts fall together, unless the key was entered while a status   *)
(* of another one was on its way.                                          *)
THEOREM ValidKeyStays == IntegrationSpec => ValidKeyKept
<1> DEFINE Kept == ~overlap /\ key \in accepted /\ key = keyFile /\ key' = 0
                   => (\A g \in {"fw", "refresh"} : ipc'[g] = ipc[g])
<1>1. IntegrationInit => KeyInv
  BY DEF IntegrationInit, KeyInv, Key, Expired, Goroutine, OldKey, NewKey
<1>2. KeyInv /\ [IntegrationNext]_integrationVars => KeyInv'
  BY KeyStep
<1>3. ASSUME KeyInv, [IntegrationNext]_integrationVars PROVE [Kept]_integrationVars
  <2> SUFFICES ASSUME IntegrationNext, ~overlap, key \in accepted, key = keyFile, key' = 0
               PROVE  \A g \in {"fw", "refresh"} : ipc'[g] = ipc[g]
    BY <1>3
  <2>0. key # 0
    <3>1. key = OldKey \/ key = NewKey
      BY Zenon, <1>3 DEF KeyInv
    <3> QED
      BY <3>1 DEF OldKey, NewKey
  <2>1. \/ validateIntegration \/ clearKey \/ validateKey \/ DeleteAPIKey \/ processRestarts
        \/ \E k \in accepted \cup {BadKey} : SetAPIKey(k)
        \/ UNCHANGED key
    BY ZenonT(60) DEF IntegrationNext, fwStep, refreshStep, userStep, setUpStep, listZones, createZone,
       ensurePolicies, rollbackTsZone, SetTailscaleZone, migrateRules, applyRules, setupStays,
       boot, checkAndRestoreRules, fwSetUpDone, restoreTailscaleRules, ensureRules, keyPart,
       restoreInBackground, refreshTick, cacheStatus, clearKeyFile, askAgain,
       repairMissingPolicies, repairDone, saveAPIKey, siteAndSetUp, OnKeyConfigured,
       handleIntegrationStatus, reapplyOnSIGHUP, timeStep, retryComesDue, statusGetsOld,
       zoneListGetsOld, zoneChainsAppear, provisioned, policiesDeleted, factoryReset, asIs
  <2>2. ~validateIntegration
    BY ZenonT(30), <2>0 DEF validateIntegration, authorized
  <2>3. ~clearKey
    <3>1. ipc["refresh"] = "expiry" => Expired
      BY <1>3 DEF KeyInv, Expired
    <3> QED
      BY ZenonT(30), <1>3, <3>1 DEF clearKey, KeyInv
  <2>4. ~processRestarts
    BY ZenonT(30), <2>0 DEF processRestarts
  <2>5. \A k \in accepted \cup {BadKey} : ~SetAPIKey(k)
    BY SMTT(60), <1>3 DEF SetAPIKey, KeyInv, OldKey, NewKey, BadKey
  <2>6. CASE validateKey \/ DeleteAPIKey
    BY ZenonT(30), <1>3, <2>0, <2>6 DEF validateKey, DeleteAPIKey, goTo, go, rest, KeyInv, Goroutine
  <2> QED
    BY ZenonT(30), <2>0, <2>1, <2>2, <2>3, <2>4, <2>5, <2>6
<1> QED
  BY <1>1, <1>2, <1>3, PTL DEF IntegrationSpec, ValidKeyKept
-----------------------------------------------------------------------------
(* --cleanup: the steps it still has to do, as they get fewer. *)

FromWg == <<"wgRules", "links", "subnets", "exit", "resources", "dpi", "done">>
FromLinks == <<"links", "subnets", "exit", "resources", "dpi", "done">>
FromSubnets == <<"subnets", "exit", "resources", "dpi", "done">>
FromExit == <<"exit", "resources", "dpi", "done">>
FromResources == <<"resources", "dpi", "done">>
FromDpi == <<"dpi", "done">>
FromDone == <<"done">>

Suffixes == {cleanupSteps, FromWg, FromLinks, FromSubnets, FromExit, FromResources, FromDpi,
             FromDone}

Doing == Head(cleanAt)

(* Each step leads to the next one. *)
LEMMA CleanOrder ==
    ASSUME cleanAt \in Suffixes, NEW s, s # "done", at_(s)
    PROVE  /\ Doing = s
           /\ cleanAt' \in Suffixes
           /\ s = "tsRules" => Doing' = "wgRules"
           /\ s = "wgRules" => Doing' = "links"
           /\ s = "links" => Doing' = "subnets"
           /\ s = "subnets" => Doing' = "exit"
           /\ s = "exit" => Doing' = "resources"
           /\ s = "resources" => Doing' = "dpi"
           /\ s = "dpi" => Doing' = "done"
<1> USE DEF Doing
<1>1. /\ Head(cleanupSteps) = "tsRules" /\ Tail(cleanupSteps) = FromWg
      /\ Head(FromWg) = "wgRules" /\ Tail(FromWg) = FromLinks
  BY DEF cleanupSteps, FromWg, FromLinks
<1>2. /\ Head(FromLinks) = "links" /\ Tail(FromLinks) = FromSubnets
      /\ Head(FromSubnets) = "subnets" /\ Tail(FromSubnets) = FromExit
  BY DEF FromLinks, FromSubnets, FromExit
<1>3. /\ Head(FromExit) = "exit" /\ Tail(FromExit) = FromResources
      /\ Head(FromResources) = "resources" /\ Tail(FromResources) = FromDpi
  BY DEF FromExit, FromResources, FromDpi
<1>4. Head(FromDpi) = "dpi" /\ Tail(FromDpi) = FromDone /\ Head(FromDone) = "done"
  BY DEF FromDpi, FromDone
<1> QED
  BY ZenonT(60), <1>1, <1>2, <1>3, <1>4 DEF at_, Suffixes

(* Two deletions in order, and what is left of them. *)
LEMMA PairOfSets == ASSUME NEW S, NEW T PROVE <<S>> \o <<T>> = <<S, T>>
<1> DEFINE c == <<S>> \o <<T>>
<1> DEFINE d == <<S, T>>
<1>1. c \in Seq({S, T}) /\ d \in Seq({S, T}) /\ Len(c) = 2 /\ Len(d) = 2
  OBVIOUS
<1>2. c[1] = d[1] /\ c[2] = d[2]
  OBVIOUS
<1> HIDE DEF c, d
<1>3. \A i \in 1..Len(c) : c[i] = d[i]
  BY <1>1, <1>2
<1>4. c = d
  BY <1>1, <1>3, SeqEqual
<1> QED
  BY <1>4 DEF c, d

(* The head of what is to be deleted, replaced or dropped. *)
LEMMA SetsLeft ==
    ASSUME NEW R, NEW S, NEW T
    PROVE  /\ Head(<<S>>) = S /\ Tail(<<S>>) = <<>> /\ <<R>> \o Tail(<<S>>) = <<R>>
           /\ Head(<<S, T>>) = S /\ Tail(<<S, T>>) = <<T>> /\ <<R>> \o Tail(<<S, T>>) = <<R, T>>
<1>1. /\ Head(<<S>>) = S /\ Tail(<<S>>) = <<>>
      /\ Head(<<S, T>>) = S /\ Tail(<<S, T>>) = <<T>>
  OBVIOUS
<1>2. <<R>> \in Seq({R})
  OBVIOUS
<1>3. <<R>> \o <<>> = <<R>>
  BY <1>2, ConcatEmptySeq
<1> QED
  BY <1>1, <1>3, PairOfSets

-----------------------------------------------------------------------------
(* What --cleanup leaves on the device. *)

ForeignRules == {<<4, ExitTable, 5270>>, <<4, 201, 5281>>}
ExitRules == {<<4, ExitTable, 5280>>, <<6, ExitTable, 5280>>}

DeviceInv ==
    /\ cleanAt \in Suffixes
    /\ ForeignRules \subseteq ipRules /\ ipRules \subseteq ForeignRules \cup ExitRules
    /\ entries \subseteq {"VPN", "CUSTOM1"}
    /\ everSmooth => leftRules \subseteq links \cup {"tailscale0"}
    /\ everSmooth /\ Doing # "done" => smooth
    /\ smooth => /\ Doing # "tsRules" => "tailscale0" \notin leftRules
                 /\ Doing \notin {"tsRules", "wgRules"} /\ everSmooth => leftRules = {}
                 /\ Doing \notin {"tsRules", "wgRules", "links"} => links = {}
                 /\ Doing \in {"exit", "resources", "dpi", "done"} =>
                      "VPN" \notin entries /\ (manifestFile = "whole" => entries = {})
                 /\ Doing \in {"resources", "dpi", "done"} =>
                      masquerade = {} /\ ipRules = ForeignRules
                 /\ Doing = "done" => fingerprint # "off"

(* Every step of every run takes its share away. *)
LEMMA DeviceStep ==
    ASSUME DeviceInv, [CleanupNext]_cleanVars
    PROVE  DeviceInv'
<1> USE DEF DeviceInv
<1>1. CASE UNCHANGED cleanVars
  BY ZenonT(30), <1>1 DEF cleanVars, Doing
<1>2. CASE runCleanup
  <2>1. /\ cleanAt' = cleanupSteps /\ smooth'
        /\ UNCHANGED <<onDevice, everSmooth, manifestFile>>
    BY <1>2 DEF runCleanup
  <2>2. Head(cleanupSteps) = "tsRules"
    BY SMTT(60) DEF cleanupSteps
  <2> QED
    BY ZenonT(30), <2>1, <2>2 DEF onDevice, Doing, Suffixes
<1>3. CASE deleteResource
  BY ZenonT(60), <1>3 DEF deleteResource, onDevice, Doing, fine, fails, deleteResourceBestEffort
<1>4. CASE removeTailscaleUDAPIRules
  <2>1. Doing = "tsRules" /\ Doing' = "wgRules" /\ cleanAt' \in Suffixes
    BY ZenonT(30), <1>4, CleanOrder DEF removeTailscaleUDAPIRules
  <2> QED
    BY <1>4, <2>1 DEF removeTailscaleUDAPIRules, bestEffort, fine, fails
<1>5. CASE removeWgS2sUDAPIRules
  <2>1. Doing = "wgRules" /\ Doing' = "links" /\ cleanAt' \in Suffixes
    BY ZenonT(30), <1>5, CleanOrder DEF removeWgS2sUDAPIRules
  <2> QED
    BY <1>5, <2>1 DEF removeWgS2sUDAPIRules, bestEffort, fine, fails
<1>6. CASE removeWgS2sInterfaces
  <2>1. Doing = "links" /\ Doing' = "subnets" /\ cleanAt' \in Suffixes
    BY ZenonT(30), <1>6, CleanOrder DEF removeWgS2sInterfaces
  <2> QED
    BY SMTT(60), <1>6, <2>1 DEF removeWgS2sInterfaces, bestEffort, fine, fails
<1>7. CASE removeSubnetsEntries
  <2>1. Doing = "subnets" /\ Doing' = "exit" /\ cleanAt' \in Suffixes
    BY ZenonT(30), <1>7, CleanOrder DEF removeSubnetsEntries
  <2> DEFINE known == {"VPN"} \cup (IF manifestFile = "whole" THEN {"CUSTOM1"} ELSE {})
  <2>2. "VPN" \in known /\ (manifestFile = "whole" => {"VPN", "CUSTOM1"} \subseteq known)
    OBVIOUS
  <2>3. /\ bestEffort(entries, known, entries')
        /\ UNCHANGED <<leftRules, links, ipRules, masquerade, manifestFile>>
    BY ZenonT(30), <1>7 DEF removeSubnetsEntries
  <2> HIDE DEF known
  <2>4. /\ entries' \subseteq entries
        /\ \/ entries' = entries \ known /\ UNCHANGED <<smooth, everSmooth>>
           \/ ~smooth' /\ ~everSmooth'
    BY ZenonT(30), <2>3 DEF bestEffort, fine, fails
  <2> QED
    BY SMTT(60), <2>1, <2>2, <2>3, <2>4
<1>8. CASE removeExitNodeRules
  <2>1. Doing = "exit" /\ Doing' = "resources" /\ cleanAt' \in Suffixes
    BY ZenonT(30), <1>8, CleanOrder DEF removeExitNodeRules
  <2> DEFINE mine == {r \in ipRules : r[2] = ExitTable /\ r[3] \in ExitPrio}
  <2>2. mine \cap ForeignRules = {} /\ ipRules \ mine = ForeignRules
    BY DEF ForeignRules, ExitRules, ExitTable, ExitPrio
  <2>3. /\ \/ bestEffort(ipRules, mine, ipRules') /\ masquerade' = {}
           \/ bestEffort(masquerade, masquerade, masquerade') /\ ipRules' = ipRules \ mine
        /\ UNCHANGED <<leftRules, links, entries, manifestFile>>
    BY ZenonT(30), <1>8 DEF removeExitNodeRules
  <2> HIDE DEF mine
  <2> QED
    BY SMTT(60), <2>1, <2>2, <2>3 DEF bestEffort, fine, fails
<1>9. CASE removeIntegrationResources
  <2>1. Doing = "resources" /\ Doing' = "dpi" /\ cleanAt' \in Suffixes
    BY ZenonT(30), <1>9, CleanOrder DEF removeIntegrationResources
  <2>2. /\ UNCHANGED <<onDevice, manifestFile>>
        /\ UNCHANGED <<smooth, everSmooth>> \/ (~smooth' /\ ~everSmooth')
    BY ZenonT(30), <1>9 DEF removeIntegrationResources, fine, fails
  <2> QED
    BY <2>1, <2>2 DEF onDevice
<1>10. CASE setDPIFingerprint
  <2>1. Doing = "dpi" /\ Doing' = "done" /\ cleanAt' \in Suffixes
    BY <1>10, CleanOrder DEF setDPIFingerprint
  <2> QED
    BY SMTT(60), <1>10, <2>1 DEF setDPIFingerprint, fine, fails
<1> HIDE DEF DeviceInv
<1> QED
  BY ZenonT(60), <1>1, <1>2, <1>3, <1>4, <1>5, <1>6, <1>7, <1>8, <1>9, <1>10 DEF CleanupNext

(* After any number of runs, of which the last met no failure, nothing of  *)
(* the manager is left on the device that the run could know of, however   *)
(* many calls of the earlier ones failed.                                  *)
THEOREM CleanupClearsDevice == CleanupSpec => []DeviceCleared
<1>1. ASSUME CleanupInit PROVE DeviceInv
  <2>1. ipRules = ExitRules \cup ForeignRules
    BY <1>1 DEF CleanupInit, ExitRules, ForeignRules
  <2>2. /\ cleanAt = <<"done">> /\ smooth = FALSE /\ entries = {"VPN", "CUSTOM1"}
        /\ leftRules = WgLinks \cup {"tailscale0"} /\ links = WgLinks
    BY <1>1 DEF CleanupInit
  <2>3. cleanAt = FromDone /\ Doing = "done"
    BY <2>2 DEF FromDone, Doing
  <2> QED
    BY ZenonT(30), <2>1, <2>2, <2>3 DEF DeviceInv, Suffixes
<1>2. DeviceInv /\ [CleanupNext]_cleanVars => DeviceInv'
  BY DeviceStep
<1>3. DeviceInv => DeviceCleared
  <2> SUFFICES ASSUME DeviceInv, cleanAt = <<"done">>, smooth PROVE DeviceCleared
    BY DEF DeviceCleared, cleaned
  <2>1. Doing = "done"
    BY DEF Doing
  <2> QED
    BY <2>1 DEF DeviceInv, DeviceCleared, ForeignRules
<1> QED
  BY <1>1, <1>2, <1>3, PTL DEF CleanupSpec

-----------------------------------------------------------------------------
(* What --cleanup leaves in the controller. *)

OtherPolicy == policy("other", {"gateway", "internal"}, FALSE, "none")
Named(kind, ids) == {<<kind, id>> : id \in ids}

\* What a step may be asked to delete.
DeletableIds == {"wan", "s2sIn", "s2sOut", "tsIn", "tsOut", "dns", "stray"}
Deletable == Named("policy", DeletableIds) \cup Named("zone", ManifestZones)

ShapeInv ==
    /\ cleanAt \in Suffixes
    /\ leftPols \subseteq PolicyObjects /\ OtherPolicy \in leftPols
    /\ {"gateway", "internal"} \subseteq leftZones
    /\ \A p \in leftPols : p.parent # "none" => \E q \in leftPols : q.id = p.parent
    /\ \/ deletions = <<>>
       \/ /\ Doing = "dpi"
          /\ \/ \E S \in SUBSET Deletable : deletions = <<S>>
             \/ \E S, T \in SUBSET Deletable : deletions = <<S, T>>

\* The policies a run is to take away, and whether P names one or the policy
\* it was derived from.
Target(p) == IF discovering THEN p.ours ELSE p.id \in WanPolicies \cup ZonePolicies \cup {"derived"}
NamedBy(p, P) == <<"policy", p.id>> \in P \/ <<"policy", p.parent>> \in P
NoTarget == \A p \in leftPols : ~Target(p)
ZonesIn(Z) == \A z \in leftZones \cap ManifestZones : <<"zone", z>> \in Z
PoliciesIn(P) == \A p \in leftPols : Target(p) => NamedBy(p, P)
OnlyPolicies(P) == P \subseteq Named("policy", DeletableIds)

\* What is still there is still to be deleted, the policies before the zones.
CtlInv ==
    smooth /\ apiKey /\ Doing \in {"dpi", "done"} =>
        \/ deletions = <<>> /\ NoTarget /\ ZonesIn({})
        \/ \E S : deletions = <<S>> /\ NoTarget /\ ZonesIn(S)
        \/ \E S, T : deletions = <<S, T>> /\ OnlyPolicies(S) /\ PoliciesIn(S) /\ ZonesIn(T)

(* What a named set holds. *)
LEMMA NamedIs ==
    ASSUME NEW kind, NEW ids
    PROVE  /\ \A x : x \in Named(kind, ids) <=> \E id \in ids : x = <<kind, id>>
           /\ \A id : <<kind, id>> \in Named(kind, ids) <=> id \in ids
           /\ del(kind, ids) = <<Named(kind, ids)>>
<1>1. \A x : x \in Named(kind, ids) <=> \E id \in ids : x = <<kind, id>>
  BY DEF Named
<1>2. del(kind, ids) = <<Named(kind, ids)>>
  BY Zenon DEF Named, del
<1> QED
  BY <1>1, <1>2

(* The policies the controller has at the start. *)
LEMMA PolicyFacts ==
    ASSUME NEW p \in PolicyObjects
    PROVE  /\ p.id \in {"wan", "s2sIn", "s2sOut", "tsIn", "tsOut", "derived", "stray", "other"}
           /\ p.parent = (IF p.id = "derived" THEN "tsIn" ELSE "none")
           /\ p.ours = (p.id # "other")
           /\ p.id \in {"wan", "stray", "other"} => p.zones \cap ManifestZones = {}
<1> USE DEF ManifestZones, policy
<1>1. CASE p = policy("wan", {"gateway"}, TRUE, "none")
  BY Zenon, <1>1
<1>2. CASE p \in {policy(id, {"s2s", "internal"}, TRUE, "none") : id \in {"s2sIn", "s2sOut"}}
  <2>1. PICK id \in {"s2sIn", "s2sOut"} : p = policy(id, {"s2s", "internal"}, TRUE, "none")
    BY Zenon, <1>2
  <2>2. id \notin {"other", "derived", "wan", "stray"}
    OBVIOUS
  <2> QED
    BY Zenon, <2>1, <2>2
<1>3. CASE p \in {policy(id, {"ts", "internal"}, TRUE, "none") : id \in {"tsIn", "tsOut"}}
  <2>1. PICK id \in {"tsIn", "tsOut"} : p = policy(id, {"ts", "internal"}, TRUE, "none")
    BY Zenon, <1>3
  <2>2. id \notin {"other", "derived", "wan", "stray"}
    OBVIOUS
  <2> QED
    BY Zenon, <2>1, <2>2
<1>4. CASE p = policy("derived", {"ts", "internal"}, TRUE, "tsIn")
  BY Zenon, <1>4
<1>5. CASE p = policy("stray", {"gateway"}, TRUE, "none")
  BY Zenon, <1>5
<1>6. CASE p = OtherPolicy
  BY Zenon, <1>6 DEF OtherPolicy
<1> HIDE DEF policy
<1> QED
  BY ZenonT(60), <1>1, <1>2, <1>3, <1>4, <1>5, <1>6 DEF PolicyObjects, OtherPolicy

(* No policy a run leaves alone names a zone of the manifest. *)
LEMMA ZonesUnused ==
    ASSUME ShapeInv, NoTarget, NEW z \in ManifestZones
    PROVE  ~(\E p \in leftPols : z \in p.zones)
<1> SUFFICES ASSUME NEW p \in leftPols, z \in p.zones PROVE FALSE
  OBVIOUS
<1>1. p.id \in ZonePolicies \cup {"derived"} /\ p.ours
  BY ZenonT(60), PolicyFacts DEF ShapeInv, ZonePolicies
<1> QED
  BY Zenon, <1>1 DEF NoTarget, Target

\* What deleteResource does, of one deletion of S.
After(S, d) == IF S \ {d} = {} THEN Tail(deletions) ELSE <<S \ {d}>> \o Tail(deletions)
NothingLeft(S) == S = {} /\ deletions' = Tail(deletions) /\ UNCHANGED <<leftPols, leftZones>>
DeleteFails(S) == \E d \in S :
    ~smooth' /\ deletions' \in {After(S, d), <<>>} /\ UNCHANGED <<leftPols, leftZones>>
PolicyGone(S) == \E id \in DeletableIds :
    /\ <<"policy", id>> \in S /\ deletions' = After(S, <<"policy", id>>) /\ UNCHANGED leftZones
    /\ leftPols' = {p \in leftPols : p.id # id /\ p.parent # id}
ZoneGone(S) == \E z \in ManifestZones :
    /\ <<"zone", z>> \in S /\ deletions' = After(S, <<"zone", z>>) /\ UNCHANGED leftPols
    /\ leftZones' = IF \E p \in leftPols : z \in p.zones THEN leftZones ELSE leftZones \ {z}

(* A deletion is one of four things. *)
LEMMA Deletion ==
    ASSUME NEW S \in SUBSET Deletable, deleteResource, Head(deletions) = S
    PROVE  /\ NothingLeft(S) \/ DeleteFails(S) \/ PolicyGone(S) \/ ZoneGone(S)
           /\ UNCHANGED <<apiKey, cleanAt, discovering>>
           /\ smooth' => smooth
<1>1. UNCHANGED <<apiKey, cleanAt, discovering>>
  BY DEF deleteResource
<1>2. CASE S = {}
  <2>1. deletions' = Tail(deletions) /\ fine /\ UNCHANGED <<leftPols, leftZones>>
    BY <1>2 DEF deleteResource
  <2> QED
    BY Zenon, <1>1, <1>2, <2>1 DEF NothingLeft, fine
<1>3. CASE S # {}
  <2>1. PICK d \in S : deleteResourceBestEffort(d[1], d[2])
    BY <1>3 DEF deleteResource
  <2>2. CASE \E id \in DeletableIds : d = <<"policy", id>>
    <3>1. PICK id \in DeletableIds : d = <<"policy", id>>
      BY <2>2
    <3>2. deleteResourceBestEffort("policy", id)
      BY <2>1, <3>1
    <3>3. (PolicyGone(S) /\ fine) \/ (DeleteFails(S) /\ fails)
      <4>1. CASE fine /\ deletions' = After(S, d)
        BY Zenon, <3>1, <3>2, <4>1 DEF deleteResourceBestEffort, fails, DeleteFails, PolicyGone
      <4>2. CASE fails /\ UNCHANGED <<leftPols, leftZones>> /\ deletions' \in {After(S, d), <<>>}
        BY Zenon, <4>2 DEF fails, DeleteFails
      <4> QED
        BY Zenon, <3>1, <3>2, <4>1, <4>2 DEF deleteResourceBestEffort, After
    <3>4. smooth' => smooth
      BY ZenonT(60), <3>3 DEF fine, fails
    <3> QED
      BY Zenon, <1>1, <3>3, <3>4
  <2>3. CASE \E z \in ManifestZones : d = <<"zone", z>>
    <3>1. PICK z \in ManifestZones : d = <<"zone", z>>
      BY <2>3
    <3>2. deleteResourceBestEffort("zone", z)
      BY <2>1, <3>1
    <3>3. (ZoneGone(S) /\ fine) \/ (DeleteFails(S) /\ fails)
      <4>1. CASE fine /\ deletions' = After(S, d)
        BY Zenon, <3>1, <3>2, <4>1 DEF deleteResourceBestEffort, fails, DeleteFails, ZoneGone
      <4>2. CASE fails /\ UNCHANGED <<leftPols, leftZones>> /\ deletions' \in {After(S, d), <<>>}
        BY Zenon, <4>2 DEF fails, DeleteFails
      <4> QED
        BY Zenon, <3>1, <3>2, <4>1, <4>2 DEF deleteResourceBestEffort, After
    <3>4. smooth' => smooth
      BY ZenonT(60), <3>3 DEF fine, fails
    <3> QED
      BY Zenon, <1>1, <3>3, <3>4
  <2>4. d \in Named("policy", DeletableIds) \/ d \in Named("zone", ManifestZones)
    BY ZenonT(30) DEF Deletable
  <2>5. \/ \E id \in DeletableIds : d = <<"policy", id>>
        \/ \E z \in ManifestZones : d = <<"zone", z>>
    BY <2>4, NamedIs
  <2> QED
    BY ZenonT(60), <2>2, <2>3, <2>5
<1> QED
  BY Zenon, <1>2, <1>3

(* What is left to delete after it. *)
LEMMA AfterIs ==
    ASSUME NEW S, NEW T, NEW d
    PROVE  /\ deletions = <<S>> => After(S, d) = IF S \ {d} = {} THEN <<>> ELSE <<S \ {d}>>
           /\ deletions = <<S, T>> => After(S, d) = IF S \ {d} = {} THEN <<T>> ELSE <<S \ {d}, T>>
<1>1. /\ Tail(<<S>>) = <<>> /\ <<S \ {d}>> \o Tail(<<S>>) = <<S \ {d}>>
      /\ Tail(<<S, T>>) = <<T>> /\ <<S \ {d}>> \o Tail(<<S, T>>) = <<S \ {d}, T>>
  BY SetsLeft
<1>2. CASE S \ {d} = {}
  BY Zenon, <1>1, <1>2 DEF After
<1>3. CASE S \ {d} # {}
  BY ZenonT(60), <1>1, <1>3 DEF After
<1> QED
  BY Zenon, <1>2, <1>3

\* The policies of ours that were not derived.
OurIds == {p.id : p \in {q \in leftPols : q.ours /\ q.parent = "none"}}
ManifestIds == WanPolicies \cup ZonePolicies \cup DnsPolicies

(* Both lists of what to delete: policies, then zones. *)
LEMMA ListsAre ==
    ASSUME ShapeInv
    PROVE  /\ namedInManifest = <<Named("policy", ManifestIds), Named("zone", ManifestZones)>>
           /\ discovered_ = <<Named("policy", OurIds), Named("zone", leftZones \cap ManifestZones)>>
           /\ discovered_[1] = Named("policy", OurIds)
           /\ discovered_[2] = Named("zone", leftZones \cap ManifestZones)
           /\ OurIds \subseteq DeletableIds /\ ManifestIds \subseteq DeletableIds
<1>1. namedInManifest = <<Named("policy", ManifestIds)>> \o <<Named("zone", ManifestZones)>>
  BY Zenon, NamedIs DEF namedInManifest, ManifestIds
<1>2. discovered_ = <<Named("policy", OurIds)>> \o <<Named("zone", leftZones \cap ManifestZones)>>
  BY Zenon, NamedIs DEF discovered_, OurIds
<1>3. ManifestIds \subseteq DeletableIds
  BY ZenonT(30) DEF ManifestIds, DeletableIds, WanPolicies, ZonePolicies, DnsPolicies
<1>4. ASSUME NEW id \in OurIds PROVE id \in DeletableIds
  <2>1. PICK p \in leftPols : p.ours /\ p.parent = "none" /\ p.id = id
    BY Zenon DEF OurIds
  <2>2. p \in PolicyObjects
    BY DEF ShapeInv
  <2>3. p.id # "other"
    BY Zenon, <2>1, <2>2, PolicyFacts
  <2> QED
    BY <2>1, <2>2, <2>3, PolicyFacts DEF DeletableIds
<1>5. /\ namedInManifest = <<Named("policy", ManifestIds), Named("zone", ManifestZones)>>
      /\ discovered_ = <<Named("policy", OurIds), Named("zone", leftZones \cap ManifestZones)>>
  BY ZenonT(60), <1>1, <1>2, PairOfSets
<1> QED
  BY <1>3, <1>4, <1>5

(* A smaller set names less. *)
LEMMA NamedDeletable ==
    ASSUME NEW ids \in SUBSET DeletableIds, NEW zs \in SUBSET ManifestZones
    PROVE  Named("policy", ids) \in SUBSET Deletable /\ Named("zone", zs) \in SUBSET Deletable
<1>1. ASSUME NEW x \in Named("policy", ids) PROVE x \in Deletable
  BY SMTT(60), <1>1, NamedIs DEF Deletable
<1>2. ASSUME NEW x \in Named("zone", zs) PROVE x \in Deletable
  BY <1>2, NamedIs DEF Deletable
<1> QED
  BY SMTT(60), <1>1, <1>2

(* A step of the device leaves the controller's part alone. *)
LEMMA ShapeQuiet ==
    ASSUME ShapeInv, deletions = <<>>, cleanAt' \in Suffixes,
           UNCHANGED <<leftPols, leftZones, deletions>>
    PROVE  ShapeInv'
BY ZenonT(30) DEF ShapeInv, Target

DeviceSteps == {"tsRules", "wgRules", "links", "subnets", "exit", "dpi"}

(* A step of the device's may fail, which the run remembers. *)
LEMMA EffortsAreSeen ==
    ASSUME NEW left, NEW goes_, NEW now, bestEffort(left, goes_, now)
    PROVE  smooth' => smooth
BY Zenon DEF bestEffort, fine, fails

(* The six steps that are not the controller's. *)
LEMMA DeviceFrame ==
    ASSUME cleanAt \in Suffixes,
           \/ removeTailscaleUDAPIRules \/ removeWgS2sUDAPIRules \/ removeWgS2sInterfaces
           \/ removeSubnetsEntries \/ removeExitNodeRules \/ setDPIFingerprint
    PROVE  /\ \E s \in DeviceSteps : at_(s)
           /\ UNCHANGED <<leftPols, leftZones, deletions, apiKey, discovering>>
           /\ smooth' => smooth
<1>1. \E s \in DeviceSteps : at_(s)
  BY Zenon DEF DeviceSteps, removeTailscaleUDAPIRules, removeWgS2sUDAPIRules,
     removeWgS2sInterfaces, removeSubnetsEntries, removeExitNodeRules, setDPIFingerprint
<1>2. /\ UNCHANGED <<inController, deletions>> /\ cleanStays
  BY Zenon DEF removeTailscaleUDAPIRules, removeWgS2sUDAPIRules,
     removeWgS2sInterfaces, removeSubnetsEntries, removeExitNodeRules, setDPIFingerprint
<1>3. UNCHANGED <<leftPols, leftZones, deletions, apiKey, discovering>>
  BY Zenon, <1>2 DEF inController, cleanStays
<1>4. smooth' => smooth
  <2>1. CASE setDPIFingerprint
    BY Zenon, <2>1 DEF setDPIFingerprint, fine, fails
  <2>2. CASE ~setDPIFingerprint
    BY Zenon, <2>2, EffortsAreSeen DEF removeTailscaleUDAPIRules, removeWgS2sUDAPIRules,
       removeWgS2sInterfaces, removeSubnetsEntries, removeExitNodeRules
  <2> QED
    BY <2>1, <2>2
<1> QED
  BY Zenon, <1>1, <1>3, <1>4

(* A deletion leaves what is not the manager's, and no policy without the  *)
(* one it was derived from.                                                *)
LEMMA DeletionKeeps ==
    ASSUME ShapeInv, NEW S \in SUBSET Deletable,
           NothingLeft(S) \/ DeleteFails(S) \/ PolicyGone(S) \/ ZoneGone(S)
    PROVE  /\ leftPols' \subseteq leftPols /\ OtherPolicy \in leftPols'
           /\ {"gateway", "internal"} \subseteq leftZones'
           /\ \A p \in leftPols' : p.parent # "none" => \E q \in leftPols' : q.id = p.parent
<1>1. CASE UNCHANGED <<leftPols, leftZones>>
  BY ZenonT(30), <1>1 DEF ShapeInv
<1>2. CASE ZoneGone(S)
  <2>1. PICK z \in ManifestZones :
            /\ UNCHANGED leftPols
            /\ leftZones' = IF \E p \in leftPols : z \in p.zones THEN leftZones ELSE leftZones \ {z}
    BY ZenonT(60), <1>2 DEF ZoneGone
  <2> QED
    BY ZenonT(30), <2>1 DEF ShapeInv, ManifestZones
<1>3. CASE PolicyGone(S)
  <2>1. PICK id \in DeletableIds :
            UNCHANGED leftZones /\ leftPols' = {p \in leftPols : p.id # id /\ p.parent # id}
    BY ZenonT(60), <1>3 DEF PolicyGone
  <2>2. OtherPolicy.id # id /\ OtherPolicy.parent # id
    BY DEF OtherPolicy, policy, DeletableIds
  <2>3. ASSUME NEW p \in leftPols', p.parent # "none"
        PROVE  \E q \in leftPols' : q.id = p.parent
    <3>1. p \in leftPols /\ p.parent # id /\ p \in PolicyObjects
      BY ZenonT(30), <2>1 DEF ShapeInv
    <3>2. PICK q \in leftPols : q.id = p.parent
      BY ZenonT(30), <2>3, <3>1 DEF ShapeInv
    <3>3. q.id = "tsIn" /\ q \in PolicyObjects
      BY ZenonT(60), <2>3, <3>1, <3>2, PolicyFacts DEF ShapeInv
    <3>4. q.parent = "none"
      BY <3>3, PolicyFacts
    <3> QED
      BY ZenonT(30), <2>1, <3>1, <3>2, <3>4 DEF DeletableIds
  <2> QED
    BY SMTT(60), <2>1, <2>2, <2>3 DEF ShapeInv
<1> QED
  BY ZenonT(30), <1>1, <1>2, <1>3 DEF NothingLeft, DeleteFails

(* The lists keep their shape. *)
LEMMA ShapeStep ==
    ASSUME ShapeInv, [CleanupNext]_cleanVars
    PROVE  ShapeInv'
<1>1. CASE UNCHANGED cleanVars
  BY <1>1 DEF cleanVars, ShapeInv, Doing
<1>2. CASE runCleanup
  <2>1. Doing = "done"
    BY <1>2 DEF runCleanup, Doing
  <2>2. deletions = <<>>
    BY ZenonT(30), <2>1 DEF ShapeInv
  <2>3. cleanAt' \in Suffixes /\ UNCHANGED <<leftPols, leftZones, deletions>>
    BY ZenonT(30), <1>2 DEF runCleanup, Suffixes, inController
  <2> QED
    BY ZenonT(30), <2>2, <2>3, ShapeQuiet
<1>3. CASE deletions = <<>> /\ \/ removeTailscaleUDAPIRules \/ removeWgS2sUDAPIRules
                               \/ removeWgS2sInterfaces \/ removeSubnetsEntries
                               \/ removeExitNodeRules \/ setDPIFingerprint
  <2>1. PICK s \in DeviceSteps : at_(s)
    BY ZenonT(30), <1>3, DeviceFrame DEF ShapeInv
  <2>2. cleanAt' \in Suffixes
    BY ZenonT(30), <2>1, CleanOrder DEF ShapeInv, DeviceSteps
  <2> QED
    BY ZenonT(30), <1>3, <2>2, ShapeQuiet, DeviceFrame DEF ShapeInv
<1>4. CASE removeIntegrationResources
  <2>1. Doing' = "dpi" /\ cleanAt' \in Suffixes
    BY ZenonT(30), <1>4, CleanOrder DEF ShapeInv, removeIntegrationResources
  <2>2. UNCHANGED <<leftPols, leftZones>>
    BY <1>4 DEF removeIntegrationResources, inController
  <2>3. deletions' \in {<<>>, namedInManifest, discovered_, <<discovered_[1]>>, <<discovered_[2]>>}
    BY Zenon, <1>4 DEF removeIntegrationResources
  <2> DEFINE zs == leftZones \cap ManifestZones
  <2>4. PICK P, Z, D, E \in SUBSET Deletable :
            deletions' \in {<<>>, <<P, Z>>, <<D, E>>, <<D>>, <<E>>}
    <3>1. /\ Named("policy", ManifestIds) \in SUBSET Deletable
          /\ Named("zone", ManifestZones) \in SUBSET Deletable
          /\ Named("policy", OurIds) \in SUBSET Deletable
          /\ Named("zone", zs) \in SUBSET Deletable
      BY ZenonT(60), ListsAre, NamedDeletable
    <3> QED
      BY Zenon, <2>3, <3>1, ListsAre
  <2> QED
    BY ZenonT(60), <2>1, <2>2, <2>4 DEF ShapeInv
<1>5. CASE deleteResource
  <2>1. deletions # <<>> /\ Doing = "dpi" /\ Doing' = "dpi" /\ cleanAt' = cleanAt
    BY ZenonT(60), <1>5 DEF deleteResource, ShapeInv, Doing
  <2>2. CASE \E S \in SUBSET Deletable : deletions = <<S>>
    <3>1. PICK S \in SUBSET Deletable : deletions = <<S>>
      BY <2>2
    <3>2. Head(deletions) = S /\ Tail(deletions) = <<>>
      BY <3>1
    <3>3. NothingLeft(S) \/ DeleteFails(S) \/ PolicyGone(S) \/ ZoneGone(S)
      BY <1>5, <3>2, Deletion
    <3>4. deletions' = <<>> \/ \E d : deletions' = <<S \ {d}>>
      <4>1. deletions' = Tail(deletions) \/ deletions' = <<>> \/ \E d : deletions' = After(S, d)
        BY Zenon, <3>3 DEF NothingLeft, DeleteFails, PolicyGone, ZoneGone
      <4>2. ASSUME NEW d, deletions' = After(S, d)
            PROVE  deletions' = <<>> \/ deletions' = <<S \ {d}>>
        BY ZenonT(30), <3>1, <4>2, AfterIs
      <4> QED
        BY Zenon, <3>2, <4>1, <4>2
    <3>5. deletions' = <<>> \/ \E R \in SUBSET Deletable : deletions' = <<R>>
      BY ZenonT(60), <3>4
    <3> QED
      BY ZenonT(30), <2>1, <3>3, <3>5, DeletionKeeps DEF ShapeInv
  <2>3. CASE \E S, T \in SUBSET Deletable : deletions = <<S, T>>
    <3>1. PICK S, T \in SUBSET Deletable : deletions = <<S, T>>
      BY <2>3
    <3>2. Head(deletions) = S /\ Tail(deletions) = <<T>>
      BY SMTT(60), <3>1
    <3>3. NothingLeft(S) \/ DeleteFails(S) \/ PolicyGone(S) \/ ZoneGone(S)
      BY <1>5, <3>2, Deletion
    <3>4. deletions' = <<>> \/ deletions' = <<T>> \/ \E d : deletions' = <<S \ {d}, T>>
      <4>1. deletions' = Tail(deletions) \/ deletions' = <<>> \/ \E d : deletions' = After(S, d)
        BY Zenon, <3>3 DEF NothingLeft, DeleteFails, PolicyGone, ZoneGone
      <4>2. ASSUME NEW d, deletions' = After(S, d)
            PROVE  deletions' = <<T>> \/ deletions' = <<S \ {d}, T>>
        BY SMTT(60), <3>1, <4>2, AfterIs
      <4> QED
        BY Zenon, <3>2, <4>1, <4>2
    <3>5. \/ deletions' = <<>> \/ \E R \in SUBSET Deletable : deletions' = <<R>>
          \/ \E R, Q \in SUBSET Deletable : deletions' = <<R, Q>>
      BY <3>4
    <3> QED
      BY ZenonT(30), <2>1, <3>3, <3>5, DeletionKeeps DEF ShapeInv
  <2> QED
    BY ZenonT(30), <2>1, <2>2, <2>3 DEF ShapeInv
<1> QED
  BY ZenonT(60), <1>1, <1>2, <1>3, <1>4, <1>5 DEF CleanupNext

(* What is not aimed at stays so while the run goes by the same list. *)
LEMMA TargetStays == ASSUME NEW p, UNCHANGED discovering PROVE Target(p)' <=> Target(p)
BY Zenon DEF Target

(* A deletion of the zones, after the policies. *)
LEMMA ZonesFall ==
    ASSUME ShapeInv, NEW S \in SUBSET Deletable, deletions = <<S>>, NoTarget, ZonesIn(S),
           NothingLeft(S) \/ PolicyGone(S) \/ ZoneGone(S), UNCHANGED discovering
    PROVE  /\ NoTarget'
           /\ \/ deletions' = <<>> /\ ZonesIn({})'
              \/ \E R : deletions' = <<R>> /\ ZonesIn(R)'
<1>1. leftPols' \subseteq leftPols
  BY Zenon, DeletionKeeps
<1>2. NoTarget'
  BY Zenon, <1>1, TargetStays DEF NoTarget
<1>3. Tail(deletions) = <<>>
  OBVIOUS
<1>4. CASE NothingLeft(S)
  BY <1>3, <1>4, <1>2 DEF NothingLeft, ZonesIn
<1>5. ASSUME NEW d \in S, deletions' = After(S, d),
             \A z \in leftZones' \cap ManifestZones : <<"zone", z>> \in S \ {d}
      PROVE  \/ deletions' = <<>> /\ ZonesIn({})'
             \/ \E R : deletions' = <<R>> /\ ZonesIn(R)'
  <2>1. IF S \ {d} = {} THEN deletions' = <<>> ELSE deletions' = <<S \ {d}>>
    BY <1>5, AfterIs
  <2> QED
    BY ZenonT(60), <1>5, <2>1 DEF ZonesIn
<1>6. CASE PolicyGone(S)
  <2>1. PICK id \in DeletableIds : /\ <<"policy", id>> \in S /\ UNCHANGED leftZones
                                   /\ deletions' = After(S, <<"policy", id>>)
    BY Zenon, <1>6 DEF PolicyGone
  <2>2. \A z \in leftZones' \cap ManifestZones : <<"zone", z>> \in S \ {<<"policy", id>>}
    BY ZenonT(60), <2>1 DEF ZonesIn
  <2> QED
    BY Zenon, <1>2, <1>5, <2>1, <2>2
<1>7. CASE ZoneGone(S)
  <2>1. PICK z \in ManifestZones :
            /\ <<"zone", z>> \in S /\ deletions' = After(S, <<"zone", z>>)
            /\ leftZones' = IF \E p \in leftPols : z \in p.zones THEN leftZones ELSE leftZones \ {z}
    BY Zenon, <1>7 DEF ZoneGone
  <2>2. leftZones' = leftZones \ {z}
    BY ZenonT(30), <2>1, ZonesUnused
  <2>3. \A y \in leftZones' \cap ManifestZones : <<"zone", y>> \in S \ {<<"zone", z>>}
    BY ZenonT(60), <2>2 DEF ZonesIn
  <2> QED
    BY ZenonT(60), <1>2, <1>5, <2>1, <2>3
<1> QED
  BY Zenon, <1>4, <1>6, <1>7

(* A deletion of the policies. *)
LEMMA PoliciesFall ==
    ASSUME ShapeInv, NEW S \in SUBSET Deletable, NEW T, deletions = <<S, T>>,
           OnlyPolicies(S), PoliciesIn(S), ZonesIn(T),
           NothingLeft(S) \/ PolicyGone(S) \/ ZoneGone(S), UNCHANGED discovering
    PROVE  /\ ZonesIn(T)'
           /\ \/ deletions' = <<T>> /\ NoTarget'
              \/ \E R : deletions' = <<R, T>> /\ OnlyPolicies(R) /\ PoliciesIn(R)'
<1>1. ~ZoneGone(S)
  <2> SUFFICES ASSUME NEW z \in ManifestZones, <<"zone", z>> \in S PROVE FALSE
    BY Zenon DEF ZoneGone
  <2> QED
    BY NamedIs DEF OnlyPolicies
<1>2. Tail(deletions) = <<T>>
  OBVIOUS
<1>3. CASE NothingLeft(S)
  <2>1. deletions' = <<T>> /\ UNCHANGED <<leftPols, leftZones>> /\ S = {}
    BY <1>2, <1>3 DEF NothingLeft
  <2>2. \A p \in leftPols : ~Target(p)
    BY Zenon, <2>1 DEF PoliciesIn, NamedBy
  <2> QED
    BY ZenonT(60), <2>1, <2>2, TargetStays DEF NoTarget, ZonesIn
<1>4. CASE PolicyGone(S)
  <2>1. PICK id \in DeletableIds :
            /\ <<"policy", id>> \in S /\ UNCHANGED leftZones
            /\ deletions' = After(S, <<"policy", id>>)
            /\ leftPols' = {p \in leftPols : p.id # id /\ p.parent # id}
    BY Zenon, <1>4 DEF PolicyGone
  <2> DEFINE d == <<"policy", id>>
  <2>2. ASSUME NEW p \in leftPols', Target(p) PROVE NamedBy(p, S \ {d})
    <3>1. p \in leftPols /\ p.id # id /\ p.parent # id
      BY <2>1
    <3>2. NamedBy(p, S)
      BY Zenon, <2>2, <3>1 DEF PoliciesIn
    <3> QED
      BY ZenonT(60), <3>1, <3>2 DEF NamedBy
  <2>3. ZonesIn(T)'
    BY Zenon, <2>1 DEF ZonesIn
  <2>4. CASE S \ {d} = {}
    <3>1. deletions' = <<T>>
      BY SMTT(60), <2>1, <2>4, AfterIs
    <3>2. \A p \in leftPols' : ~Target(p)
      BY Zenon, <2>2, <2>4 DEF NamedBy
    <3> QED
      BY ZenonT(60), <2>3, <3>1, <3>2, TargetStays DEF NoTarget
  <2>5. CASE S \ {d} # {}
    <3>1. deletions' = <<S \ {d}, T>>
      BY SMTT(60), <2>1, <2>5, AfterIs
    <3>2. OnlyPolicies(S \ {d})
      BY DEF OnlyPolicies
    <3>3. PoliciesIn(S \ {d})'
      BY Zenon, <2>2, TargetStays DEF PoliciesIn, NamedBy
    <3> QED
      BY ZenonT(60), <2>3, <3>1, <3>2, <3>3
  <2> QED
    BY Zenon, <2>4, <2>5
<1> QED
  BY ZenonT(60), <1>1, <1>3, <1>4

(* While a run meets no failure, what it is to delete and is still there   *)
(* is still on its list.                                                   *)
LEMMA CtlStep ==
    ASSUME ShapeInv, CtlInv, [CleanupNext]_cleanVars
    PROVE  CtlInv'
<1>1. CASE UNCHANGED cleanVars
  <2>1. UNCHANGED <<leftPols, leftZones, deletions, apiKey, discovering, smooth, cleanAt>>
    BY ZenonT(30), <1>1 DEF cleanVars
  <2> QED
    BY Zenon, <2>1, TargetStays DEF CtlInv, NoTarget, ZonesIn, PoliciesIn, OnlyPolicies, NamedBy, Doing
<1>2. CASE runCleanup
  <2>1. Doing' = "tsRules"
    BY <1>2 DEF runCleanup, cleanupSteps, Doing
  <2> QED
    BY ZenonT(30), <2>1 DEF CtlInv
<1>3. CASE deletions = <<>> /\ \/ removeTailscaleUDAPIRules \/ removeWgS2sUDAPIRules
                               \/ removeWgS2sInterfaces \/ removeSubnetsEntries
                               \/ removeExitNodeRules \/ setDPIFingerprint
  <2>1. PICK s \in DeviceSteps : at_(s)
    BY <1>3, DeviceFrame DEF ShapeInv
  <2>2. UNCHANGED <<leftPols, leftZones, deletions, apiKey, discovering>> /\ (smooth' => smooth)
    BY Zenon, <1>3, DeviceFrame DEF ShapeInv
  <2>3. s = "dpi" \/ Doing' \notin {"dpi", "done"}
    BY <2>1, CleanOrder DEF ShapeInv, DeviceSteps
  <2>4. Doing' \in {"dpi", "done"} => Doing \in {"dpi", "done"}
    BY Zenon, <2>1, <2>3 DEF at_, Doing
  <2>5. deletions = <<>> /\ deletions' = <<>> /\ ~(\E S : deletions = <<S>>)
        /\ ~(\E S, T : deletions = <<S, T>>)
    BY ZenonT(30), <1>3, <2>2
  <2> QED
    BY ZenonT(60), <2>2, <2>4, <2>5, TargetStays DEF CtlInv, NoTarget, ZonesIn
<1>4. CASE removeIntegrationResources /\ smooth' /\ apiKey'
  <2>1. UNCHANGED <<leftPols, leftZones>> /\ apiKey
    BY <1>4 DEF removeIntegrationResources, inController
  <2>2. CASE discovering'
    <3>1. deletions' = discovered_
      BY Zenon, <1>4, <2>1, <2>2 DEF removeIntegrationResources, fails
    <3>0. PICK S, T : S = Named("policy", OurIds) /\ T = Named("zone", leftZones \cap ManifestZones)
      OBVIOUS
    <3>2. deletions' = <<S, T>> /\ OurIds \subseteq DeletableIds
      BY Zenon, <3>0, <3>1, ListsAre
    <3>3. OnlyPolicies(S)
      BY <3>0, <3>2, NamedIs DEF OnlyPolicies
    <3>4. ZonesIn(T)'
      BY Zenon, <2>1, <3>0, NamedIs DEF ZonesIn
    <3>5. ASSUME NEW p \in leftPols, p.ours PROVE NamedBy(p, S)
      <4>1. p \in PolicyObjects
        BY DEF ShapeInv
      <4>2. CASE p.parent = "none"
        <5>1. p.id \in OurIds
          BY Zenon, <3>5, <4>2 DEF OurIds
        <5> QED
          BY Zenon, <3>0, <5>1, NamedIs DEF NamedBy
      <4>3. CASE p.parent # "none"
        <5>1. PICK q \in leftPols : q.id = p.parent
          BY ZenonT(60), <4>3 DEF ShapeInv
        <5>2. q.id = "tsIn" /\ q \in PolicyObjects
          BY ZenonT(60), <4>1, <4>3, <5>1, PolicyFacts DEF ShapeInv
        <5>3. q.parent = "none" /\ q.id # "other"
          BY ZenonT(30), <5>2, PolicyFacts
        <5>4. q.ours
          BY Zenon, <5>2, <5>3, PolicyFacts
        <5>5. p.parent \in OurIds
          BY Zenon, <5>1, <5>3, <5>4 DEF OurIds
        <5> QED
          BY Zenon, <3>0, <5>5, NamedIs DEF NamedBy
      <4> QED
        BY Zenon, <4>2, <4>3
    <3>6. PoliciesIn(S)'
      BY Zenon, <2>1, <2>2, <3>5 DEF PoliciesIn, Target, NamedBy
    <3> QED
      BY Zenon, <3>2, <3>3, <3>4, <3>6 DEF CtlInv, OnlyPolicies
  <2>3. CASE ~discovering'
    <3>1. deletions' = namedInManifest
      <4>1. manifestFile = "whole"
        BY Zenon, <1>4, <2>1, <2>3 DEF removeIntegrationResources
      <4> QED
        BY Zenon, <1>4, <2>1, <4>1 DEF removeIntegrationResources
    <3> DEFINE S == Named("policy", ManifestIds)
    <3> DEFINE T == Named("zone", ManifestZones)
    <3>2. deletions' = <<S, T>> /\ ManifestIds \subseteq DeletableIds
      BY Zenon, <3>1, ListsAre
    <3>3. OnlyPolicies(S)
      BY <3>2, NamedIs DEF OnlyPolicies
    <3>4. ZonesIn(T)'
      BY Zenon, NamedIs DEF ZonesIn
    <3>5. ASSUME NEW p \in leftPols, p.id \in WanPolicies \cup ZonePolicies \cup {"derived"}
          PROVE  NamedBy(p, S)
      <4>1. p \in PolicyObjects
        BY DEF ShapeInv
      <4>2. p.id \in ManifestIds \/ p.parent \in ManifestIds
        BY <3>5, <4>1, PolicyFacts DEF ManifestIds, ZonePolicies
      <4> QED
        BY ZenonT(60), <4>2, NamedIs DEF NamedBy
    <3> HIDE DEF S, T
    <3>6. PoliciesIn(S)'
      BY Zenon, <2>1, <2>3, <3>5 DEF PoliciesIn, Target, NamedBy
    <3> QED
      BY Zenon, <3>2, <3>3, <3>4, <3>6 DEF CtlInv, OnlyPolicies
  <2> QED
    BY ZenonT(30), <2>2, <2>3
<1>5. CASE deleteResource /\ smooth' /\ apiKey'
  <2>1. PICK S \in SUBSET Deletable : Head(deletions) = S
    <3>1. deletions # <<>>
      BY <1>5 DEF deleteResource
    <3> QED
      BY SMTT(60), <3>1 DEF ShapeInv
  <2>2. /\ NothingLeft(S) \/ PolicyGone(S) \/ ZoneGone(S)
        /\ UNCHANGED <<apiKey, cleanAt, discovering>> /\ smooth /\ apiKey /\ deletions # <<>>
    BY ZenonT(60), <1>5, <2>1, Deletion DEF DeleteFails, deleteResource
  <2>3. Doing \in {"dpi", "done"}
    BY <2>2 DEF ShapeInv
  <2>4. \/ \E R : deletions = <<R>> /\ NoTarget /\ ZonesIn(R)
        \/ \E R, T : deletions = <<R, T>> /\ OnlyPolicies(R) /\ PoliciesIn(R) /\ ZonesIn(T)
    BY Zenon, <2>2, <2>3 DEF CtlInv
  <2>5. CASE \E R : deletions = <<R>> /\ NoTarget /\ ZonesIn(R)
    <3>1. deletions = <<S>> /\ NoTarget /\ ZonesIn(S)
      <4>1. PICK R : deletions = <<R>> /\ NoTarget /\ ZonesIn(R)
        BY <2>5
      <4>2. R = S
        BY <2>1, <4>1
      <4> QED
        BY Zenon, <4>1, <4>2
    <3> QED
      BY Zenon, <2>2, <3>1, ZonesFall DEF CtlInv
  <2>6. CASE \E R, T : deletions = <<R, T>> /\ OnlyPolicies(R) /\ PoliciesIn(R) /\ ZonesIn(T)
    <3>1. PICK T : deletions = <<S, T>> /\ OnlyPolicies(S) /\ PoliciesIn(S) /\ ZonesIn(T)
      <4>1. PICK R, T : deletions = <<R, T>> /\ OnlyPolicies(R) /\ PoliciesIn(R) /\ ZonesIn(T)
        BY ZenonT(30), <2>6
      <4>2. R = S
        BY SMTT(60), <2>1, <4>1
      <4> QED
        BY Zenon, <4>1, <4>2
    <3> QED
      BY Zenon, <2>2, <3>1, PoliciesFall DEF CtlInv, OnlyPolicies
  <2> QED
    BY Zenon, <2>4, <2>5, <2>6
<1>6. CASE ~(smooth' /\ apiKey')
  BY <1>6 DEF CtlInv
<1> QED
  BY ZenonT(60), <1>1, <1>2, <1>3, <1>4, <1>5, <1>6 DEF CleanupNext

(* The first run finds everything there and nothing on its lists. *)
LEMMA CtlInit == CleanupInit => ShapeInv /\ CtlInv
<1> SUFFICES ASSUME CleanupInit PROVE ShapeInv /\ CtlInv
  OBVIOUS
<1>1. /\ leftPols = PolicyObjects /\ deletions = <<>> /\ cleanAt = <<"done">>
      /\ {"gateway", "internal"} \subseteq leftZones /\ smooth = FALSE
  BY SMTT(60) DEF CleanupInit
<1>2. cleanAt \in Suffixes
  BY <1>1 DEF FromDone, Suffixes
<1>3. OtherPolicy \in PolicyObjects
  BY Zenon DEF PolicyObjects, OtherPolicy
<1>4. ASSUME NEW p \in PolicyObjects, p.parent # "none"
      PROVE  \E q \in PolicyObjects : q.id = p.parent
  <2>1. policy("tsIn", {"ts", "internal"}, TRUE, "none") \in PolicyObjects
    BY Zenon DEF PolicyObjects
  <2>2. p.parent = "tsIn"
    BY ZenonT(30), <1>4, PolicyFacts
  <2> QED
    BY Zenon, <2>1, <2>2 DEF policy
<1>5. CtlInv
  BY <1>1 DEF CtlInv
<1> QED
  BY ZenonT(60), <1>1, <1>2, <1>3, <1>4, <1>5 DEF ShapeInv

(* With a key, a run in which no call failed leaves in the controller no   *)
(* zone and no policy it could know of, whatever earlier runs left half    *)
(* done: a zone is deleted only once no policy names it.                   *)
THEOREM CleanupClearsController == CleanupSpec => []ControllerCleared
<1>1. CleanupInit => ShapeInv /\ CtlInv
  BY CtlInit
<1>2. ShapeInv /\ CtlInv /\ [CleanupNext]_cleanVars => ShapeInv' /\ CtlInv'
  BY ShapeStep, CtlStep
<1>3. ShapeInv /\ CtlInv => ControllerCleared
  <2> SUFFICES ASSUME ShapeInv, CtlInv, cleaned, apiKey
               PROVE  /\ leftZones \cap ManifestZones = {}
                      /\ \A p \in leftPols : p.ours => ~discovering /\ p.id \notin WanPolicies \cup ZonePolicies
    BY Zenon DEF ControllerCleared
  <2>1. Doing = "done" /\ deletions = <<>> /\ smooth
    BY DEF cleaned, Doing
  <2>2. ~(\E S : deletions = <<S>>) /\ ~(\E S, T : deletions = <<S, T>>)
    BY <2>1
  <2>3. NoTarget /\ ZonesIn({})
    BY Zenon, <2>1, <2>2 DEF CtlInv
  <2>4. leftZones \cap ManifestZones = {}
    BY Zenon, <2>3 DEF ZonesIn
  <2> QED
    BY Zenon, <2>3, <2>4 DEF NoTarget, Target
<1> QED
  BY <1>1, <1>2, <1>3, PTL DEF CleanupSpec

(* No run deletes a policy or a zone of another, whichever of the two      *)
(* lists it goes by, however its calls fail.                               *)
THEOREM CleanupKeepsOthers == CleanupSpec => []OthersKept
<1>1. CleanupInit => ShapeInv
  BY ZenonT(60), CtlInit
<1>2. ShapeInv /\ [CleanupNext]_cleanVars => ShapeInv'
  BY ShapeStep
<1>3. ShapeInv => OthersKept
  BY DEF ShapeInv, OthersKept, OtherPolicy, policy
<1> QED
  BY <1>1, <1>2, <1>3, PTL DEF CleanupSpec

=============================================================================
