-------------------------- MODULE SmallPartsProofs --------------------------
(***************************************************************************)
(* Safety of the manager's small parts, for every value of their constants:*)
(* the manifest's file, which implements DurableRegister, the version gate,*)
(* the release check, the log buffer and the event hub.                    *)
(***************************************************************************)
EXTENDS ManifestFile, VersionGate, UpdateCheck, LogRing, EventHub, TLAPS

-----------------------------------------------------------------------------
(* ManifestFile: the steps of state.WriteFile, the start of the daemon, process
   crashes and power failures *)

(***************************************************************************)
(* What the mapping needs of a reachable state.  A renamed file is whole   *)
(* because its bytes were flushed before (tmpSafe), and a write that is to *)
(* be acknowledged is the one that readers see.                            *)
(***************************************************************************)
WriteInv ==
  /\ filePc \in WriteSteps \cup {"down", "load", "up"}
  /\ mem \in Manifests
  /\ visible \in Files \ {Torn}
  /\ durable \in SUBSET (Files \ {Torn})
  /\ filePc \in {"close", "rename", "syncDir"} => tmpSafe = TRUE
  /\ filePc = "syncDir" => visible = mem

\* The temporary files in the directory at each step: one while it is
\* written, none while the daemon serves, any number after a crash.
TmpInv ==
  /\ filePc \in WriteSteps \cup {"down", "load", "up"}
  /\ tmps \in Nat
  /\ filePc \in {"up", "load", "create", "syncDir"} => tmps = 0
  /\ filePc \in TempSteps => tmps = 1

(* It holds at the start. *)
LEMMA WriteInvInit == FileInit => WriteInv
  BY ZenonT(60), DistinctFiles DEF FileInit, WriteInv, WriteSteps, Manifests, Files

(* Every step of WriteFile, every failure and the start keep it. *)
LEMMA WriteInvStep == WriteInv /\ [FileNext]_fileVars => WriteInv'
<1> SUFFICES ASSUME WriteInv, [FileNext]_fileVars PROVE WriteInv'
  OBVIOUS
<1> USE DistinctFiles DEF WriteInv, WriteSteps, TempSteps, Manifests, Files
<1>1. CASE SetManifest
  BY <1>1 DEF SetManifest
<1>2. CASE CreateTemp
  BY <1>2 DEF CreateTemp
<1>3. CASE WriteTemp \/ ChmodTemp \/ CloseTemp
  BY <1>3 DEF WriteTemp, ChmodTemp, CloseTemp, TempStep
<1>4. CASE SyncFile
  BY <1>4 DEF SyncFile
<1>5. CASE FailAndCleanup
  BY <1>5 DEF FailAndCleanup
<1>6. CASE Rename
  BY <1>6 DEF Rename, Survivors
<1>7. CASE SyncDir
  BY <1>7 DEF SyncDir, Survivors
<1>8. CASE ProcessCrash
  BY <1>8 DEF ProcessCrash
<1>9. CASE PowerLoss
  BY <1>9 DEF PowerLoss
<1>10. CASE sweepStartupOrphanTmps
  BY <1>10 DEF sweepStartupOrphanTmps
<1>11. CASE LoadManifest
  BY <1>11 DEF LoadManifest
<1>12. CASE UNCHANGED fileVars
  BY <1>12 DEF fileVars
<1> QED
  BY ZenonT(60), <1>1, <1>2, <1>3, <1>4, <1>5, <1>6, <1>7, <1>8, <1>9, <1>10, <1>11, <1>12
  DEF FileNext

\* Every step of the file is a step of the register, or none.
LEMMA StepRefines ==
  WriteInv /\ [FileNext]_fileVars => [Register!Next]_(Register!vars)
<1> SUFFICES ASSUME WriteInv, [FileNext]_fileVars
             PROVE  [Register!Next]_(Register!vars)
  OBVIOUS
<1> USE DistinctFiles DEF WriteInv, WriteSteps, TempSteps, Manifests, Files
<1>1. CASE SetManifest
  <2>1. Register!Begin
    BY <1>1 DEF SetManifest, Register!Begin
  <2> QED
    BY <2>1 DEF Register!Next
<1>2. CASE CreateTemp
  <2>1. CASE filePc' = "write"
    BY <1>2, <2>1 DEF CreateTemp, Register!vars
  <2>2. CASE filePc' = "up"
    <3>1. Register!Fail
      BY <1>2, <2>2 DEF CreateTemp, Register!Fail
    <3> QED
      BY <3>1 DEF Register!Next
  <2> QED
    BY <1>2, <2>1, <2>2 DEF CreateTemp
<1>3. CASE WriteTemp \/ ChmodTemp \/ SyncFile \/ CloseTemp
  BY <1>3 DEF WriteTemp, ChmodTemp, SyncFile, CloseTemp, TempStep, Register!vars
<1>4. CASE FailAndCleanup
  <2>1. Register!Fail
    BY <1>4 DEF FailAndCleanup, Register!Fail
  <2> QED
    BY <2>1 DEF Register!Next
<1>5. CASE Rename
  <2>1. Register!Take
    BY <1>5 DEF Rename, Survivors, Register!Take
  <2> QED
    BY <2>1 DEF Register!Next
<1>6. CASE SyncDir
  <2>1. CASE saved' = "ok" /\ durable' = Survivors
    <3>1. Register!Acknowledge
      BY <1>6, <2>1 DEF SyncDir, Survivors, Register!Acknowledge
    <3> QED
      BY <3>1 DEF Register!Next
  <2>2. CASE saved' = "error" /\ UNCHANGED durable
    <3>1. Register!Fail
      BY <1>6, <2>2 DEF SyncDir, Register!Fail
    <3> QED
      BY <3>1 DEF Register!Next
  <2> QED
    BY <1>6, <2>1, <2>2 DEF SyncDir
<1>7. CASE ProcessCrash
  <2>1. Register!Crash
    BY <1>7 DEF ProcessCrash, Register!Crash
  <2> QED
    BY <2>1 DEF Register!Next
<1>8. CASE PowerLoss
  <2>1. Register!PowerLoss
    BY <1>8 DEF PowerLoss, Register!PowerLoss
  <2> QED
    BY <2>1 DEF Register!Next
<1>9. CASE sweepStartupOrphanTmps \/ LoadManifest
  BY <1>9 DEF sweepStartupOrphanTmps, LoadManifest, Register!vars
<1>10. CASE UNCHANGED fileVars
  BY <1>10 DEF fileVars, Register!vars
<1> QED
  BY <1>1, <1>2, <1>3, <1>4, <1>5, <1>6, <1>7, <1>8, <1>9, <1>10 DEF FileNext

\* FileIsDurable: WriteFile, its callers and the start of the daemon implement
\* a durable register whatever fails and whenever the power goes.
THEOREM FileRefinesRegister == FileSpec => FileIsDurable
<1>1. FileInit => Register!Init
  BY DistinctFiles DEF FileInit, Register!Init, WriteSteps, Files, Manifests
<1>2. FileSpec => []WriteInv
  BY WriteInvInit, WriteInvStep, PTL DEF FileSpec
<1> QED
  BY <1>1, <1>2, StepRefines, PTL DEF FileSpec, FileIsDurable, Register!Spec

(* A step leaves no more temporary files than its place allows. *)
LEMMA TmpInvStep == TmpInv /\ [FileNext]_fileVars => TmpInv'
<1> SUFFICES ASSUME TmpInv, [FileNext]_fileVars PROVE TmpInv'
  OBVIOUS
<1> USE DEF TmpInv, WriteSteps, TempSteps
<1>1. CASE SetManifest \/ CreateTemp
  BY <1>1 DEF SetManifest, CreateTemp
<1>2. CASE WriteTemp \/ ChmodTemp \/ SyncFile \/ CloseTemp
  BY <1>2 DEF WriteTemp, ChmodTemp, SyncFile, CloseTemp, TempStep
<1>3. CASE FailAndCleanup \/ Rename
  BY <1>3 DEF FailAndCleanup, Rename
<1>4. CASE SyncDir \/ ProcessCrash
  BY <1>4 DEF SyncDir, ProcessCrash
<1>5. CASE PowerLoss
  BY <1>5 DEF PowerLoss
<1>6. CASE sweepStartupOrphanTmps \/ LoadManifest
  BY <1>6 DEF sweepStartupOrphanTmps, LoadManifest
<1>7. CASE UNCHANGED fileVars
  BY <1>7 DEF fileVars
<1> QED
  BY <1>1, <1>2, <1>3, <1>4, <1>5, <1>6, <1>7 DEF FileNext

\* NoOrphanTmp: the error paths of WriteFile and the sweep at the start leave
\* no temporary file while the daemon serves.
THEOREM NoTmpLeft == FileSpec => []NoOrphanTmp
<1>1. FileInit => TmpInv
  BY DEF FileInit, TmpInv, WriteSteps, TempSteps
<1>2. TmpInv => NoOrphanTmp
  BY DEF TmpInv, NoOrphanTmp
<1> QED
  BY <1>1, <1>2, TmpInvStep, PTL DEF FileSpec

-----------------------------------------------------------------------------
(* VersionGate *)

\* Where the attempts are, and when a signal that the gate has not seen came.
GateInv ==
    /\ attempts \in 0..unifiGateAttempts
    /\ gatePc = "wait" => attempts < unifiGateAttempts
    /\ gatePc = "check" => attempts = 0
    /\ gatePc = "read" => attempts > 0 /\
          (cancelled => cancelledAt = <<"wait", attempts - 1>> \/ cancelledAt = <<"read", attempts>>)
    /\ gatePc = "exit78" /\ earlyBoot =>
          /\ attempts = unifiGateAttempts
          /\ cancelled => \/ cancelledAt = <<"wait", unifiGateAttempts - 1>>
                          \/ cancelledAt[2] = unifiGateAttempts

(* ShutdownIsNot78 for every number of attempts: the wait that a signal     *)
(* interrupts is the one it arrives in, so exit 78 comes only after a       *)
(* signal in the last wait or later (awaitSupportedUniFiVersion).           *)
THEOREM ShutdownIsSeen == GateSpec => []ShutdownIsNot78
<1>1. GateInit => GateInv
  BY AttemptsAssumption DEF GateInit, GateInv
<1>2. GateInv /\ [GateNext]_gateVars => GateInv'
  <2> SUFFICES ASSUME GateInv, [GateNext]_gateVars PROVE GateInv'
    OBVIOUS
  <2>1. CASE checkFirst
    BY <2>1, AttemptsAssumption DEF checkFirst, GateInv
  <2>2. CASE waitOrCancel
    <3>1. gatePc = "wait" /\ attempts \in 0..(unifiGateAttempts - 1)
      BY <2>2, AttemptsAssumption DEF waitOrCancel, GateInv
    <3>2. CASE gatePc' = "shutdown" /\ attempts' = attempts
      BY <3>1, <3>2, AttemptsAssumption DEF GateInv
    <3>3. CASE /\ ~cancelled \/ cancelledAt = <<"wait", attempts>>
               /\ gatePc' = "read" /\ attempts' = attempts + 1
      <4>1. attempts' - 1 = attempts /\ attempts' \in 0..unifiGateAttempts /\ attempts' > 0
        BY <3>1, <3>3, AttemptsAssumption
      <4>2. UNCHANGED <<cancelled, cancelledAt>>
        BY <2>2 DEF waitOrCancel
      <4>3. cancelled' => cancelledAt' = <<"wait", attempts' - 1>>
        BY Zenon, <3>3, <4>1, <4>2
      <4> QED
        BY <3>3, <4>1, <4>3 DEF GateInv
    <3> QED
      BY Zenon, <2>2, <3>2, <3>3 DEF waitOrCancel
  <2>3. CASE readAgain
    <3>1. /\ gatePc = "read" /\ attempts \in 0..unifiGateAttempts
          /\ UNCHANGED <<attempts, cancelled, cancelledAt, earlyBoot>>
          /\ gatePc' \in {"serve", "wait", "exit78"}
          /\ gatePc' = "wait" => attempts < unifiGateAttempts
          /\ gatePc' = "exit78" => ~(attempts < unifiGateAttempts)
      BY <2>3 DEF readAgain, GateInv
    <3>2. CASE gatePc' = "exit78"
      <4>1. attempts = unifiGateAttempts
        BY <3>1, <3>2, AttemptsAssumption
      <4>2. cancelled => cancelledAt = <<"wait", unifiGateAttempts - 1>> \/ cancelledAt[2] = unifiGateAttempts
        BY <3>1, <4>1 DEF GateInv
      <4> QED
        BY <3>1, <3>2, <4>1, <4>2 DEF GateInv
    <3>3. CASE gatePc' # "exit78"
      BY <3>1, <3>3 DEF GateInv
    <3> QED
      BY <3>2, <3>3
  <2>4. CASE dpkgRuns \/ UNCHANGED gateVars
    BY <2>4 DEF dpkgRuns, gateVars, GateInv
  <2>5. CASE signalArrives
    BY <2>5, AttemptsAssumption DEF signalArrives, GateInv
  <2> QED
    BY <2>1, <2>2, <2>3, <2>4, <2>5 DEF GateNext, gateNext
<1>3. GateInv => ShutdownIsNot78
  BY DEF GateInv, ShutdownIsNot78
<1> QED
  BY <1>1, <1>2, <1>3, PTL DEF GateSpec

-----------------------------------------------------------------------------
(* UpdateCheck *)

\* Every answer that names a version names one no newer than the cached one,
\* and the cached one is no newer than what is published.
UpdInv ==
    /\ release \in Nat
    /\ info = NoInfo \/ info \in 0..release
    /\ answer \in [Checker -> Int]
    /\ \A c \in Checker : answer[c] \in {NoInfo, Unknown} \/ (info # NoInfo /\ answer[c] \in 0..info)

\* The invariant holds initially and is kept by every step of the release check.
LEMMA UpdInvariant == UpdSpec => []UpdInv
<1>1. UpdInit => UpdInv
  BY DEF UpdInit, UpdInv, NoInfo, Unknown
<1>2. UpdInv /\ [UpdNext]_updVars => UpdInv'
  <2> SUFFICES ASSUME UpdInv, [UpdNext]_updVars PROVE UpdInv'
    OBVIOUS
  <2>1. ASSUME NEW c \in Checker, checkCached(c) \/ answerLastKnown(c) PROVE UpdInv'
    <3>1. UNCHANGED <<release, info>>
      BY <2>1 DEF checkCached, answerLastKnown
    <3>2. PICK v \in Int : /\ answer' = [answer EXCEPT ![c] = v]
                           /\ v = Unknown \/ (info # NoInfo /\ v = info)
      BY <2>1 DEF checkCached, answerLastKnown, told, lastKnown, UpdInv, NoInfo, Unknown
    <3> QED
      BY <3>1, <3>2 DEF UpdInv, NoInfo, Unknown
  <2>2. ASSUME NEW c \in Checker, checkMisses(c) \/ joinFetch(c) PROVE UpdInv'
    BY <2>2 DEF checkMisses, joinFetch, UpdInv
  <2>3. CASE fetchSucceeds
    BY <2>3 DEF fetchSucceeds, UpdInv, NoInfo, Unknown
  <2>4. CASE fetchFails \/ timePasses \/ UNCHANGED updVars
    BY <2>4 DEF fetchFails, timePasses, updVars, UpdInv
  <2>5. CASE published
    BY <2>5 DEF published, UpdInv
  <2> QED
    BY <2>1, <2>2, <2>3, <2>4, <2>5 DEF UpdNext
<1> QED
  BY <1>1, <1>2, PTL DEF UpdSpec

(* UpdateNotForgotten for every running version, every set of callers and   *)
(* any number of releases, requests and failures (updater.go check).        *)
THEOREM UpdatesAreRemembered == UpdSpec => UpdateNotForgotten
<1>1. UpdInv /\ [UpdNext]_updVars => [\A c \in Checker : offered(c) => offered(c)']_updVars
  <2> SUFFICES ASSUME UpdInv, UpdNext, NEW c \in Checker, offered(c) PROVE offered(c)'
    BY Zenon
  <2>1. /\ info \in 0..release /\ info # NoInfo /\ release \in Nat
        /\ answer[c] \in 0..info /\ Running > 0 /\ answer[c] > Running
    BY RunningAssumption DEF UpdInv, offered, Available, NoInfo, Unknown
  <2>2. answer'[c] \in Int /\ answer'[c] >= answer[c]
    <3>1. ASSUME NEW d \in Checker, checkCached(d) \/ answerLastKnown(d)
          PROVE  answer'[c] \in Int /\ answer'[c] >= answer[c]
      <4>1. answer' = [answer EXCEPT ![d] = info]
        BY <2>1, <3>1 DEF checkCached, answerLastKnown, told, lastKnown
      <4> QED
        BY <2>1, <4>1 DEF UpdInv
    <3>2. CASE fetchSucceeds
      BY <2>1, <3>2 DEF fetchSucceeds
    <3>3. ASSUME NEW d \in Checker, checkMisses(d) \/ joinFetch(d)
          PROVE  answer'[c] \in Int /\ answer'[c] >= answer[c]
      BY <2>1, <3>3 DEF checkMisses, joinFetch
    <3>4. CASE fetchFails \/ timePasses \/ published
      BY <2>1, <3>4 DEF fetchFails, timePasses, published
    <3> QED
      BY <3>1, <3>2, <3>3, <3>4 DEF UpdNext
  <2> QED
    BY <2>1, <2>2, RunningAssumption DEF offered, Available, NoInfo, Unknown
<1> QED
  BY <1>1, UpdInvariant, PTL DEF UpdSpec, UpdateNotForgotten

-----------------------------------------------------------------------------
(* LogRing *)

\* The cell i entries before the write position, without the modulus.
cellBack(i) == IF i <= head THEN head - i ELSE head - i + maxSize

\* Every cell still counted holds the line that many back in the history.
LogInv ==
    /\ maxSize \in Nat \ {0}
    /\ head \in 0..(maxSize - 1)
    /\ logged \in Seq(LogEntry)
    /\ count = IF Len(logged) < maxSize THEN Len(logged) ELSE maxSize
    /\ DOMAIN entries = 0..(maxSize - 1)
    /\ \A i \in 1..count : entries[cellBack(i)] = logged[Len(logged) + 1 - i]

\* A number below twice the modulus, reduced.
LEMMA ModOnce ==
  ASSUME NEW n \in Nat \ {0}, NEW a \in 0..(2 * n - 1)
  PROVE  a % n = IF a < n THEN a ELSE a - n
<1>1. CASE a < n
  BY <1>1
<1>2. CASE n <= a
  <2>1. a - n \in 0..(n - 1)
    BY <1>2
  <2> QED
    BY <1>2, <2>1
<1> QED
  BY <1>1, <1>2

(* SnapshotIsTail for every size and any number of lines: the wrapped index *)
(* of Snapshot finds the lines that Add has not yet overwritten.            *)
THEOREM SnapshotsAreTails == LogSpec => []SnapshotIsTail
<1>1. LogInit => LogInv
  BY SizeAssumption DEF LogInit, LogInv, minLogBufferSize
<1>2. LogInv /\ [LogNext]_logVars => LogInv'
  <2> SUFFICES ASSUME LogInv, [LogNext]_logVars PROVE LogInv'
    OBVIOUS
  <2>1. CASE UNCHANGED logVars
    BY <2>1 DEF logVars, LogInv, cellBack
  <2>2. ASSUME NEW e \in LogEntry, Add(e) PROVE LogInv'
    <3>1. /\ maxSize' = maxSize /\ maxSize \in Nat \ {0}
          /\ logged \in Seq(LogEntry) /\ logged' \in Seq(LogEntry)
          /\ Len(logged') = Len(logged) + 1 /\ logged'[Len(logged) + 1] = e
          /\ \A i \in 1..Len(logged) : logged'[i] = logged[i]
      BY <2>2 DEF Add, LogInv
    <3>2. head' = IF head + 1 < maxSize THEN head + 1 ELSE 0
      <4>1. PICK a : a = head + 1
        BY Zenon
      <4>2. a \in 0..(2 * maxSize - 1)
        BY <4>1 DEF LogInv
      <4>3. a % maxSize = IF a < maxSize THEN a ELSE a - maxSize
        BY Zenon, <3>1, <4>2, ModOnce
      <4> QED
        BY <2>2, <4>1, <4>3 DEF Add, LogInv
    <3>3. /\ DOMAIN entries' = 0..(maxSize - 1) /\ entries'[head] = e
          /\ \A i \in 0..(maxSize - 1) : i # head => entries'[i] = entries[i]
      BY <2>2 DEF Add, LogInv
    <3>4. count' = IF Len(logged') < maxSize THEN Len(logged') ELSE maxSize
      BY <2>2, <3>1 DEF Add, LogInv
    <3>5. ASSUME NEW i \in 1..count' PROVE entries'[cellBack(i)'] = logged'[Len(logged') + 1 - i]
      <4>1. CASE i = 1
        <5>1. cellBack(i)' = head
          BY <3>1, <3>2, <4>1 DEF cellBack, LogInv
        <5>2. Len(logged') + 1 - i = Len(logged) + 1
          BY <3>1, <4>1
        <5> QED
          BY <3>1, <3>3, <5>1, <5>2
      <4>2. CASE i # 1
        <5>1. i - 1 \in 1..count /\ i <= maxSize /\ i - 1 <= Len(logged)
          <6>1. Len(logged) \in Nat /\ count = IF Len(logged) < maxSize THEN Len(logged) ELSE maxSize
            BY <3>1 DEF LogInv
          <6> QED
            BY <3>1, <3>4, <4>2, <6>1
        <5>2. cellBack(i)' = cellBack(i - 1) /\ cellBack(i - 1) \in 0..(maxSize - 1)
              /\ cellBack(i - 1) # head
          <6>1. head \in 0..(maxSize - 1) /\ maxSize \in Nat \ {0} /\ i \in Int /\ i > 1
            BY <3>1, <4>2, <5>1 DEF LogInv
          <6>2. cellBack(i)' = IF i <= head' THEN head' - i ELSE head' - i + maxSize
            BY <3>1 DEF cellBack
          <6>3. cellBack(i - 1) = IF i - 1 <= head THEN head - (i - 1) ELSE head - (i - 1) + maxSize
            BY DEF cellBack
          <6> QED
            BY <3>2, <5>1, <6>1, <6>2, <6>3
        <5>3. entries[cellBack(i - 1)] = logged[Len(logged) + 1 - (i - 1)]
          BY <5>1 DEF LogInv
        <5>4. logged'[Len(logged') + 1 - i] = logged[Len(logged) + 1 - (i - 1)]
          BY SMTT(60), <3>1, <5>1, <4>2
        <5> QED
          BY <3>3, <5>2, <5>3, <5>4
      <4> QED
        BY <4>1, <4>2
    <3> QED
      BY <3>1, <3>2, <3>3, <3>4, <3>5 DEF LogInv
  <2> QED
    BY <2>1, <2>2 DEF LogNext
<1>3. LogInv => SnapshotIsTail
  <2> SUFFICES ASSUME LogInv PROVE SnapshotIsTail
    OBVIOUS
  <2>1. ASSUME NEW i \in 1..count
        PROVE  entries[(head - 1 - (i - 1) + maxSize) % maxSize] = logged[Len(logged) + 1 - i]
    <3>1. head - 1 - (i - 1) + maxSize = head - i + maxSize
          /\ head - i + maxSize \in 0..(2 * maxSize - 1) /\ maxSize \in Nat \ {0}
      BY DEF LogInv
    <3>2. PICK a : a = head - i + maxSize
      BY Zenon
    <3>3. a % maxSize = IF a < maxSize THEN a ELSE a - maxSize
      BY Zenon, <3>1, <3>2, ModOnce
    <3>4. a % maxSize = cellBack(i)
      BY <3>2, <3>3 DEF cellBack, LogInv
    <3>5. entries[cellBack(i)] = logged[Len(logged) + 1 - i]
      BY DEF LogInv
    <3> QED
      BY Zenon, <3>1, <3>2, <3>4, <3>5
  <2>2. count = IF Len(logged) < maxSize THEN Len(logged) ELSE maxSize
    BY DEF LogInv
  <2> QED
    BY <2>1, <2>2 DEF SnapshotIsTail, LogSnapshot
<1> QED
  BY <1>1, <1>2, <1>3, PTL DEF LogSpec

-----------------------------------------------------------------------------
(* EventHub *)

\* Broadcasters work one at a time unless they raced.  While the order is
\* kept, the stored state and the last message differ only between the two.
CasterInv ==
    /\ world \in Nat \ {0}
    /\ casterPc \in [Caster -> {"idle", "compare", "store", "send"}]
    /\ snapshot \in [Caster -> Nat]
    /\ order \in {"kept", "healing", "raced"}
    /\ \A g \in Caster : casterPc[g] # "idle" => snapshot[g] # Health
    /\ order # "raced" =>
          \A g, h \in Caster : casterPc[g] # "idle" /\ casterPc[h] # "idle" => g = h
    /\ order = "healing" => \E g \in Caster : casterPc[g] # "idle"
    /\ \A g \in Caster : order # "raced" /\ casterPc[g] = "send" => hubState = snapshot[g]
    /\ \A g \in Caster : order = "kept" /\ casterPc[g] = "send" => snapshot[g] # lastSent
    /\ \A g \in Caster : order # "raced" /\ casterPc[g] = "store" => hubState # snapshot[g]
    /\ order = "kept" /\ (\A g \in Caster : casterPc[g] # "send") => hubState = lastSent

\* CasterInv holds initially.
LEMMA CasterStart == HubInit => CasterInv
BY DEF HubInit, CasterInv, Health

\* Steps other than the broadcasters' leave what CasterInv speaks of alone.
LEMMA CasterIdle ==
  ASSUME CasterInv, UNCHANGED <<hubState, casterPc, snapshot, lastSent, order>>, world' \in Nat \ {0}
  PROVE  CasterInv'
BY DEF CasterInv

\* Every step of every broadcaster keeps CasterInv.
LEMMA CasterStep ==
  ASSUME CasterInv, NEW g \in Caster, casterNext(g)
  PROVE  CasterInv'
<1>1. CASE broadcastState(g)
  <2>1. /\ UNCHANGED <<world, hubState, lastSent>>
        /\ casterPc[g] = "idle" /\ casterPc' = [casterPc EXCEPT ![g] = "compare"]
        /\ snapshot' = [snapshot EXCEPT ![g] = world]
    BY <1>1 DEF broadcastState, casterStep
  <2>2. /\ casterPc' \in [Caster -> {"idle", "compare", "store", "send"}]
        /\ snapshot' \in [Caster -> Nat] /\ world' \in Nat \ {0}
        /\ casterPc'[g] = "compare" /\ snapshot'[g] = world
        /\ \A h \in Caster : h # g => casterPc'[h] = casterPc[h] /\ snapshot'[h] = snapshot[h]
    BY <2>1 DEF CasterInv
  <2>3. CASE \E h \in Caster : casterPc[h] # "idle"
    <3>1. order' = "raced"
      BY ZenonT(30), <1>1, <2>3 DEF broadcastState
    <3> QED
      BY <2>2, <3>1 DEF CasterInv, Health
  <2>4. CASE ~ \E h \in Caster : casterPc[h] # "idle"
    <3>1. order' = IF order = "raced" THEN "healing" ELSE order
      BY SMTT(60), <1>1, <2>4 DEF broadcastState
    <3>2. \A h \in Caster : casterPc'[h] # "idle" => h = g
      BY <2>2, <2>4
    <3>3. order \in {"kept", "raced"}
      BY ZenonT(30), <2>4 DEF CasterInv
    <3> QED
      BY <2>1, <2>2, <2>4, <3>1, <3>2, <3>3 DEF CasterInv, Health
  <2> QED
    BY <2>3, <2>4
<1>2. CASE BroadcastIfChanged(g)
  <2>1. PICK to \in {"idle", "store"} :
           /\ to = IF hubState = snapshot[g] THEN "idle" ELSE "store"
           /\ casterPc[g] = "compare" /\ casterPc' = [casterPc EXCEPT ![g] = to]
    BY ZenonT(60), <1>2 DEF BroadcastIfChanged, casterStep
  <2>2. UNCHANGED <<world, hubState, snapshot, lastSent>>
    BY <1>2 DEF BroadcastIfChanged
  <2>3. /\ casterPc' \in [Caster -> {"idle", "compare", "store", "send"}]
        /\ casterPc'[g] = to /\ \A h \in Caster : h # g => casterPc'[h] = casterPc[h]
    BY <2>1 DEF CasterInv
  <2>4. order' = IF order = "healing" /\ hubState = snapshot[g] THEN "raced" ELSE order
    BY <1>2 DEF BroadcastIfChanged
  <2> QED
    BY <2>1, <2>2, <2>3, <2>4 DEF CasterInv
<1>3. CASE BroadcastStore(g)
  <2>1. /\ UNCHANGED <<world, snapshot, lastSent, order>> /\ hubState' = snapshot[g]
        /\ casterPc[g] = "store" /\ casterPc' = [casterPc EXCEPT ![g] = "send"]
    BY <1>3 DEF BroadcastStore, casterStep
  <2>2. /\ casterPc' \in [Caster -> {"idle", "compare", "store", "send"}]
        /\ casterPc'[g] = "send" /\ \A h \in Caster : h # g => casterPc'[h] = casterPc[h]
    BY <2>1 DEF CasterInv
  <2>3. order # "raced" => \A h \in Caster : casterPc'[h] # "idle" => h = g
    BY <2>1, <2>2 DEF CasterInv
  <2>4. order = "kept" => hubState = lastSent
    <3>1. order = "kept" => \A h \in Caster : casterPc[h] # "send"
      BY <2>1 DEF CasterInv
    <3> QED
      BY <3>1 DEF CasterInv
  <2>5. order = "kept" => snapshot[g] # lastSent
    BY ZenonT(30), <2>1, <2>4 DEF CasterInv
  <2> QED
    BY <2>1, <2>2, <2>3, <2>5 DEF CasterInv
<1>4. CASE BroadcastSend(g)
  <2>1. /\ UNCHANGED <<world, snapshot, hubState>> /\ lastSent' = snapshot[g]
        /\ casterPc[g] = "send" /\ casterPc' = [casterPc EXCEPT ![g] = "idle"]
        /\ order' = IF order = "healing" THEN "kept" ELSE order
    BY <1>4 DEF BroadcastSend, casterStep
  <2>2. /\ casterPc' \in [Caster -> {"idle", "compare", "store", "send"}]
        /\ casterPc'[g] = "idle" /\ \A h \in Caster : h # g => casterPc'[h] = casterPc[h]
    BY <2>1 DEF CasterInv
  <2>3. order # "raced" => \A h \in Caster : casterPc'[h] = "idle"
    BY <2>1, <2>2 DEF CasterInv
  <2>4. order # "raced" => hubState = snapshot[g]
    BY <2>1 DEF CasterInv
  <2> QED
    BY <2>1, <2>2, <2>3, <2>4 DEF CasterInv
<1> QED
  BY <1>1, <1>2, <1>3, <1>4 DEF casterNext

\* CasterInv is an invariant of the hub.
LEMMA CasterInvariant == HubSpec => []CasterInv
<1>1. CasterInv /\ [HubNext]_hubVars => CasterInv'
  <2> SUFFICES ASSUME CasterInv, [HubNext]_hubVars PROVE CasterInv'
    OBVIOUS
  <2>1. CASE StateChanges
    <3>1. /\ UNCHANGED <<hubState, casterPc, snapshot, lastSent, order>> /\ world' \in Nat \ {0}
      BY <2>1 DEF StateChanges, CasterInv
    <3> QED
      BY <3>1, CasterIdle
  <2>2. CASE BroadcastNamed \/ UNCHANGED hubVars
             \/ \E c \in Client : handleSSEStart(c) \/ handleSSELoop(c) \/ unsubscribe(c)
    <3>1. UNCHANGED <<world, hubState, casterPc, snapshot, lastSent, order>>
      BY Zenon, <2>2 DEF BroadcastNamed, hubVars, handleSSEStart, Subscribe, WriteCurrentState,
         handleSSELoop, unsubscribe
    <3>2. world' \in Nat \ {0}
      BY <3>1 DEF CasterInv
    <3> QED
      BY <3>1, <3>2, CasterIdle
  <2>3. ASSUME NEW g \in Caster, casterNext(g) PROVE CasterInv'
    BY <2>3, CasterStep
  <2> QED
    BY Zenon, <2>1, <2>2, <2>3 DEF HubNext
<1> QED
  BY <1>1, CasterStart, PTL DEF HubSpec

(* NoRepeatedState for any number of broadcasters, clients and states: a    *)
(* message that BroadcastIfChanged lets through differs from the last one   *)
(* as long as the broadcasters have not overlapped.                         *)
THEOREM NoStateIsRepeated == HubSpec => NoRepeatedState
<1>1. CasterInv => [\A g \in Caster : order = "kept" /\ BroadcastSend(g) => snapshot[g] # lastSent]_hubVars
  BY DEF CasterInv, BroadcastSend, casterStep
<1> QED
  BY <1>1, CasterInvariant, PTL DEF NoRepeatedState

\* The last state message in a channel is x; or there is none.
lastIs(ch, x) ==
    x # Health /\ \E i \in 1..Len(ch) : ch[i] = x /\ \A j \in 1..Len(ch) : j > i => ch[j] = Health
noState(ch) == \A i \in 1..Len(ch) : ch[i] = Health

\* What handleSSE has written and what is queued end with the stored state.
caughtUp(c) ==
    \/ lastIs(channel[c], hubState)
    \/ noState(channel[c]) /\ (handlerPc[c] = "loop" => shown[c] = hubState)

\* Between two broadcasts that kept their order every client in the table,
\* whether or not it has read CurrentState yet, is caught up or lags.
ClientInv ==
    /\ channel \in [Client -> Seq(Nat)]
    /\ DOMAIN shown = Client
    /\ DOMAIN lagging = Client
    /\ handlerPc \in [Client -> {"off", "subscribed", "loop"}]
    /\ \A c \in Client : c \in clients <=> handlerPc[c] # "off"
    /\ order = "kept" /\ (\A g \in Caster : casterPc[g] # "send") =>
          \A c \in Client : handlerPc[c] # "off" => lagging[c] \/ caughtUp(c)

\* A state that is queued is the last one; an event that is queued is none.
LEMMA QueueMessage ==
  ASSUME NEW ch \in Seq(Nat), NEW m \in Nat
  PROVE  /\ Append(ch, m) \in Seq(Nat)
         /\ m # Health => lastIs(Append(ch, m), m)
         /\ \A x : lastIs(ch, x) /\ m = Health => lastIs(Append(ch, m), x)
         /\ noState(ch) /\ m = Health => noState(Append(ch, m))
<1>1. PICK q : q = Append(ch, m)
  BY Zenon
<1>2. /\ q \in Seq(Nat) /\ Len(q) = Len(ch) + 1 /\ q[Len(ch) + 1] = m
      /\ \A i \in 1..Len(ch) : q[i] = ch[i]
      /\ \A i \in 1..Len(q) : i \in 1..Len(ch) \/ i = Len(ch) + 1
  BY <1>1
<1>3. m # Health => lastIs(q, m)
  BY <1>2 DEF lastIs
<1>4. ASSUME NEW x, lastIs(ch, x), m = Health PROVE lastIs(q, x)
  <2>1. PICK i \in 1..Len(ch) : ch[i] = x /\ \A j \in 1..Len(ch) : j > i => ch[j] = Health
    BY <1>4 DEF lastIs
  <2>2. i \in 1..Len(q) /\ q[i] = x
    BY <1>2, <2>1
  <2>3. ASSUME NEW j \in 1..Len(q), j > i PROVE q[j] = Health
    <3>1. CASE j \in 1..Len(ch)
      BY Zenon, <1>2, <2>1, <2>3, <3>1
    <3>2. CASE j = Len(ch) + 1
      BY Zenon, <1>2, <1>4, <3>2
    <3> QED
      BY Zenon, <1>2, <3>1, <3>2
  <2> QED
    BY Zenon, <1>4, <2>2, <2>3 DEF lastIs
<1>5. noState(ch) /\ m = Health => noState(q)
  BY Zenon, <1>2 DEF noState
<1> QED
  BY Zenon, <1>1, <1>2, <1>3, <1>4, <1>5

\* When the first message is written, the last state is still queued or is it.
LEMMA TakeMessage ==
  ASSUME NEW ch \in Seq(Nat), ch # <<>>
  PROVE  /\ Tail(ch) \in Seq(Nat)
         /\ \A x : lastIs(ch, x) => lastIs(Tail(ch), x) \/ (Head(ch) = x /\ noState(Tail(ch)))
         /\ noState(ch) => noState(Tail(ch)) /\ Head(ch) = Health
<1>1. PICK q : q = Tail(ch)
  BY Zenon
<1>2. /\ q \in Seq(Nat) /\ Len(q) = Len(ch) - 1 /\ Len(ch) \in Nat /\ Len(ch) > 0
      /\ Head(ch) = ch[1] /\ \A i \in 1..Len(q) : q[i] = ch[i + 1]
  BY <1>1
<1>3. ASSUME NEW x, lastIs(ch, x) PROVE lastIs(q, x) \/ (Head(ch) = x /\ noState(q))
  <2>1. PICK i \in 1..Len(ch) : ch[i] = x /\ \A j \in 1..Len(ch) : j > i => ch[j] = Health
    BY <1>3 DEF lastIs
  <2>2. CASE i = 1
    BY SMTT(60), <1>2, <2>1, <2>2 DEF noState
  <2>3. CASE i # 1
    <3>1. PICK k : k = i - 1
      BY Zenon
    <3>2. k \in 1..Len(q) /\ k + 1 = i
      BY <1>2, <2>3, <3>1
    <3>3. q[k] = x
      BY Zenon, <1>2, <2>1, <3>2
    <3>4. ASSUME NEW j \in 1..Len(q), j > k PROVE q[j] = Health
      <4>1. j + 1 \in 1..Len(ch) /\ j + 1 > i
        BY <1>2, <3>2, <3>4
      <4> QED
        BY Zenon, <1>2, <2>1, <4>1
    <3> QED
      BY Zenon, <1>3, <3>2, <3>3, <3>4 DEF lastIs
  <2> QED
    BY <2>2, <2>3
<1>4. noState(ch) => noState(q) /\ Head(ch) = Health
  BY SMTT(60), <1>2 DEF noState
<1> QED
  BY Zenon, <1>1, <1>2, <1>3, <1>4

\* A step that leaves the clients alone and neither stores nor sends.
LEMMA ClientsAlone ==
  ASSUME ClientInv, UNCHANGED <<clients, channel, handlerPc, shown, lagging, hubState>>,
         order' = "kept" => order = "kept",
         (\A g \in Caster : casterPc'[g] # "send") => (\A g \in Caster : casterPc[g] # "send")
  PROVE  ClientInv'
BY DEF ClientInv, caughtUp

\* The broadcasters keep ClientInv: between store and send nothing is claimed,
\* and the send reaches every client in the table or marks it lagging.
LEMMA ClientCasterStep ==
  ASSUME CasterInv, ClientInv, NEW g \in Caster, casterNext(g)
  PROVE  ClientInv'
<1>1. CASE broadcastState(g) \/ BroadcastIfChanged(g)
  <2>1. UNCHANGED <<clients, channel, handlerPc, shown, lagging, hubState>>
    BY <1>1 DEF broadcastState, BroadcastIfChanged
  <2>2. order' = "kept" => order = "kept"
    BY ZenonT(30), <1>1 DEF broadcastState, BroadcastIfChanged
  <2>3. \A h \in Caster : casterPc'[h] # "send" => casterPc[h] # "send"
    BY ZenonT(60), <1>1 DEF broadcastState, BroadcastIfChanged, casterStep, CasterInv
  <2> QED
    BY ZenonT(30), <2>1, <2>2, <2>3, ClientsAlone
<1>2. CASE BroadcastStore(g)
  <2>1. casterPc'[g] = "send"
    BY <1>2 DEF BroadcastStore, casterStep, CasterInv
  <2>2. UNCHANGED <<clients, channel, handlerPc, shown, lagging>>
    BY ZenonT(60), <1>2 DEF BroadcastStore
  <2> QED
    BY <2>1, <2>2 DEF ClientInv
<1>3. CASE BroadcastSend(g)
  <2>1. /\ UNCHANGED <<hubState, clients, handlerPc, shown>>
        /\ order' = "kept" => order # "raced"
        /\ casterPc[g] = "send" /\ deliver(snapshot[g])
        /\ lagging' = [c \in Client |-> c \in clients /\ ~hasRoom(c)]
    BY <1>3 DEF BroadcastSend, casterStep
  <2>2. PICK m : m = snapshot[g]
    BY Zenon
  <2>3. m \in Nat /\ m # Health /\ (order' = "kept" => hubState = m)
    BY <2>1, <2>2 DEF CasterInv
  <2>4. ASSUME NEW c \in Client
        PROVE  /\ channel'[c] \in Seq(Nat)
               /\ c \in clients => lagging'[c] \/ lastIs(channel'[c], m)
    <3>1. channel'[c] = IF c \in clients /\ hasRoom(c) THEN Append(channel[c], m) ELSE channel[c]
      BY ZenonT(60), <2>1, <2>2 DEF deliver
    <3>2. PICK ch : ch = channel[c]
      BY Zenon
    <3>3. ch \in Seq(Nat)
      BY ZenonT(60), <3>2 DEF ClientInv
    <3>4. Append(ch, m) \in Seq(Nat) /\ lastIs(Append(ch, m), m)
      BY Zenon, <2>3, <3>3, QueueMessage
    <3>5. lagging'[c] = (c \in clients /\ ~hasRoom(c))
      BY Zenon, <2>1
    <3> QED
      BY Zenon, <3>1, <3>2, <3>3, <3>4, <3>5
  <2>5. channel' \in [Client -> Seq(Nat)] /\ DOMAIN lagging' = Client
    BY ZenonT(60), <2>1, <2>4 DEF deliver
  <2> QED
    BY ZenonT(60), <2>1, <2>3, <2>4, <2>5 DEF ClientInv, caughtUp
<1> QED
  BY ZenonT(60), <1>1, <1>2, <1>3 DEF casterNext

\* BroadcastNamed keeps ClientInv: an event hides no state.
LEMMA ClientNamedStep ==
  ASSUME ClientInv, BroadcastNamed
  PROVE  ClientInv'
<1>1. /\ UNCHANGED <<hubState, clients, handlerPc, shown, lagging, order, casterPc>>
      /\ deliver(Health)
  BY DEF BroadcastNamed
<1>2. ASSUME NEW c \in Client
      PROVE  channel'[c] \in Seq(Nat) /\ (caughtUp(c) => caughtUp(c)')
  <2>1. PICK ch, m : ch = channel[c] /\ m = Health
    BY ZenonT(60)
  <2>2. ch \in Seq(Nat) /\ m \in Nat
    BY <2>1 DEF ClientInv, Health
  <2>3. channel'[c] = Append(ch, m) \/ channel'[c] = ch
    BY <1>1, <2>1 DEF deliver
  <2>4. Append(ch, m) \in Seq(Nat) /\ (noState(ch) => noState(Append(ch, m)))
        /\ \A x : lastIs(ch, x) => lastIs(Append(ch, m), x)
    BY Zenon, <2>1, <2>2, QueueMessage
  <2>5. channel'[c] \in Seq(Nat) /\ (noState(ch) => noState(channel'[c]))
        /\ \A x : lastIs(ch, x) => lastIs(channel'[c], x)
    BY Zenon, <2>2, <2>3, <2>4
  <2> QED
    BY Zenon, <1>1, <2>1, <2>5 DEF caughtUp
<1>3. channel' \in [Client -> Seq(Nat)]
  BY <1>1, <1>2 DEF deliver
<1> QED
  BY ZenonT(60), <1>1, <1>2, <1>3 DEF ClientInv

\* The handlers keep ClientInv: a client enters the table with an empty
\* channel, reads the stored state afterwards, and writes in queue order.
LEMMA ClientHandlerStep ==
  ASSUME ClientInv, NEW c \in Client, handleSSEStart(c) \/ handleSSELoop(c) \/ unsubscribe(c)
  PROVE  ClientInv'
<1>1. UNCHANGED <<hubState, order, casterPc>>
  BY ZenonT(60) DEF handleSSEStart, Subscribe, WriteCurrentState, handleSSELoop, unsubscribe
<1>2. CASE Subscribe(c) \/ unsubscribe(c)
  <2>1. /\ channel' = [channel EXCEPT ![c] = <<>>] /\ lagging' = [lagging EXCEPT ![c] = FALSE]
        /\ \A d \in Client : d # c => (d \in clients' <=> d \in clients) /\ handlerPc'[d] = handlerPc[d]
                                        /\ shown'[d] = shown[d]
        /\ handlerPc'[c] \in {"off", "subscribed"} /\ (c \in clients' <=> handlerPc'[c] # "off")
        /\ handlerPc' \in [Client -> {"off", "subscribed", "loop"}] /\ DOMAIN shown' = Client
    BY ZenonT(60), <1>2 DEF Subscribe, unsubscribe, ClientInv
  <2>2. /\ channel' \in [Client -> Seq(Nat)] /\ DOMAIN lagging' = Client
        /\ channel'[c] = <<>> /\ \A d \in Client : d # c => channel'[d] = channel[d] /\ lagging'[d] = lagging[d]
    <3>1. channel \in [Client -> Seq(Nat)] /\ DOMAIN lagging = Client
      BY Zenon DEF ClientInv
    <3>2. <<>> \in Seq(Nat)
      OBVIOUS
    <3> QED
      BY ZenonT(30), <2>1, <3>1, <3>2
  <2>3. noState(channel'[c])
    <3>1. noState(<<>>)
      BY SMTT(60) DEF noState
    <3> QED
      BY Zenon, <2>2, <3>1
  <2>4. ASSUME NEW d \in Client, handlerPc'[d] # "off",
               handlerPc[d] # "off" => lagging[d] \/ caughtUp(d)
        PROVE  lagging'[d] \/ caughtUp(d)'
    BY ZenonT(60), <1>1, <2>1, <2>2, <2>3, <2>4 DEF caughtUp
  <2> QED
    BY ZenonT(60), <1>1, <2>1, <2>2, <2>4 DEF ClientInv
<1>3. CASE WriteCurrentState(c)
  <2>1. /\ UNCHANGED <<clients, channel, lagging>> /\ handlerPc[c] = "subscribed"
        /\ handlerPc' = [handlerPc EXCEPT ![c] = "loop"] /\ shown' = [shown EXCEPT ![c] = hubState]
    BY <1>3 DEF WriteCurrentState
  <2>2. /\ handlerPc' \in [Client -> {"off", "subscribed", "loop"}] /\ DOMAIN shown' = Client
        /\ handlerPc'[c] = "loop" /\ shown'[c] = hubState
        /\ \A d \in Client : d # c => handlerPc'[d] = handlerPc[d] /\ shown'[d] = shown[d]
    BY <2>1 DEF ClientInv
  <2>3. \A d \in Client : caughtUp(d) => caughtUp(d)'
    BY ZenonT(30), <1>1, <2>1, <2>2 DEF caughtUp
  <2> QED
    BY <1>1, <2>1, <2>2, <2>3 DEF ClientInv
<1>4. CASE handleSSELoop(c)
  <2>1. PICK ch : ch = channel[c]
    BY Zenon
  <2>2. /\ UNCHANGED <<clients, lagging, handlerPc>> /\ handlerPc[c] = "loop"
        /\ ch \in Seq(Nat) /\ ch # <<>>
        /\ channel' = [channel EXCEPT ![c] = Tail(ch)]
        /\ shown' = [shown EXCEPT ![c] = IF Head(ch) = Health THEN shown[c] ELSE Head(ch)]
    BY <1>4, <2>1 DEF handleSSELoop, ClientInv
  <2>3. /\ Tail(ch) \in Seq(Nat)
        /\ \A x : lastIs(ch, x) => lastIs(Tail(ch), x) \/ (Head(ch) = x /\ noState(Tail(ch)))
        /\ noState(ch) => noState(Tail(ch)) /\ Head(ch) = Health
    BY Zenon, <2>2, TakeMessage
  <2>4. /\ channel' \in [Client -> Seq(Nat)] /\ DOMAIN shown' = Client /\ channel'[c] = Tail(ch)
        /\ shown'[c] = IF Head(ch) = Health THEN shown[c] ELSE Head(ch)
        /\ \A d \in Client : d # c => channel'[d] = channel[d] /\ shown'[d] = shown[d]
    BY <2>2, <2>3 DEF ClientInv
  <2>5. caughtUp(c) => caughtUp(c)'
    <3>1. CASE lastIs(ch, hubState)
      <4>1. hubState # Health
        BY ZenonT(30), <3>1 DEF lastIs
      <4> QED
        BY <1>1, <2>2, <2>3, <2>4, <3>1, <4>1 DEF caughtUp
    <3>2. CASE noState(ch) /\ shown[c] = hubState
      BY ZenonT(30), <1>1, <2>2, <2>3, <2>4, <3>2 DEF caughtUp
    <3> QED
      BY ZenonT(60), <2>1, <2>2, <3>1, <3>2 DEF caughtUp
  <2>6. \A d \in Client : caughtUp(d) => caughtUp(d)'
    BY <1>1, <2>2, <2>4, <2>5 DEF caughtUp
  <2> QED
    BY <1>1, <2>2, <2>4, <2>6 DEF ClientInv
<1> QED
  BY <1>2, <1>3, <1>4 DEF handleSSEStart

\* Draining a channel shows its last state, or leaves what is shown.
LEMMA DrainedShows ==
  ASSUME NEW c \in Client, ClientInv, caughtUp(c), handlerPc[c] = "loop"
  PROVE  willShow(c) = hubState
<1>1. PICK ch, S : ch = channel[c] /\ S = {i \in 1..Len(ch) : ch[i] # Health}
  BY ZenonT(60)
<1>2. willShow(c) = IF S = {} THEN shown[c] ELSE ch[CHOOSE i \in S : \A j \in S : j <= i]
  BY <1>1 DEF willShow
<1>3. CASE noState(ch) /\ shown[c] = hubState
  <2>1. S = {}
    BY <1>1, <1>3 DEF noState
  <2> QED
    BY Zenon, <1>2, <1>3, <2>1
<1>4. CASE lastIs(ch, hubState)
  <2>1. PICK i \in 1..Len(ch) : ch[i] = hubState /\ \A j \in 1..Len(ch) : j > i => ch[j] = Health
    BY ZenonT(30), <1>4 DEF lastIs
  <2>2. i \in S /\ \A j \in S : j <= i
    BY <1>1, <1>4, <2>1 DEF lastIs
  <2>3. PICK k : k = CHOOSE n \in S : \A j \in S : j <= n
    BY Zenon
  <2>4. k \in S /\ \A j \in S : j <= k
    BY Zenon, <2>2, <2>3
  <2>5. k = i
    BY <1>1, <2>2, <2>4
  <2> QED
    BY Zenon, <1>2, <2>1, <2>2, <2>3, <2>5
<1> QED
  BY Zenon, <1>1, <1>3, <1>4 DEF caughtUp

(* NoStateMissed for any number of clients, broadcasters and states and any *)
(* buffer size: handleSSE subscribes before it reads CurrentState, and      *)
(* Broadcast stores before it sends.                                        *)
THEOREM NoStateIsMissed == HubSpec => []NoStateMissed
<1>1. HubInit => ClientInv
  BY DEF HubInit, ClientInv
<1>2. CasterInv /\ ClientInv /\ [HubNext]_hubVars => ClientInv'
  <2> SUFFICES ASSUME CasterInv, ClientInv, [HubNext]_hubVars PROVE ClientInv'
    OBVIOUS
  <2>1. CASE StateChanges \/ UNCHANGED hubVars
    <3>1. UNCHANGED <<clients, channel, handlerPc, shown, lagging, hubState, order, casterPc>>
      BY Zenon, <2>1 DEF StateChanges, hubVars
    <3> QED
      BY <3>1, ClientsAlone
  <2>2. CASE BroadcastNamed
    BY <2>2, ClientNamedStep
  <2>3. ASSUME NEW g \in Caster, casterNext(g) PROVE ClientInv'
    BY <2>3, ClientCasterStep
  <2>4. ASSUME NEW c \in Client, handleSSEStart(c) \/ handleSSELoop(c) \/ unsubscribe(c) PROVE ClientInv'
    BY <2>4, ClientHandlerStep
  <2> QED
    BY Zenon, <2>1, <2>2, <2>3, <2>4 DEF HubNext
<1>3. ClientInv => NoStateMissed
  <2> SUFFICES ASSUME ClientInv, order = "kept", \A g \in Caster : casterPc[g] = "idle",
                      NEW c \in Client, handlerPc[c] = "loop"
               PROVE  lagging[c] \/ willShow(c) = hubState
    BY Zenon DEF NoStateMissed
  <2>1. \A g \in Caster : casterPc[g] # "send"
    BY SMT
  <2>2. handlerPc[c] # "off"
    BY SMT
  <2>3. lagging[c] \/ caughtUp(c)
    BY Zenon, <2>1, <2>2 DEF ClientInv
  <2> QED
    BY Zenon, <2>3, DrainedShows
<1> QED
  BY <1>1, <1>2, <1>3, CasterInvariant, PTL DEF HubSpec

=============================================================================
