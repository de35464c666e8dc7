---------------------------- MODULE ManifestFile ----------------------------
(***************************************************************************)
(* manifest.json: the in-memory manifest, saveLocked and the steps of      *)
(* state.WriteFile under the manifest's mutex, and the start of the daemon *)
(* (orphan sweep, LoadManifest), with process crashes and power failures   *)
(* between any two steps.  The content of a file is one value; what a      *)
(* power failure may leave of it is a set of values.                       *)
(***************************************************************************)
EXTENDS Integers

CONSTANTS Content,        \* manifests a setter may produce
          Fresh,          \* the manifest NewManifest returns
          V1, Migrated,   \* a version 1 file, and what migrateV1 makes of it
          Absent,         \* there is no file
          Torn,           \* bytes that are not a manifest
          Idle,
          MaxPowerLoss    \* bound on power failures

\* What is not a manifest is told apart from every manifest.
ASSUME DistinctFiles ==
  /\ Torn \notin Content \cup {Fresh, V1, Migrated, Absent}
  /\ Idle \notin Content \cup {Fresh, V1, Migrated, Absent, Torn}

VARIABLES filePc,    \* the step of the owner
          mem,       \* the manifest in memory
          tmpSafe,   \* the bytes of the temporary file reached the disk
          tmps,      \* number of *.tmp files in the directory
          visible,   \* what reading the path returns
          durable,   \* what the path may hold after a power failure
          saved,     \* what the last setter returned
          losses     \* power failures so far

fileVars == <<filePc, mem, tmpSafe, tmps, visible, durable, saved, losses>>

Manifests == Content \cup {Fresh, Migrated}
Files == Manifests \cup {V1, Absent, Torn}
WriteSteps == {"create", "write", "chmod", "sync", "close", "rename", "syncDir"}
TempSteps == WriteSteps \ {"create", "syncDir"}

FileInit == /\ filePc = "down"
            /\ mem = Fresh
            /\ tmpSafe = FALSE
            /\ tmps = 0
            /\ visible \in {Absent, V1}
            /\ durable = {visible}
            /\ saved = "none"
            /\ losses = 0

(***************************************************************************)
(* A setter changes the manifest under m.mu and saves it; the lock is held *)
(* to the end of the save, so mem is also the value being written.         *)
(***************************************************************************)
SetManifest == /\ filePc = "up"
               /\ mem' \in Content
               /\ filePc' = "create"
               /\ saved' = "none"
               /\ UNCHANGED <<tmpSafe, tmps, visible, durable, losses>>

CreateTemp ==
  /\ filePc = "create"
  /\ \/ /\ filePc' = "write"
        /\ tmps' = tmps + 1
        /\ tmpSafe' = FALSE
        /\ UNCHANGED saved
     \/ /\ filePc' = "up"
        /\ saved' = "error"
        /\ UNCHANGED <<tmps, tmpSafe>>
  /\ UNCHANGED <<mem, visible, durable, losses>>

\* A step on the temporary file that changes neither the path nor what is safe.
TempStep(step, next) ==
  /\ filePc = step
  /\ filePc' = next
  /\ UNCHANGED <<mem, tmpSafe, tmps, visible, durable, saved, losses>>

WriteTemp == TempStep("write", "chmod")

ChmodTemp == TempStep("chmod", "sync")

\* A write that never asks the kernel to flush.
SyncFileForgotten == TempStep("sync", "close")

SyncFile == /\ filePc = "sync"
            /\ filePc' = "close"
            /\ tmpSafe' = TRUE
            /\ UNCHANGED <<mem, tmps, visible, durable, saved, losses>>

CloseTemp == TempStep("close", "rename")

\* An error path that leaves the temporary file behind.
CleanupForgotten ==
  /\ filePc \in TempSteps
  /\ filePc' = "up"
  /\ saved' = "error"
  /\ UNCHANGED <<mem, tmpSafe, tmps, visible, durable, losses>>

\* Any step between creation and rename fails: close, remove, return the error.
FailAndCleanup ==
  /\ filePc \in TempSteps
  /\ filePc' = "up"
  /\ saved' = "error"
  /\ tmps' = tmps - 1
  /\ UNCHANGED <<mem, tmpSafe, visible, durable, losses>>

\* What a power failure may leave of the bytes that were renamed into place.
Survivors == IF tmpSafe THEN {mem} ELSE {mem, Torn}

Rename == /\ filePc = "rename"
          /\ filePc' = "syncDir"
          /\ visible' = mem
          /\ durable' = durable \cup Survivors
          /\ tmps' = tmps - 1
          /\ UNCHANGED <<mem, tmpSafe, saved, losses>>

\* Acknowledging the write without syncing the directory.
SyncDirForgotten ==
  /\ filePc = "syncDir"
  /\ filePc' = "up"
  /\ saved' = "ok"
  /\ UNCHANGED <<mem, tmpSafe, tmps, visible, durable, losses>>

\* An error here is returned too, but the new content stays in place.
SyncDir ==
  /\ filePc = "syncDir"
  /\ filePc' = "up"
  /\ \/ saved' = "ok" /\ durable' = Survivors
     \/ saved' = "error" /\ UNCHANGED durable
  /\ UNCHANGED <<mem, tmpSafe, tmps, visible, losses>>

ProcessCrash == /\ filePc \notin {"down", "load"}
                /\ filePc' = "down"
                /\ saved' = "none"
                /\ UNCHANGED <<mem, tmpSafe, tmps, visible, durable, losses>>

\* A rename that was not synced may be undone, and its source come back.
PowerLoss == /\ losses < MaxPowerLoss
             /\ losses' = losses + 1
             /\ filePc' = "down"
             /\ saved' = "none"
             /\ visible' \in durable
             /\ durable' = {visible'}
             /\ tmps' \in 0..(IF durable = {visible} THEN tmps ELSE tmps + 1)
             /\ UNCHANGED <<mem, tmpSafe>>

\* A start that loads before it sweeps anything.
SweepForgotten == TempStep("down", "load")

\* The directory can be read and its files removed: else the sweep only logs.
sweepStartupOrphanTmps ==
  /\ filePc = "down"
  /\ filePc' = "load"
  /\ tmps' = 0
  /\ UNCHANGED <<mem, tmpSafe, visible, durable, saved, losses>>

(***************************************************************************)
(* LoadManifest as main uses it: no file, a file that cannot be parsed     *)
(* (copied to quarantine, left in place) and a read error all start from   *)
(* an empty manifest.                                                      *)
(***************************************************************************)
LoadManifest ==
  /\ filePc = "load"
  /\ filePc' = "up"
  /\ mem' \in {Fresh, IF visible \in {Absent, Torn} THEN Fresh
                      ELSE IF visible = V1 THEN Migrated
                      ELSE visible}
  /\ UNCHANGED <<tmpSafe, tmps, visible, durable, saved, losses>>

FileNext == \/ SetManifest
            \/ CreateTemp
            \/ WriteTemp
            \/ ChmodTemp
            \/ SyncFile
            \/ CloseTemp
            \/ FailAndCleanup
            \/ Rename
            \/ SyncDir
            \/ ProcessCrash
            \/ PowerLoss
            \/ sweepStartupOrphanTmps
            \/ LoadManifest

FileSpec == FileInit /\ [][FileNext]_fileVars

-----------------------------------------------------------------------------
\* The range of every variable of the file and its owner.
FileTypeOK == /\ filePc \in WriteSteps \cup {"down", "load", "up"}
              /\ mem \in Manifests
              /\ tmpSafe \in BOOLEAN
              /\ tmps \in Nat
              /\ visible \in Files
              /\ durable \in SUBSET Files
              /\ saved \in {"none", "ok", "error"}
              /\ losses \in Nat

Register == INSTANCE DurableRegister WITH
              Value <- Files \ {Torn},
              val <- visible,
              may <- durable,
              pending <- IF filePc \in WriteSteps THEN mem ELSE Idle,
              result <- saved

\* The steps of WriteFile implement a durable register: a reader never sees a
\* torn file, a save that returned nil survives power failures, and one that
\* failed or was cut short leaves the old manifest or the new one.
FileIsDurable == Register!Spec

\* No temporary file outlives its write while the daemon serves: every error
\* path of WriteFile removes its own, and a start sweeps what a crash left,
\* the ones an undone rename brings back included.
NoOrphanTmp == filePc = "up" => tmps = 0
=============================================================================
