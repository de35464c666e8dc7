---------------------------- MODULE VersionGate -----------------------------
(***************************************************************************)
(* The start-up gate on the UniFi Network version (detect.go, main.go).    *)
(* Package upgrades may still be running when the manager starts; exit 78  *)
(* is final, because systemd does not restart the unit after it.           *)
(* A version is <<major, minor>>, Unreadable when it does not parse or the *)
(* package is not there.                                                   *)
(***************************************************************************)
EXTENDS Integers

CONSTANTS
    Version,            \* the versions the packages go through
    Unreadable,
    unifiGateAttempts   \* 18 in the code

ASSUME AttemptsAssumption == unifiGateAttempts \in Nat \ {0}

VARIABLES
    installed,   \* what dpkg-query answers now
    raw,         \* what the gate has read last
    earlyBoot,   \* the uptime is known and within unifiGateBootWindow
    gatePc,      \* "check", "wait", "read", then how it ended
    attempts,    \* waits so far
    cancelled,   \* SIGTERM has arrived
    cancelledAt  \* history: <<gatePc, attempts>> when it arrived

gateVars == <<installed, raw, earlyBoot, gatePc, attempts, cancelled, cancelledAt>>

GateInit ==
    /\ installed \in Version \cup {Unreadable}
    /\ raw = installed            \* DeviceInfo.UniFiVersion, read at start-up
    /\ earlyBoot \in BOOLEAN
    /\ gatePc = "check"
    /\ attempts = 0
    /\ cancelled = FALSE
    /\ cancelledAt = <<"none", 0>>

minNetworkMajor == 10
minNetworkMinor == 1

\* checkMinUniFiVersion.
Supported(v) ==
    /\ v # Unreadable
    /\ \/ v[1] > minNetworkMajor
       \/ v[1] = minNetworkMajor /\ v[2] >= minNetworkMinor

\* awaitSupportedUniFiVersion: the version found at start-up, and the window.
checkFirst ==
    /\ gatePc = "check"
    /\ gatePc' = IF Supported(raw) THEN "serve" ELSE IF earlyBoot THEN "wait" ELSE "exit78"
    /\ UNCHANGED <<installed, raw, earlyBoot, attempts, cancelled, cancelledAt>>

\* Mutant: a sleep that does not see the context.
waitUninterrupted ==
    /\ gatePc = "wait"
    /\ gatePc' = "read"
    /\ attempts' = attempts + 1
    /\ UNCHANGED <<installed, raw, earlyBoot, cancelled, cancelledAt>>

\* wait: ten seconds, or the context.  When both are ready at once, which is
\* only so when the signal came during this wait, select picks either.
waitOrCancel ==
    /\ gatePc = "wait"
    /\ \/ cancelled /\ gatePc' = "shutdown" /\ UNCHANGED attempts
       \/ /\ ~cancelled \/ cancelledAt = <<"wait", attempts>>
          /\ gatePc' = "read"
          /\ attempts' = attempts + 1
    /\ UNCHANGED <<installed, raw, earlyBoot, cancelled, cancelledAt>>

\* Mutant: the loop goes on until the version is supported.
readForEver ==
    /\ gatePc = "read"
    /\ raw' = installed
    /\ gatePc' = IF Supported(installed) THEN "serve" ELSE "wait"
    /\ attempts' = 0
    /\ UNCHANGED <<installed, earlyBoot, cancelled, cancelledAt>>

\* The version is read again, up to unifiGateAttempts times.
readAgain ==
    /\ gatePc = "read"
    /\ raw' = installed
    /\ gatePc' = IF Supported(installed) THEN "serve"
                 ELSE IF attempts < unifiGateAttempts THEN "wait" ELSE "exit78"
    /\ UNCHANGED <<installed, earlyBoot, attempts, cancelled, cancelledAt>>

gateNext == checkFirst \/ waitOrCancel \/ readAgain

\* dpkg replaces the package: for a while there is none, then the next one.
dpkgRuns ==
    /\ installed' \in Version \cup {Unreadable}
    /\ UNCHANGED <<raw, earlyBoot, gatePc, attempts, cancelled, cancelledAt>>

signalArrives ==
    /\ ~cancelled
    /\ cancelled' = TRUE /\ cancelledAt' = <<gatePc, attempts>>
    /\ UNCHANGED <<installed, raw, earlyBoot, gatePc, attempts>>

GateNext == gateNext \/ dpkgRuns \/ signalArrives
GateSpec == GateInit /\ [][GateNext]_gateVars /\ WF_gateVars(gateNext)

\* The gate always comes to a verdict: it serves, shuts down or exits.
GateDecides == <>(gatePc \in {"serve", "shutdown", "exit78"})

\* A shutdown is not mistaken for an unsupported device: exit 78 is reached
\* with the context cancelled only when the signal came during the last wait
\* or after it, never when an earlier one should have noticed it.
ShutdownIsNot78 ==
    gatePc = "exit78" /\ earlyBoot =>
        \/ ~cancelled
        \/ cancelledAt = <<"wait", unifiGateAttempts - 1>>
        \/ cancelledAt[2] = unifiGateAttempts
=============================================================================
