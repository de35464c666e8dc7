---------------------------- MODULE UpdateCheck -----------------------------
(***************************************************************************)
(* The release check (updater.go): a cache of the last answer, a short     *)
(* memory of the last failure, and one shared request for all callers.     *)
(* Versions are numbers in the order of compareVersions; 0 is one of its   *)
(* sentinels ("", "dev"), which compare equal to everything.               *)
(***************************************************************************)
EXTENDS Integers, FiniteSets

CONSTANTS
    Checker,      \* callers of check: the timer and the HTTP handlers
    Running,      \* the running version
    MaxRelease,   \* bound: the newest version ever published
    MaxFetches    \* bound: requests to GitHub

ASSUME RunningAssumption == Running \in Nat

VARIABLES
    release,      \* the latest release GitHub answers with
    info,         \* uc.info: the version it holds, NoInfo if nil
    infoYoung,    \* checkedAt within UpdateCheckPeriod
    failYoung,    \* failedAt within UpdateFailCacheTTL
    fetching,     \* a request is in flight
    checkerPc,    \* where each caller is
    answer,       \* what each caller was told, NoInfo before its first answer
    fetches

updVars == <<release, info, infoYoung, failYoung, fetching, checkerPc, answer, fetches>>

NoInfo == -1      \* nil
Unknown == -2     \* {Available: false}: nothing is known

UpdInit ==
    /\ release \in 0..MaxRelease
    /\ info = NoInfo
    /\ infoYoung = FALSE
    /\ failYoung = FALSE
    /\ fetching = FALSE
    /\ checkerPc = [c \in Checker |-> "idle"]
    /\ answer = [c \in Checker |-> NoInfo]
    /\ fetches = 0

\* compareVersions(remote, current) > 0, as fetchLatest asks it.
Available(remote) == remote # 0 /\ Running # 0 /\ remote > Running

\* Mutant: a failed refresh answers as if nothing had ever been known.
lastKnownForgotten == Unknown

\* lastKnownLocked.
lastKnown == IF info # NoInfo THEN info ELSE Unknown

goes(c, to) == checkerPc' = [checkerPc EXCEPT ![c] = to]
told(c, v) == answer' = [answer EXCEPT ![c] = v]

\* check, under uc.mu: the cache, or the memory of a failure, answers.
checkCached(c) ==
    /\ checkerPc[c] = "idle"
    /\ \/ info # NoInfo /\ infoYoung /\ told(c, info)
       \/ ~(info # NoInfo /\ infoYoung) /\ failYoung /\ told(c, lastKnown)
    /\ UNCHANGED <<release, info, infoYoung, failYoung, fetching, checkerPc, fetches>>

\* Otherwise the lock is given up and the caller goes to the shared request.
checkMisses(c) ==
    /\ checkerPc[c] = "idle"
    /\ ~(info # NoInfo /\ infoYoung) /\ ~failYoung
    /\ goes(c, "missed")
    /\ UNCHANGED <<release, info, infoYoung, failYoung, fetching, answer, fetches>>

\* singleflight.Do: join the request in flight, or begin one.
joinFetch(c) ==
    /\ checkerPc[c] = "missed"
    /\ \/ fetching /\ UNCHANGED <<fetching, fetches>>
       \/ ~fetching /\ fetches < MaxFetches /\ fetching' = TRUE /\ fetches' = fetches + 1
    /\ goes(c, "waiting")
    /\ UNCHANGED <<release, info, infoYoung, failYoung, answer>>

\* fetchLatest answers: every caller waiting has the answer.
fetchSucceeds ==
    /\ fetching
    /\ fetching' = FALSE
    /\ info' = release /\ infoYoung' = TRUE /\ failYoung' = FALSE
    /\ checkerPc' = [c \in Checker |-> IF checkerPc[c] = "waiting" THEN "idle" ELSE checkerPc[c]]
    /\ answer' = [c \in Checker |-> IF checkerPc[c] = "waiting" THEN release ELSE answer[c]]
    /\ UNCHANGED <<release, fetches>>

\* It fails: no network, not 200, or not JSON.
fetchFails ==
    /\ fetching
    /\ fetching' = FALSE
    /\ failYoung' = TRUE
    /\ checkerPc' = [c \in Checker |-> IF checkerPc[c] = "waiting" THEN "failed" ELSE checkerPc[c]]
    /\ UNCHANGED <<release, info, infoYoung, answer, fetches>>

\* A caller whose request failed takes the lock again for the last known.
answerLastKnown(c) ==
    /\ checkerPc[c] = "failed"
    /\ goes(c, "idle")
    /\ told(c, lastKnown)
    /\ UNCHANGED <<release, info, infoYoung, failYoung, fetching, fetches>>

timePasses ==
    /\ \/ infoYoung /\ infoYoung' = FALSE /\ UNCHANGED failYoung
       \/ failYoung /\ failYoung' = FALSE /\ UNCHANGED infoYoung
    /\ UNCHANGED <<release, info, fetching, checkerPc, answer, fetches>>

published ==
    /\ release < MaxRelease
    /\ release' = release + 1
    /\ UNCHANGED <<info, infoYoung, failYoung, fetching, checkerPc, answer, fetches>>

UpdNext ==
    \/ \E c \in Checker : \/ checkCached(c) \/ checkMisses(c) \/ joinFetch(c)
                          \/ answerLastKnown(c)
    \/ fetchSucceeds \/ fetchFails \/ timePasses \/ published

UpdSpec == UpdInit /\ [][UpdNext]_updVars

offered(c) == answer[c] \notin {NoInfo, Unknown} /\ Available(answer[c])

\* A caller that was told of an update is never told later that there is none
\* while releases only grow, whichever of its requests failed, expired or was
\* shared: the comment on lastKnownLocked, over any number of calls.
UpdateNotForgotten == [][\A c \in Checker : offered(c) => offered(c)']_updVars

=============================================================================
