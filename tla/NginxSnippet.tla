---------------------------- MODULE NginxSnippet ----------------------------
(***************************************************************************)
(* The goroutine that keeps the manager's nginx snippet in place           *)
(* (watcher_nginx.go) and the installation of it (nginx.go).  unifi-core   *)
(* creates the directory, removes or overwrites the snippet and adds other *)
(* files at times of its own; inotify may lose an event.                   *)
(***************************************************************************)
EXTENDS Integers

CONSTANTS
    MaxTouches,   \* bound: what unifi-core does to the directory
    MaxNgErrors   \* bound: failing reads, writes and reloads

VARIABLES
    ngPc,        \* "wait", "ensure", "watch", "poll", "ended"
    dir,         \* NginxConfigDir exists
    snippet,     \* "absent", "ours", "foreign": the content at configDest
    events,      \* inotify events not read yet
    inotify,     \* the watcher's channels are open
    touches, ngErrors

ngVars == <<ngPc, dir, snippet, events, inotify, touches, ngErrors>>

NgInit ==
    /\ ngPc = "wait"
    /\ dir \in BOOLEAN
    /\ snippet \in (IF dir THEN {"absent", "ours", "foreign"} ELSE {"absent"})
    /\ events = {}
    /\ inotify = TRUE
    /\ touches = 0
    /\ ngErrors = 0

-----------------------------------------------------------------------------
(* NginxManager.EnsureConfig *)

\* The source cannot be read, the destination cannot be written (always so
\* without a directory), its mode cannot be set, or nginx does not reload.  A
\* write that was reached stays, one that failed midway left part of it.
ensureFails ==
    /\ \/ ~dir /\ ngErrors' = ngErrors
       \/ ngErrors < MaxNgErrors /\ ngErrors' = ngErrors + 1
    /\ \/ UNCHANGED snippet
       \/ dir /\ snippet # "ours" /\ snippet' \in {"ours", "foreign"}

\* The content is compared, written when it differs, and nginx reloaded.
ensureSucceeds ==
    /\ dir
    /\ snippet' = "ours"
    /\ UNCHANGED ngErrors

EnsureConfig == ensureSucceeds \/ ensureFails

noEnsure == UNCHANGED <<snippet, ngErrors>>

-----------------------------------------------------------------------------
(* runNginxWatcher *)

\* waitForNginxDir: the directory is there, or the deadline has passed.
waitForNginxDir ==
    /\ ngPc = "wait"
    /\ ngPc' = "ensure"
    /\ noEnsure
    /\ UNCHANGED <<dir, events, inotify, touches>>

\* The initial EnsureConfig, then inotify, or polling when it is refused.
startNginxWatcher ==
    /\ ngPc = "ensure"
    /\ EnsureConfig
    /\ \/ dir /\ ngPc' = "watch" /\ inotify' = TRUE
       \/ ngPc' = "poll" /\ inotify' = FALSE
    /\ UNCHANGED <<dir, events, touches>>

\* Mutant: a poll only looks, and leaves the repair to the events.
checkNeverRepairs == noEnsure

\* checkNginxConfig: repair the snippet when it is missing.
checkNginxConfig == IF snippet = "absent" THEN EnsureConfig ELSE noEnsure

\* One tick of nginxWatchLoop or of nginxPollLoop.
nginxTick ==
    /\ ngPc \in {"watch", "poll"}
    /\ checkNginxConfig
    /\ UNCHANGED <<ngPc, dir, events, inotify, touches>>

\* handleNginxEvent: the snippet was removed, or another file was created.
handleNginxEvent(e) ==
    /\ ngPc = "watch" /\ inotify
    /\ e \in events
    /\ events' = events \ {e}
    /\ IF e = "removed" \/ snippet = "absent" THEN EnsureConfig ELSE noEnsure
    /\ UNCHANGED <<ngPc, dir, inotify, touches>>

\* The channels are closed: the select may pick either.  A closed Events
\* channel falls back to polling, a closed Errors channel ends the watcher.
nginxChannelClosed ==
    /\ ngPc = "watch" /\ ~inotify
    /\ ngPc' \in {"poll", "ended"}
    /\ noEnsure
    /\ UNCHANGED <<dir, events, inotify, touches>>

-----------------------------------------------------------------------------
(* unifi-core and the kernel *)

touch == touches < MaxTouches /\ touches' = touches + 1

\* An event reaches the watcher's channel, or is lost.
signal(e) == events' \in (IF ngPc = "watch" /\ inotify THEN {events, events \cup {e}}
                                                        ELSE {events})

dirAppears ==
    /\ touch /\ ~dir
    /\ dir' = TRUE
    /\ UNCHANGED <<ngPc, snippet, events, inotify, ngErrors>>

snippetRemoved ==
    /\ touch /\ snippet # "absent"
    /\ snippet' = "absent"
    /\ signal("removed")
    /\ UNCHANGED <<ngPc, dir, inotify, ngErrors>>

otherFileCreated ==
    /\ touch /\ dir
    /\ signal("created")
    /\ UNCHANGED <<ngPc, dir, snippet, inotify, ngErrors>>

snippetOverwritten ==
    /\ touch /\ snippet = "ours"
    /\ snippet' = "foreign"
    /\ UNCHANGED <<ngPc, dir, events, inotify, ngErrors>>

inotifyCloses ==
    /\ touch /\ ngPc = "watch" /\ inotify
    /\ inotify' = FALSE /\ events' = {}
    /\ UNCHANGED <<ngPc, dir, snippet, ngErrors>>

-----------------------------------------------------------------------------
ngWatcher ==
    \/ waitForNginxDir \/ startNginxWatcher \/ nginxChannelClosed
    \/ \E e \in events : handleNginxEvent(e)

NgNext ==
    \/ ngWatcher \/ nginxTick
    \/ dirAppears \/ snippetRemoved \/ otherFileCreated \/ snippetOverwritten
    \/ inotifyCloses

\* The goroutine runs and its ticker ticks.
NgSpec == NgInit /\ [][NgNext]_ngVars /\ WF_ngVars(ngWatcher) /\ WF_ngVars(nginxTick)

-----------------------------------------------------------------------------
\* A snippet missing from an existing directory is written again, even when its
\* event was lost and the first attempts fail, unless the watcher has ended on
\* a closed Errors channel.  (A file that is there is compared only after an
\* event or at a start: checkNginxConfig looks no further than os.Stat.)
SnippetPutBack == (dir /\ snippet = "absent") ~> (snippet # "absent" \/ ngPc = "ended")
=============================================================================
