----------------------------- MODULE RemoteExit -----------------------------
(***************************************************************************)
(* The remote exit node: the Enable and Disable sagas of                   *)
(* service/remote_exit.go, the ip rules and masquerade of                  *)
(* service/exitnode.go, and the firewall watcher that keeps the manifest   *)
(* and the rules in line with the preferences of tailscaled.               *)
(*                                                                         *)
(* sagaMu lets one saga run at a time, so one program counter, apc, stands *)
(* for the handlers.  The watcher is a goroutine of its own, wpc: it reads *)
(* the flag `applying' once, and never takes sagaMu.  Apply, Cleanup and   *)
(* Reconcile run under ExitNodeService.mu and are single steps, whose      *)
(* failures leave what the failing commands leave.                         *)
(***************************************************************************)
EXTENDS Integers

CONSTANTS
  Peers,      \* the peers that offer an exit node
  NoPeer,     \* the empty ExitNodeID
  Policies,   \* the policies a user asks for: the sources they route
  AllPolicy,  \* what ExitNodeAll routes
  Families,   \* the families of ip tables at hand; no "v6" without IPv6
  External,   \* whether others edit the preferences (the tailscale CLI)
  Faults,     \* the calls that may fail
  MaxOps,     \* bound: requests and edits
  MaxFaults   \* bound: failures

FaultKinds == {"cmd", "edit", "lost", "undo", "save", "cancel", "crash"}

ASSUME ConstantsOK ==
  /\ NoPeer \notin Peers
  /\ AllPolicy # {}
  /\ Families \subseteq {"v4", "v6"} /\ "v4" \in Families
  /\ External \in BOOLEAN
  /\ Faults \subseteq FaultKinds
  /\ MaxOps \in Nat
  /\ MaxFaults \in Nat

(***************************************************************************)
(* domain.RemoteExitNode; no peer is the nil pointer.  A policy is the set *)
(* of sources its rules match, so mode off and a selective mode with no    *)
(* client are both the empty set.                                          *)
(***************************************************************************)
NoRem == [peer |-> NoPeer, pol |-> {}]
Remotes == {NoRem} \cup [peer : Peers, pol : Policies \cup {AllPolicy}]
Manifests == [rem : Remotes, adv : BOOLEAN]
Prefs == [exit : Peers \cup {NoPeer}, adv : BOOLEAN]
Sources == UNION (Policies \cup {AllPolicy})

VARIABLES
  prefs,     \* tailscaled: the exit node used, and whether one is advertised
  man,       \* state.Manifest in memory
  disk,      \* the manifest file
  rules,     \* the sources with an ip rule
  masq,      \* copies of the masquerade rule, by family
  applying,  \* RemoteExitService.applying
  apc,       \* where the saga is
  req,       \* newRemote
  prev,      \* prevRemote
  old,       \* the preferences Enable read
  wpc,       \* where restoreExitNodeRules is
  wexit,     \* tsExitNode
  wrem,      \* the entry SyncManifestFromTailscale is about to write
  wpol,      \* the policy read for Reconcile
  raced,     \* history: the sync was past its test of applying
             \* when the running saga set the flag
  ops,       \* requests left
  nf         \* failures left

tailscaled == prefs
manifest == <<man, disk>>
kernel == <<rules, masq>>
saga == <<applying, apc, req, prev, old, raced>>
watcher == <<wpc, wexit, wrem, wpol>>
vars == <<prefs, man, disk, rules, masq, applying, apc, req, prev, old, wpc,
          wexit, wrem, wpol, raced, ops, nf>>

SagaPcs == {"idle", "flag", "persist", "adv", "apply", "edit", "undoEdit",
            "undoApply", "undoAdv", "undoRem", "done", "fail",
            "dEdit", "dClean", "dRem", "dDone"}
SyncPcs == {"prefs", "sync", "wclean", "wset"}
WatcherPcs == SyncPcs \cup {"idle", "pol", "rec"}

NoMasq == [f \in Families |-> 0]

Init ==
  /\ prefs \in {[exit |-> NoPeer, adv |-> a] : a \in BOOLEAN}
  /\ man = [rem |-> NoRem, adv |-> FALSE]
  /\ disk = man
  /\ rules = {}
  /\ masq = NoMasq
  /\ applying = FALSE
  /\ apc = "idle"
  /\ req = NoRem
  /\ prev = NoRem
  /\ old = [exit |-> NoPeer, adv |-> FALSE]
  /\ wpc = "idle"
  /\ wexit = NoPeer
  /\ wrem = NoRem
  /\ wpol = {}
  /\ raced = FALSE
  /\ ops = MaxOps
  /\ nf = MaxFaults

-----------------------------------------------------------------------------
(* A failure of kind k happens, or none does. *)
Fault(k) == k \in Faults /\ nf > 0 /\ nf' = nf - 1
NoFault == nf' = nf

(***************************************************************************)
(* Manifest.saveLocked writes the whole manifest.  The setters assign      *)
(* before they save, so a failed save leaves the new value in memory; it   *)
(* may fail before or after the rename.                                    *)
(***************************************************************************)
SaveOK(m) == man' = m /\ disk' = m /\ NoFault
SaveErr(m) == man' = m /\ disk' \in {disk, m} /\ Fault("save")
SetRemoteExitNode(r) == SaveOK([man EXCEPT !.rem = r])
SetRemoteExitNodeErr(r) == SaveErr([man EXCEPT !.rem = r])

(***************************************************************************)
(* ExitNodeService.  A "cmd" failure is one bad spell in which any of the  *)
(* ip and iptables commands of the call may fail.                          *)
(***************************************************************************)
Fewer(n) == IF n > 0 THEN n - 1 ELSE 0
More(n, pol) == IF pol = {} THEN n ELSE n + 1

(* -D removes one copy, and its errors are ignored. *)
delMasquerade == [f \in Families |-> Fewer(masq[f])]
addMasquerade(m, pol) == [f \in Families |-> More(m[f], pol)]
Copies == 0..(1 + MaxFaults)
DelMasqueradeErr ==
  {m \in [Families -> Copies] : \A f \in Families : m[f] \in {masq[f], Fewer(masq[f])}}

(* What may be left of the deletion and of the additions that were made: *)
(* IPv4 comes first.                                                     *)
PartialMasquerade(pol, additions) ==
  {[f \in Families |-> IF f \in added THEN More(m[f], pol) ELSE m[f]] :
     m \in DelMasqueradeErr, added \in additions}

CleanupOK == rules' = {} /\ masq' = delMasquerade /\ NoFault
CleanupErr ==
  /\ Fault("cmd")
  /\ rules' \in SUBSET rules
  /\ masq' \in DelMasqueradeErr
Cleanup == (CleanupOK \/ CleanupErr) /\ UNCHANGED manifest

ApplyOK_Keeps(pol) ==
  /\ rules' = rules \cup pol
  /\ masq' = addMasquerade(masq, pol)
  /\ NoFault
  /\ man' = man
  /\ disk' = man

(* Errors of the cleanup are only logged: what it leaves behind stays beside *)
(* the new rules, unless it is one of them (EEXIST, an ApplyErr).            *)
ApplyOK(pol) ==
  /\ \/ /\ rules' = pol
        /\ masq' = addMasquerade(delMasquerade, pol)
        /\ NoFault
     \/ /\ Fault("cmd")
        /\ \E left \in SUBSET (rules \ pol) : rules' = left \cup pol
        /\ masq' \in {addMasquerade(m, pol) : m \in DelMasqueradeErr}
  /\ man' = man
  /\ disk' = man

ApplyErr(pol) ==
  /\ \/ /\ Fault("cmd")
        /\ rules' \in SUBSET (rules \cup pol)
        /\ masq' \in PartialMasquerade(pol, {{}, {"v4"}})
        /\ disk' = disk
     \/ /\ Fault("save")
        /\ rules' = {}
        /\ masq' = delMasquerade
        /\ disk' \in {disk, man}
  /\ man' = man

-----------------------------------------------------------------------------
(***************************************************************************)
(* Enable.  The steps of its saga, and the way back: ops.Run undoes the    *)
(* completed steps in reverse, the failed one not included, and treats a   *)
(* request cancelled during a step as a failure after it.                  *)
(***************************************************************************)
Undo == [persist |-> "undoRem", adv |-> "undoAdv", apply |-> "undoApply",
         edit |-> "undoEdit"]

StepAfter == [persist |-> IF old.adv THEN "adv" ELSE "apply", adv |-> "apply",
              apply |-> "edit", edit |-> "done"]

UndoOfStepBefore ==
  [persist |-> "fail", adv |-> Undo.persist,
   apply |-> IF old.adv THEN Undo.adv ELSE Undo.persist, edit |-> Undo.apply]

Fail_NotFirst(step) ==
  apc' = IF UndoOfStepBefore[step] = Undo.persist THEN "fail" ELSE UndoOfStepBefore[step]

Succeed(step) == apc' = StepAfter[step]
Fail(step) == apc' = UndoOfStepBefore[step]

Enable(p, pol) ==
  /\ apc = "idle"
  /\ ops > 0
  /\ ops' = ops - 1
  /\ apc' = "flag"
  /\ req' = [peer |-> p, pol |-> pol]
  /\ old' = prefs
  /\ UNCHANGED <<tailscaled, manifest, kernel, watcher, applying, prev, raced, nf>>

SetApplying ==
  /\ apc = "flag"
  /\ apc' = "persist"
  /\ applying' = TRUE
  /\ raced' = (wpc \in SyncPcs)
  /\ prev' = man.rem
  /\ UNCHANGED <<tailscaled, manifest, kernel, watcher, req, old, ops, nf>>

PersistRemote ==
  /\ apc = "persist"
  /\ \/ SetRemoteExitNode(req) /\ Succeed("persist")
     \/ SetRemoteExitNodeErr(req) /\ Fail("persist")
  /\ UNCHANGED <<tailscaled, kernel, watcher, applying, req, prev, old, raced, ops>>

ClearAdvertise ==
  /\ apc = "adv"
  /\ \/ SaveOK([man EXCEPT !.adv = FALSE]) /\ Succeed("adv")
     \/ SaveErr([man EXCEPT !.adv = FALSE]) /\ Fail("adv")
  /\ UNCHANGED <<tailscaled, kernel, watcher, applying, req, prev, old, raced, ops>>

ApplyRules ==
  /\ apc = "apply"
  /\ \/ ApplyOK(req.pol) /\ Succeed("apply")
     \/ ApplyErr(req.pol) /\ Fail("apply")
  /\ UNCHANGED <<tailscaled, watcher, applying, req, prev, old, raced, ops>>

(***************************************************************************)
(* tailscaled refuses to both use and advertise an exit node.  A call may  *)
(* fail before it takes effect ("edit"), or take effect and time out       *)
(* before the answer arrives ("lost"); "undo" is a failure of the edit that *)
(* undoes another.                                                          *)
(***************************************************************************)
Refused(new) == new.exit # NoPeer /\ new.adv
EditOK(new) == ~Refused(new) /\ prefs' = new /\ NoFault
EditRefused(new) == Refused(new) /\ prefs' = prefs /\ NoFault
EditErr(new) ==
  \/ EditRefused(new)
  \/ Fault("edit") /\ prefs' = prefs
  \/ Fault("lost") /\ ~Refused(new) /\ prefs' = new

(* The masked preferences: the advertised routes only if Enable read some. *)
EnablePrefs == [exit |-> req.peer, adv |-> ~old.adv /\ prefs.adv]
RestorePrefs == [exit |-> old.exit, adv |-> old.adv \/ prefs.adv]

EditPrefs ==
  /\ apc = "edit"
  /\ \/ EditOK(EnablePrefs) /\ Succeed("edit")
     \/ EditErr(EnablePrefs) /\ Fail("edit")
  /\ UNCHANGED <<manifest, kernel, watcher, applying, req, prev, old, raced, ops>>

(* ctx.Err between two steps, and after the last one. *)
CancelRequest ==
  /\ apc \in {"persist", "adv", "apply", "edit", "done"}
  /\ Fault("cancel")
  /\ apc' = IF apc = "done" THEN Undo.edit ELSE UndoOfStepBefore[apc]
  /\ UNCHANGED <<tailscaled, manifest, kernel, watcher, applying, req, prev, old,
                 raced, ops>>

UndoEdit ==
  /\ apc = "undoEdit"
  /\ \/ EditOK(RestorePrefs)
     \/ EditRefused(RestorePrefs)
     \/ Fault("undo") /\ prefs' = prefs
  /\ Fail("edit")
  /\ UNCHANGED <<manifest, kernel, watcher, applying, req, prev, old, raced, ops>>

UndoApply ==
  /\ apc = "undoApply"
  /\ Cleanup
  /\ Fail("apply")
  /\ UNCHANGED <<tailscaled, watcher, applying, req, prev, old, raced, ops>>

UndoAdvertise ==
  /\ apc = "undoAdv"
  /\ LET m == [man EXCEPT !.adv = TRUE] IN SaveOK(m) \/ SaveErr(m)
  /\ Fail("adv")
  /\ UNCHANGED <<tailscaled, kernel, watcher, applying, req, prev, old, raced, ops>>

UndoRemote ==
  /\ apc = "undoRem"
  /\ SetRemoteExitNode(prev) \/ SetRemoteExitNodeErr(prev)
  /\ Fail("persist")
  /\ UNCHANGED <<tailscaled, kernel, watcher, applying, req, prev, old, raced, ops>>

-----------------------------------------------------------------------------
(* Disable: preferences first; what fails later is reported, not undone. *)
Disable ==
  /\ apc = "idle"
  /\ ops > 0
  /\ ops' = ops - 1
  /\ apc' = "dEdit"
  /\ applying' = TRUE
  /\ raced' = (wpc \in SyncPcs)
  /\ UNCHANGED <<tailscaled, manifest, kernel, watcher, req, prev, old, nf>>

DisableEdit ==
  /\ apc = "dEdit"
  /\ LET new == [prefs EXCEPT !.exit = NoPeer]
     IN \/ EditOK(new) /\ apc' = "dClean"
        \/ EditErr(new) /\ apc' = "dDone"
  /\ UNCHANGED <<manifest, kernel, watcher, applying, req, prev, old, raced, ops>>

DisableCleanup ==
  /\ apc = "dClean"
  /\ Cleanup
  /\ apc' = "dRem"
  /\ UNCHANGED <<tailscaled, watcher, applying, req, prev, old, raced, ops>>

DisableRemote ==
  /\ apc = "dRem"
  /\ SetRemoteExitNode(NoRem) \/ SetRemoteExitNodeErr(NoRem)
  /\ apc' = "dDone"
  /\ UNCHANGED <<tailscaled, kernel, watcher, applying, req, prev, old, raced, ops>>

(* The deferred stores, and the unlock. *)
Return ==
  /\ apc \in {"done", "fail", "dDone"}
  /\ apc' = "idle"
  /\ applying' = FALSE
  /\ req' = NoRem
  /\ prev' = NoRem
  /\ old' = [exit |-> NoPeer, adv |-> FALSE]
  /\ raced' = FALSE
  /\ UNCHANGED <<tailscaled, manifest, kernel, watcher, ops, nf>>

(***************************************************************************)
(* The EditPrefs of SetRoutes.  To advertise an exit node the handler first *)
(* calls Disable if the manifest has an entry; nothing holds sagaMu between *)
(* that and the edit, so the edit may come at any point of another saga.    *)
(***************************************************************************)
SetRoutes(on) ==
  /\ ops > 0
  /\ ops' = ops - 1
  /\ prefs.adv # on
  /\ EditOK([prefs EXCEPT !.adv = on])
  /\ UNCHANGED <<manifest, kernel, saga, watcher>>

(* The tailscale CLI, or the admin console, chooses another exit node. *)
EditOutside(e) ==
  /\ External
  /\ ops > 0
  /\ ops' = ops - 1
  /\ prefs.exit # e
  /\ EditOK([prefs EXCEPT !.exit = e])
  /\ UNCHANGED <<manifest, kernel, saga, watcher>>

-----------------------------------------------------------------------------
Tick_Ungated ==
  /\ wpc = "idle"
  /\ wpc' = "prefs"
  /\ UNCHANGED <<tailscaled, manifest, kernel, saga, wexit, wrem, wpol, ops, nf>>

(* restoreExitNodeRules: SyncManifestFromTailscale, then Reconcile. *)
Tick ==
  /\ wpc = "idle"
  /\ wpc' = IF applying THEN "pol" ELSE "prefs"
  /\ UNCHANGED <<tailscaled, manifest, kernel, saga, wexit, wrem, wpol, ops, nf>>

SyncGetPrefs ==
  /\ wpc = "prefs"
  /\ \/ wexit' = prefs.exit /\ wpc' = "sync" /\ NoFault
     \/ wexit' = wexit /\ wpc' = "pol" /\ Fault("edit")
  /\ UNCHANGED <<tailscaled, manifest, kernel, saga, wrem, wpol, ops>>

(* Without an entry the policy adopted is ExitNodeAll; with one it is kept. *)
SyncGetRemote ==
  /\ wpc = "sync"
  /\ IF man.rem.peer = wexit
     THEN wpc' = "pol" /\ wrem' = wrem
     ELSE IF wexit = NoPeer
     THEN wpc' = "wclean" /\ wrem' = NoRem
     ELSE /\ wpc' = "wset"
          /\ wrem' = [peer |-> wexit,
                      pol |-> IF man.rem = NoRem THEN AllPolicy ELSE man.rem.pol]
  /\ wexit' = NoPeer
  /\ UNCHANGED <<tailscaled, manifest, kernel, saga, wpol, ops, nf>>

SyncCleanup ==
  /\ wpc = "wclean"
  /\ Cleanup
  /\ wpc' = "wset"
  /\ UNCHANGED <<tailscaled, saga, wexit, wrem, wpol, ops>>

SyncSetRemote ==
  /\ wpc = "wset"
  /\ SetRemoteExitNode(wrem) \/ SetRemoteExitNodeErr(wrem)
  /\ wpc' = "pol"
  /\ wrem' = NoRem
  /\ UNCHANGED <<tailscaled, kernel, saga, wexit, wpol, ops>>

ReadPolicy ==
  /\ wpc = "pol"
  /\ wpol' = man.rem.pol
  /\ wpc' = "rec"
  /\ UNCHANGED <<tailscaled, manifest, kernel, saga, wexit, wrem, ops, nf>>

hasMasquerade == \A f \in Families : masq[f] > 0
InLine(pol) == rules = pol /\ (hasMasquerade <=> pol # {})

Reconcile_RulesOnly ==
  /\ wpc = "rec"
  /\ \/ rules = wpol /\ NoFault /\ UNCHANGED <<manifest, kernel>>
     \/ rules # wpol /\ (ApplyOK(wpol) \/ ApplyErr(wpol))
     \/ Fault("cmd") /\ UNCHANGED <<manifest, kernel>>
  /\ wpc' = "idle"
  /\ wpol' = {}
  /\ UNCHANGED <<tailscaled, saga, wexit, wrem, ops>>

Reconcile ==
  /\ wpc = "rec"
  /\ \/ InLine(wpol) /\ NoFault /\ UNCHANGED <<manifest, kernel>>
     \/ ~InLine(wpol) /\ (ApplyOK(wpol) \/ ApplyErr(wpol))
     \/ Fault("cmd") /\ UNCHANGED <<manifest, kernel>>  \* the rules cannot be read
  /\ wpc' = "idle"
  /\ wpol' = {}
  /\ UNCHANGED <<tailscaled, saga, wexit, wrem, ops>>

(***************************************************************************)
(* The daemon stops and starts again.  tailscaled keeps its preferences,   *)
(* the manifest is loaded from its file; the rules stay (a restart), go (a *)
(* reboot), or are what a call that was running had come to.               *)
(***************************************************************************)
Underway == IF apc = "apply" THEN req.pol ELSE IF wpc = "rec" THEN wpol ELSE {}

Crash ==
  /\ Fault("crash")
  /\ man' = disk
  /\ \/ UNCHANGED kernel
     \/ rules' = {} /\ masq' = NoMasq
     \/ /\ apc \in {"apply", "undoApply", "dClean"} \/ wpc \in {"wclean", "rec"}
        /\ rules' \in SUBSET (rules \cup Underway)
        /\ masq' \in PartialMasquerade(Underway, {{}, {"v4"}, Families})
  /\ apc' = "idle"
  /\ applying' = FALSE
  /\ req' = NoRem
  /\ prev' = NoRem
  /\ old' = [exit |-> NoPeer, adv |-> FALSE]
  /\ raced' = FALSE
  /\ wpc' = "idle"
  /\ wexit' = NoPeer
  /\ wrem' = NoRem
  /\ wpol' = {}
  /\ UNCHANGED <<tailscaled, disk, ops>>

-----------------------------------------------------------------------------
SagaStep ==
  \/ SetApplying \/ PersistRemote \/ ClearAdvertise \/ ApplyRules \/ EditPrefs
  \/ UndoEdit \/ UndoApply \/ UndoAdvertise \/ UndoRemote
  \/ DisableEdit \/ DisableCleanup \/ DisableRemote
  \/ Return

WatcherStep ==
  \/ Tick \/ SyncGetPrefs \/ SyncGetRemote \/ SyncCleanup \/ SyncSetRemote
  \/ ReadPolicy \/ Reconcile

Next ==
  \/ \E p \in Peers, pol \in Policies : Enable(p, pol)
  \/ Disable
  \/ \E on \in BOOLEAN : SetRoutes(on)
  \/ \E e \in Peers \cup {NoPeer} : EditOutside(e)
  \/ CancelRequest
  \/ Crash
  \/ SagaStep
  \/ WatcherStep

Spec == Init /\ [][Next]_vars

(* A handler runs to its return (its calls have timeouts), and the ticker *)
(* of runFirewallWatcher fires again and again.                           *)
FairSpec == Spec /\ WF_vars(SagaStep) /\ WF_vars(WatcherStep)

-----------------------------------------------------------------------------
(* Types; a masquerade rule is left behind only by a failing iptables. *)
TypeOK ==
  /\ prefs \in Prefs /\ ~Refused(prefs)
  /\ man \in Manifests /\ disk \in Manifests
  /\ rules \in SUBSET Sources
  /\ masq \in [Families -> 0..(1 + MaxFaults - nf)]
  /\ applying \in BOOLEAN /\ (applying <=> apc \notin {"idle", "flag"})
  /\ apc \in SagaPcs /\ req \in Remotes /\ prev \in Remotes /\ old \in Prefs
  /\ wpc \in WatcherPcs /\ wexit \in Peers \cup {NoPeer} /\ wrem \in Remotes
  /\ wpol \in Policies \cup {AllPolicy, {}}
  /\ raced \in BOOLEAN
  /\ ops \in 0..MaxOps /\ nf \in 0..MaxFaults

(* When the preferences make the new exit node active, the manifest has its *)
(* entry, in memory and on disk: a crash right after EditPrefs finds it     *)
(* again, and the watcher does not adopt the peer with the policy of all    *)
(* clients.  A sync that was past its test of `applying' when the saga set  *)
(* the flag is left out (see OnlyAskedPolicies).                            *)
ManifestBeforePrefs ==
  [][apc = "edit" /\ apc' = "done" /\ ~raced => man.rem = req /\ disk.rem = req]_vars

(* A failed Enable, its undo steps done, leaves the entry and the exit node *)
(* that were there before, whatever step failed or was cancelled, and with  *)
(* the watcher running.  Failed saves, lost answers and a failure of the    *)
(* undoing edit itself are not among the failures.                          *)
FailureRestores ==
  apc = "fail" /\ ~raced => man.rem = prev /\ prefs.exit = old.exit

(* The manifest, the rules and the masquerade come to agree with the exit   *)
(* node that tailscaled uses, and stay so, once the requests, the edits     *)
(* from outside and the failures have ended: the watcher repairs whatever   *)
(* an interrupted saga, a stale sync or a crash has left.                   *)
Agreed ==
  /\ man.rem.peer = prefs.exit
  /\ rules = man.rem.pol
  /\ man.rem.pol # {} => \A f \in Families : masq[f] > 0
Converges == <>[]Agreed

(* Without edits from outside, the manifest holds no policy but one that an *)
(* Enable asked for: `applying' keeps the sync from observing a             *)
(* half-applied state and adopting it.                                      *)
OnlyAskedPolicies == man.rem = NoRem \/ man.rem.pol \in Policies
=============================================================================
