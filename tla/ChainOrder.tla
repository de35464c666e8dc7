----------------------------- MODULE ChainOrder -----------------------------
(***************************************************************************)
(* The audit that keeps tailscaled's hook behind UniFi's jump in a base    *)
(* chain of iptables (firewall.go auditAndFixTsChainOrder), run by every   *)
(* tick of the firewall watcher on a listing that may come from a cache or *)
(* from an iptables-save another goroutine started.  Meanwhile UniFi       *)
(* rewrites the chain.  FORWARD and INPUT are two instances of one chain.  *)
(***************************************************************************)
EXTENDS Integers, Sequences

CONSTANTS
    MaxRewrites,  \* bound: rewrites of the chain by UniFi or the administrator
    MaxRules,     \* bound: length of the chain
    MaxSaveErrors \* bound: failures of iptables-save

VARIABLES
    chain,        \* the base chain, rules by their target
    listing,      \* filterCache, <<>> when empty or invalidated
    young,        \* the cache is less than a second old
    flight,       \* iptables-save in flight: what it read, NoFlight if none
    auditPc,
    view,         \* what the audit works on
    shrunk,       \* history: UniFi has taken a rule away
    rewrites,
    saveErrors

chainVars == <<chain, listing, young, flight, auditPc, view, shrunk,
               rewrites, saveErrors>>

Hook == "ts"      \* -j ts-forward, -j ts-input
Jump == "ubios"   \* -j UBIOS_FORWARD_JUMP, -j UBIOS_INPUT_JUMP
Other == "rule"   \* any other rule, -j ts-input-guard included
NoFlight == <<"none">>

ChainInit ==
    /\ chain = <<Jump, Hook>>
    /\ listing = <<>>
    /\ young = FALSE
    /\ flight = NoFlight
    /\ auditPc = "idle"
    /\ view = <<>>
    /\ shrunk = FALSE
    /\ rewrites = 0
    /\ saveErrors = 0

-----------------------------------------------------------------------------
\* auditTsChainOrder: the 1-based place of the first rule with this target.
placeOf(rules, target) ==
    IF \E i \in 1..Len(rules) : rules[i] = target
    THEN CHOOSE i \in 1..Len(rules) :
             rules[i] = target /\ \A j \in 1..(i - 1) : rules[j] # target
    ELSE 0

\* tsChainOrderResult.Misplaced.
Misplaced(rules) ==
    /\ placeOf(rules, Jump) # 0
    /\ placeOf(rules, Hook) # 0
    /\ placeOf(rules, Hook) < placeOf(rules, Jump)

without(rules, i) == SubSeq(rules, 1, i - 1) \o SubSeq(rules, i + 1, Len(rules))
insertAt(rules, i, r) == SubSeq(rules, 1, i - 1) \o <<r>> \o SubSeq(rules, i, Len(rules))

-----------------------------------------------------------------------------
(* cachedFilterRules, called by the audit and by the rule checks. *)

\* A young cache answers at once.
auditFromCache ==
    /\ auditPc = "idle"
    /\ listing # <<>> /\ young
    /\ view' = listing
    /\ auditPc' = "decide"
    /\ UNCHANGED <<chain, listing, young, flight, shrunk, rewrites, saveErrors>>

\* Otherwise the audit joins the flight, and a flight is begun when none is on.
auditJoins ==
    /\ auditPc = "idle"
    /\ listing = <<>> \/ ~young
    /\ auditPc' = "waiting"
    /\ flight' = IF flight = NoFlight THEN chain ELSE flight
    /\ UNCHANGED <<chain, listing, young, view, shrunk, rewrites, saveErrors>>

\* A rule check or the status refresh begins a flight of its own.
otherReaderJoins ==
    /\ listing = <<>> \/ ~young
    /\ flight = NoFlight
    /\ flight' = chain
    /\ UNCHANGED <<chain, listing, young, auditPc, view, shrunk, rewrites, saveErrors>>

\* iptables-save returns: the cache is filled and every caller has the text;
\* or it fails and every caller has the empty text.
flightEnds(ok) ==
    /\ flight # NoFlight
    /\ ok \/ saveErrors < MaxSaveErrors
    /\ saveErrors' = IF ok THEN saveErrors ELSE saveErrors + 1
    /\ flight' = NoFlight
    /\ listing' = IF ok THEN flight ELSE listing
    /\ young' = IF ok THEN TRUE ELSE young
    /\ view' = IF auditPc # "waiting" THEN view ELSE IF ok THEN flight ELSE <<>>
    /\ auditPc' = IF auditPc = "waiting" THEN "decide" ELSE auditPc
    /\ UNCHANGED <<chain, shrunk, rewrites>>

\* A second passes.
cacheAges ==
    /\ young
    /\ young' = FALSE
    /\ UNCHANGED <<chain, listing, flight, auditPc, view, shrunk, rewrites, saveErrors>>

-----------------------------------------------------------------------------
(* auditAndFixTsChainOrder. *)

\* No text, or the order is right: return.
decide ==
    /\ auditPc = "decide"
    /\ auditPc' = IF view # <<>> /\ Misplaced(view) THEN "delete" ELSE "idle"
    /\ UNCHANGED <<chain, listing, young, flight, view, shrunk, rewrites, saveErrors>>

\* iptables -D <parent> -j <target>: the first such rule, an error if none.
deleteHook ==
    /\ auditPc = "delete"
    /\ IF placeOf(chain, Hook) # 0
       THEN chain' = without(chain, placeOf(chain, Hook)) /\ auditPc' = "insert"
       ELSE chain' = chain /\ auditPc' = "idle"
    /\ UNCHANGED <<listing, young, flight, view, shrunk, rewrites, saveErrors>>

\* Mutant: the slot is computed as if nothing had been deleted before the jump.
insertBeforeJump ==
    /\ auditPc = "insert"
    /\ auditPc' = "idle"
    /\ LET at == placeOf(view, Jump) - 1
       IN  chain' = insertAt(chain, at, Hook)
    /\ listing' = <<>>
    /\ UNCHANGED <<young, flight, view, shrunk, rewrites, saveErrors>>

\* Mutant: the slot after the jump is taken from before the deletion.
insertUnshifted ==
    /\ auditPc = "insert"
    /\ auditPc' = "idle"
    /\ LET at == placeOf(view, Jump) + 1
       IN  IF at <= Len(chain) + 1
           THEN chain' = insertAt(chain, at, Hook) /\ listing' = <<>>
           ELSE UNCHANGED <<chain, listing>>
    /\ UNCHANGED <<young, flight, view, shrunk, rewrites, saveErrors>>

\* iptables -I <parent> <UBIOSPos> -j <target>: refused past the end of the
\* chain; the hook is then gone.  On success the cache is emptied.
insertHook ==
    /\ auditPc = "insert"
    /\ auditPc' = "idle"
    /\ LET at == placeOf(view, Jump)
       IN  IF at <= Len(chain) + 1
           THEN chain' = insertAt(chain, at, Hook) /\ listing' = <<>>
           ELSE UNCHANGED <<chain, listing>>
    /\ UNCHANGED <<young, flight, view, shrunk, rewrites, saveErrors>>

-----------------------------------------------------------------------------
(* The others who write the chain. *)

rewritten == rewrites < MaxRewrites /\ rewrites' = rewrites + 1

\* A manual flush or a restore from a save puts the hook first.
hookMovesFirst ==
    /\ rewritten
    /\ placeOf(chain, Hook) # 0
    /\ chain' = <<Hook>> \o without(chain, placeOf(chain, Hook))
    /\ UNCHANGED <<listing, young, flight, auditPc, view, shrunk, saveErrors>>

\* UniFi adds a rule before everything, or takes one away.
unifiAddsRule ==
    /\ rewritten
    /\ Len(chain) < MaxRules
    /\ chain' = <<Other>> \o chain
    /\ UNCHANGED <<listing, young, flight, auditPc, view, shrunk, saveErrors>>

unifiRemovesRule ==
    /\ rewritten
    /\ placeOf(chain, Other) # 0
    /\ chain' = without(chain, placeOf(chain, Other))
    /\ shrunk' = TRUE
    /\ UNCHANGED <<listing, young, flight, auditPc, view, saveErrors>>

-----------------------------------------------------------------------------
auditNext == auditFromCache \/ auditJoins \/ decide \/ deleteHook \/ insertHook

ChainNext ==
    \/ auditNext \/ otherReaderJoins \/ cacheAges
    \/ \E ok \in BOOLEAN : flightEnds(ok)
    \/ hookMovesFirst \/ unifiAddsRule \/ unifiRemovesRule

\* The watcher ticks for ever, a command ends and a second passes.
ChainFairness ==
    /\ WF_chainVars(auditNext)
    /\ WF_chainVars(cacheAges)
    /\ WF_chainVars(\E ok \in BOOLEAN : flightEnds(ok))

ChainSpec == ChainInit /\ [][ChainNext]_chainVars /\ ChainFairness

-----------------------------------------------------------------------------
\* Once the chain is no longer rewritten the audit leaves tailscaled's hook
\* behind UniFi's jump for good, however stale the listings it worked on were:
\* what the comments SEC-C15 and M5 promise of every later tick.
OrderRestored == <>[]~Misplaced(chain)

\* Between its two commands the hook is out of the chain.  It is lost for good
\* only when UniFi has made the chain shorter than the listing said, so that
\* the kernel refuses the insertion; never by the audit's own arithmetic.
HookKept == placeOf(chain, Hook) = 0 => auditPc = "insert" \/ shrunk
=============================================================================
