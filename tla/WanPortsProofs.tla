--------------------------- MODULE WanPortsProofs ---------------------------
(***************************************************************************)
(* Safety of the WAN port and DNS policies (WanPorts), for every set of    *)
(* ports and requests and every bound: an entry of the manifest names its  *)
(* own policy, a name has one policy, and no policy is lost sight of.      *)
(***************************************************************************)
EXTENDS WanPorts, TLAPS

-----------------------------------------------------------------------------
(* What a goroutine's step does to its own queue *)

Domains ==
    /\ DOMAIN calls = Routine /\ DOMAIN step = Routine /\ DOMAIN found = Routine
    /\ DOMAIN record = Marker /\ DOMAIN snap = Marker

\* The other goroutine is left alone.
Own(r) ==
    /\ DOMAIN calls' = Routine /\ DOMAIN step' = Routine /\ DOMAIN found' = Routine
    /\ \A x \in Routine \ {r} :
          calls'[x] = calls[x] /\ step'[x] = step[x] /\ found'[x] = found[x]

(* The head call goes on. *)
LEMMA GoOnIs ==
    ASSUME Domains, NEW r \in Routine, NEW s, NEW id, goOn(r, s, id)
    PROVE  Own(r) /\ calls' = calls /\ calls'[r] = calls[r] /\ step'[r] = s /\ found'[r] = id
BY DEF Domains, Own, goOn

(* The head call is replaced. *)
LEMMA DoNextIs ==
    ASSUME Domains, NEW r \in Routine, NEW q, doNext(r, q)
    PROVE  Own(r) /\ calls'[r] = q /\ step'[r] = "start" /\ found'[r] = 0
BY DEF Domains, Own, doNext

(* An error ends the call, of the DNS setting the request. *)
LEMMA ReturnErrIs ==
    ASSUME Domains, NEW r \in Routine, returnErr(r)
    PROVE  /\ Own(r) /\ step'[r] = "start" /\ found'[r] = 0
           /\ calls'[r] \in {<<>>, Tail(calls[r])}
<1>1. CASE doNext(r, <<>>)
  BY Zenon, <1>1, DoNextIs
<1>2. CASE doNext(r, Tail(calls[r]))
  BY Zenon, <1>2, DoNextIs
<1> QED
  BY Zenon, <1>1, <1>2 DEF returnErr, return, abort

\* What the head call becomes, and where it goes on.
Passes(r) == step'[r] = "start" /\ calls'[r] \in {<<>>, Tail(calls[r])}
GoesOn(r) ==
    /\ calls'[r] = calls[r]
    /\ \/ now(r).op = "open" /\ step'[r] \in {"zones", "list", "create", "save"}
       \/ now(r).op = "dnsOn" /\ step'[r] \in {"list", "create", "save"}
       \/ now(r).op = "close" /\ step'[r] \in {"delete", "forget"}
       \/ now(r).op = "reconcile" /\ step'[r] = "list"
Edited(q, old) ==
    [i \in 1..(Len(q) - 1) |->
        IF q[i + 1].op = "swapRelay" THEN [q[i + 1] EXCEPT !.old = old] ELSE q[i + 1]]
Expands(r) ==
    /\ step'[r] = "start"
    /\ \/ now(r).op = "prefs" /\ \E old : calls'[r] = Edited(calls[r], old)
       \/ /\ now(r).op \in {"swapRelay", "swapWg"}
          /\ \E s : /\ s = <<>> \/ \E m \in {"relay", "wg"} : \E old, new : s = swap(old, new, m)
                    /\ calls'[r] = s \o Tail(calls[r])
       \/ now(r).op = "reconcile" /\ calls'[r] = <<call("recreate", "none", 0)>> \o Tail(calls[r])
       \/ /\ now(r).op = "recreate"
          /\ \E m \in Marker : /\ \E x : calls'[r] = <<call("open", m, x)>> \o calls[r]
                               /\ snap' = [snap EXCEPT ![m] = NoRecord]

\* What a call's step does to the queues and to the snapshot.
Moves(r) ==
    /\ calls[r] # <<>> /\ Own(r)
    /\ Passes(r) \/ GoesOn(r) \/ Expands(r)
    /\ now(r).op \notin {"reconcile", "recreate"} => snap' = snap
    /\ DOMAIN snap' = Marker

(* Every step of a call is such a move. *)
LEMMA CallMoves ==
    ASSUME Domains, NEW r \in Routine, callStep(r)
    PROVE  Moves(r)
<1> USE DEF at
<1> DEFINE Ends == return(r) \/ abort(r) \/ returnErr(r)
<1>1. ASSUME Ends PROVE Own(r) /\ Passes(r)
  <2>1. CASE returnErr(r)
    BY Zenon, <2>1, ReturnErrIs DEF Passes
  <2>2. CASE return(r) \/ abort(r)
    BY Zenon, <2>2, DoNextIs DEF return, abort, Passes
  <2> QED
    BY Zenon, <1>1, <2>1, <2>2
<1>2. ASSUME NEW s, NEW id, goOn(r, s, id),
             \/ now(r).op = "open" /\ s \in {"zones", "list", "create", "save"}
             \/ now(r).op = "dnsOn" /\ s \in {"list", "create", "save"}
             \/ now(r).op = "close" /\ s \in {"delete", "forget"}
             \/ now(r).op = "reconcile" /\ s = "list"
      PROVE  Own(r) /\ GoesOn(r)
  BY Zenon, <1>2, GoOnIs DEF GoesOn
<1>3. ASSUME calls[r] # <<>>, now(r).op \notin {"reconcile", "recreate"}, UNCHANGED snap,
             Ends \/ \E s, id : /\ goOn(r, s, id)
                                /\ \/ now(r).op = "open" /\ s \in {"zones", "list", "create", "save"}
                                   \/ now(r).op = "dnsOn" /\ s \in {"list", "create", "save"}
                                   \/ now(r).op = "close" /\ s \in {"delete", "forget"}
      PROVE  Moves(r)
  <2>1. DOMAIN snap' = Marker
    BY Zenon, <1>3 DEF Domains
  <2> HIDE DEF Ends
  <2> QED
    BY Zenon, <1>1, <1>2, <1>3, <2>1 DEF Moves
<1>4. CASE openStart(r)
  <2>1. calls[r] # <<>> /\ now(r).op = "open" /\ UNCHANGED snap
    BY <1>4 DEF openStart, others, context, now
  <2> QED
    BY Zenon, <1>3, <1>4, <2>1 DEF openStart
<1>5. CASE resolveSystemZones(r)
  <2>1. calls[r] # <<>> /\ now(r).op = "open" /\ UNCHANGED snap
    BY <1>5 DEF resolveSystemZones, others, context, now
  <2> QED
    BY Zenon, <1>3, <1>5, <2>1 DEF resolveSystemZones
<1>6. CASE dnsStart(r)
  <2>1. calls[r] # <<>> /\ now(r).op = "dnsOn" /\ UNCHANGED snap
    BY <1>6 DEF dnsStart, context, now
  <2> QED
    BY Zenon, <1>3, <1>6, <2>1 DEF dnsStart
<1>7. CASE findExisting(r)
  <2>1. calls[r] # <<>> /\ now(r).op \in {"open", "dnsOn"} /\ UNCHANGED snap
    BY <1>7 DEF findExisting, others, context, now
  <2> QED
    BY Zenon, <1>3, <1>7, <2>1 DEF findExisting
<1>8. CASE create(r)
  <2>1. calls[r] # <<>> /\ now(r).op \in {"open", "dnsOn"} /\ UNCHANGED snap
    BY <1>8 DEF create, context, now
  <2> QED
    BY Zenon, <1>3, <1>8, <2>1 DEF create
<1>9. CASE saveEntry(r)
  <2>1. calls[r] # <<>> /\ now(r).op \in {"open", "dnsOn"} /\ UNCHANGED snap
    BY <1>9 DEF saveEntry, others, context, now
  <2> QED
    BY Zenon, <1>3, <1>9, <2>1 DEF saveEntry
<1>10. CASE closeStart(r)
  <2>1. calls[r] # <<>> /\ now(r).op = "close" /\ UNCHANGED snap
    BY <1>10 DEF closeStart, others, context, now
  <2> QED
    BY Zenon, <1>3, <1>10, <2>1 DEF closeStart
<1>11. CASE deletePolicy(r)
  <2>1. calls[r] # <<>> /\ now(r).op = "close" /\ UNCHANGED snap
    BY <1>11 DEF deletePolicy, others, context, now
  <2> QED
    BY Zenon, <1>3, <1>11, <2>1 DEF deletePolicy
<1>12. CASE forget(r)
  <2>1. calls[r] # <<>> /\ now(r).op = "close" /\ UNCHANGED snap
    BY <1>12 DEF forget, others, context, now
  <2> QED
    BY Zenon, <1>3, <1>12, <2>1 DEF forget
<1>13. CASE dnsOff(r)
  <2>1. calls[r] # <<>> /\ now(r).op = "dnsOff" /\ UNCHANGED snap
    BY <1>13 DEF dnsOff, context, now
  <2> QED
    BY Zenon, <1>3, <1>13, <2>1 DEF dnsOff
<1>14. CASE applyUDPPortChange(r)
  <2>1. calls[r] # <<>> /\ now(r).op = "portFile" /\ UNCHANGED snap
    BY <1>14 DEF applyUDPPortChange, now
  <2> QED
    BY Zenon, <1>3, <1>14, <2>1 DEF applyUDPPortChange
<1>15. CASE keyGoes(r)
  <2>1. calls[r] # <<>> /\ now(r).op = "keyDelete" /\ UNCHANGED snap
    BY <1>15 DEF keyGoes, now
  <2> QED
    BY Zenon, <1>3, <1>15, <2>1 DEF keyGoes
<1>16. CASE resetIntegration(r)
  <2>1. calls[r] # <<>> /\ now(r).op = "keyDrop" /\ UNCHANGED snap
    BY <1>16 DEF resetIntegration, now
  <2> QED
    BY Zenon, <1>3, <1>16, <2>1 DEF resetIntegration
<1>17. CASE reconcileSnapshot(r)
  <2>1. calls[r] # <<>> /\ now(r).op = "reconcile" /\ DOMAIN snap' = Marker
    BY <1>17 DEF reconcileSnapshot, now, Domains
  <2>2. (Own(r) /\ Passes(r)) \/ (Own(r) /\ GoesOn(r))
    BY Zenon, <1>1, <1>2, <1>17, <2>1 DEF reconcileSnapshot
  <2> QED
    BY Zenon, <2>1, <2>2 DEF Moves
<1>18. CASE reconcileList(r)
  <2>1. calls[r] # <<>> /\ now(r).op = "reconcile"
    BY <1>18 DEF reconcileList, now
  <2>2. DOMAIN snap' = Marker
    BY <1>18 DEF reconcileList, Domains
  <2>3. (Own(r) /\ Passes(r)) \/ doNext(r, <<call("recreate", "none", 0)>> \o Tail(calls[r]))
    BY Zenon, <1>1, <1>18 DEF reconcileList
  <2>4. Own(r) /\ (Passes(r) \/ Expands(r))
    BY Zenon, <2>1, <2>3, DoNextIs DEF Expands
  <2> QED
    BY Zenon, <2>1, <2>2, <2>4 DEF Moves
<1>19. CASE recreate(r)
  <2>1. calls[r] # <<>> /\ now(r).op = "recreate"
    BY <1>19 DEF recreate, now
  <2>2. CASE return(r) /\ UNCHANGED snap
    BY Zenon, <1>1, <2>1, <2>2 DEF Moves, Domains
  <2>3. ASSUME NEW m \in Marker, snap' = [snap EXCEPT ![m] = NoRecord],
               doNext(r, <<call("open", m, snap[m].port)>> \o calls[r])
        PROVE  Moves(r)
    <3>1. DOMAIN snap' = Marker
      BY <2>3 DEF Domains
    <3>2. Own(r) /\ Expands(r)
      BY ZenonT(60), <2>1, <2>3, DoNextIs DEF Expands
    <3> QED
      BY Zenon, <2>1, <3>1, <3>2 DEF Moves
  <2> QED
    BY Zenon, <1>19, <2>2, <2>3 DEF recreate
<1>20. CASE editPrefs(r)
  <2>1. calls[r] # <<>> /\ now(r).op = "prefs" /\ UNCHANGED snap
    BY <1>20 DEF editPrefs, now
  <2>2. (Own(r) /\ Passes(r)) \/ doNext(r, Edited(calls[r], setting["relay"]))
    BY Zenon, <1>1, <1>20 DEF editPrefs, Edited
  <2>3. Own(r) /\ (Passes(r) \/ Expands(r))
    BY Zenon, <2>1, <2>2, DoNextIs DEF Expands
  <2> QED
    BY Zenon, <2>1, <2>3 DEF Moves, Domains
<1>21. ASSUME calls[r] # <<>>, now(r).op \in {"swapRelay", "swapWg"}, UNCHANGED snap,
              NEW s, s = <<>> \/ \E m \in {"relay", "wg"} : \E old, new : s = swap(old, new, m),
              doNext(r, s \o Tail(calls[r]))
       PROVE  Moves(r)
  <2>1. Own(r) /\ Expands(r)
    BY Zenon, <1>21, DoNextIs DEF Expands
  <2>2. now(r).op \notin {"reconcile", "recreate"}
    BY <1>21
  <2> QED
    BY Zenon, <1>21, <2>1, <2>2 DEF Moves, Domains
<1>22. CASE updateRelayPortRules(r)
  <2> DEFINE s == IF ready THEN swap(now(r).old, now(r).port, "relay") ELSE <<>>
  <2>1. calls[r] # <<>> /\ now(r).op \in {"swapRelay", "swapWg"} /\ UNCHANGED snap
    BY <1>22 DEF updateRelayPortRules, others, context, now
  <2>2. s = <<>> \/ \E m \in {"relay", "wg"} : \E old, new : s = swap(old, new, m)
    BY Zenon
  <2>3. doNext(r, s \o Tail(calls[r]))
    BY Zenon, <1>22 DEF updateRelayPortRules
  <2> QED
    BY Zenon, <1>21, <2>1, <2>2, <2>3
<1>23. CASE updateTailscaleWgPortRules(r)
  <2> DEFINE s == IF ready /\ record["wg"].port # now(r).port
                  THEN swap(record["wg"].port, now(r).port, "wg") ELSE <<>>
  <2>1. calls[r] # <<>> /\ now(r).op \in {"swapRelay", "swapWg"} /\ UNCHANGED snap
    BY <1>23 DEF updateTailscaleWgPortRules, others, context, now
  <2>2. s = <<>> \/ \E m \in {"relay", "wg"} : \E old, new : s = swap(old, new, m)
    BY Zenon
  <2>3. doNext(r, s \o Tail(calls[r]))
    BY Zenon, <1>23 DEF updateTailscaleWgPortRules
  <2> QED
    BY Zenon, <1>21, <2>1, <2>2, <2>3
<1> HIDE DEF at
<1> QED
  BY Zenon, <1>4, <1>5, <1>6, <1>7, <1>8, <1>9, <1>10, <1>11, <1>12, <1>13, <1>14, <1>15, <1>16,
     <1>17, <1>18, <1>19, <1>20, <1>22, <1>23 DEF callStep

-----------------------------------------------------------------------------
(* The queues *)

\* A call a request may have in its queue.
HttpOps == {"open", "dnsOn", "dnsOff", "close", "prefs", "portFile", "swapRelay", "swapWg", "keyDelete"}
Good(c) ==
    /\ \E op, m, port, old : c = [op |-> op, m |-> m, port |-> port, old |-> old]
    /\ c.op \in HttpOps
    /\ c.op \in {"open", "dnsOn", "close"} => c.m \in Marker
    /\ c.op \in {"dnsOn", "dnsOff"} => c.m = "dns"
GoodSeq(q) == q \in Seq(Range(q)) /\ \A c \in Range(q) : Good(c)

Reconcile == call("reconcile", "none", 0)
Recreate == call("recreate", "none", 0)
KeyDrop == call("keyDrop", "none", 0)

\* The queue of the background goroutine; s is the snapshot.  What it opens
\* in the course of the reconciliation is no longer in the snapshot.
BgShape(q, s) ==
    \/ q \in {<<>>, <<Reconcile>>, <<Recreate>>, <<KeyDrop>>}
    \/ \E m \in Marker : \E x :
          \/ q \in {<<call("open", m, x)>>, <<call("open", m, x), Reconcile>>}
          \/ q = <<call("open", m, x), Recreate>> /\ s[m] = NoRecord

QueueInv ==
    /\ Domains
    /\ BgShape(calls["bg"], snap) /\ GoodSeq(calls["http"])
    /\ \A r \in Routine : calls[r] = <<>> => step[r] = "start"
    /\ \A r \in Routine : step[r] # "start" =>
         \/ now(r).op = "open" /\ step[r] \in {"zones", "list", "create", "save"}
         \/ now(r).op = "dnsOn" /\ step[r] \in {"list", "create", "save"}
         \/ now(r).op = "close" /\ step[r] \in {"delete", "forget"}
         \/ now(r).op = "reconcile" /\ step[r] = "list"

(* A function on 1..n is a sequence. *)
LEMMA SeqOf == ASSUME NEW S, NEW n \in Nat, NEW f \in [1..n -> S] PROVE f \in Seq(S)
OBVIOUS

(* A sequence over a set is one over a larger set. *)
LEMMA SeqWider == ASSUME NEW S, NEW T, NEW s \in Seq(S), S \subseteq T PROVE s \in Seq(T)
<1>1. Len(s) \in Nat /\ s \in [1..Len(s) -> T]
  OBVIOUS
<1> QED
  BY <1>1, SeqOf

(* A sequence of good calls. *)
LEMMA GoodFrom ==
    ASSUME NEW S, NEW q \in Seq(S), \A c \in S : Good(c)
    PROVE  GoodSeq(q)
<1>1. \A c \in Range(q) : c \in S
  BY DEF Range
<1>2. q \in Seq(Range(q))
  <2>1. q \in [1..Len(q) -> Range(q)] /\ Len(q) \in Nat
    BY DEF Range
  <2> QED
    BY <2>1, SeqOf
<1> QED
  BY Zenon, <1>1, <1>2 DEF GoodSeq

(* Of none, of one, of some more, of the rest. *)
LEMMA GoodSeqs ==
    /\ GoodSeq(<<>>)
    /\ \A c : Good(c) => GoodSeq(<<c>>)
    /\ \A p, q : GoodSeq(p) /\ GoodSeq(q) => GoodSeq(p \o q)
    /\ \A q : GoodSeq(q) /\ q # <<>> => GoodSeq(Tail(q)) /\ Good(Head(q)) /\ Head(q) \in Range(q)
<1>1. GoodSeq(<<>>)
  <2>1. PICK S, e : S = {} /\ e = <<>>
    OBVIOUS
  <2>2. e \in Seq(S) /\ \A c \in S : Good(c)
    BY <2>1
  <2>3. GoodSeq(e)
    BY Zenon, <2>2, GoodFrom
  <2> QED
    BY Zenon, <2>1, <2>3
<1>2. ASSUME NEW c, Good(c) PROVE GoodSeq(<<c>>)
  <2>1. PICK S, e : S = {c} /\ e = <<c>>
    OBVIOUS
  <2>2. e \in Seq(S)
    BY <2>1
  <2>3. \A x \in S : Good(x)
    BY Zenon, <1>2, <2>1
  <2>4. GoodSeq(e)
    BY Zenon, <2>2, <2>3, GoodFrom
  <2> QED
    BY Zenon, <2>1, <2>4
<1>3. ASSUME NEW p, NEW q, GoodSeq(p), GoodSeq(q) PROVE GoodSeq(p \o q)
  <2>1. PICK S : S = Range(p) \cup Range(q)
    BY Zenon
  <2>2. p \in Seq(S) /\ q \in Seq(S)
    <3>1. Range(p) \subseteq S /\ Range(q) \subseteq S
      BY Zenon, <2>1
    <3> QED
      BY Zenon, <1>3, <3>1, SeqWider DEF GoodSeq
  <2>3. PICK e : e = p \o q
    BY Zenon
  <2>4. e \in Seq(S)
    BY <2>2, <2>3
  <2>5. \A c \in S : Good(c)
    BY Zenon, <1>3, <2>1 DEF GoodSeq
  <2>6. GoodSeq(e)
    BY Zenon, <2>4, <2>5, GoodFrom
  <2> QED
    BY Zenon, <2>3, <2>6
<1>4. ASSUME NEW q, GoodSeq(q), q # <<>>
      PROVE  GoodSeq(Tail(q)) /\ Good(Head(q)) /\ Head(q) \in Range(q)
  <2>1. PICK S : S = Range(q)
    OBVIOUS
  <2>2. q \in Seq(S)
    BY <1>4, <2>1 DEF GoodSeq
  <2>3. Tail(q) \in Seq(S) /\ Head(q) \in S
    BY <1>4, <2>2
  <2> QED
    BY ZenonT(60), <1>4, <2>1, <2>3, GoodFrom DEF GoodSeq
<1> QED
  BY Zenon, <1>1, <1>2, <1>3, <1>4

(* What editPrefs leaves of a request. *)
LEMMA GoodEdited ==
    ASSUME NEW q, NEW old, GoodSeq(q), q # <<>>
    PROVE  GoodSeq(Edited(q, old))
<1>1. PICK S : S = Range(q)
  OBVIOUS
<1>2. q \in Seq(S) /\ \A c \in S : Good(c)
  BY <1>1 DEF GoodSeq
<1> DEFINE T == S \cup {[c EXCEPT !.old = old] : c \in S}
<1> DEFINE e == Edited(q, old)
<1>3. ASSUME NEW c \in S PROVE Good([c EXCEPT !.old = old])
  <2>1. PICK op, m, port, o : c = [op |-> op, m |-> m, port |-> port, old |-> o]
    BY Zenon, <1>2 DEF Good
  <2>2. PICK d : d = [op |-> op, m |-> m, port |-> port, old |-> old]
    BY Zenon
  <2>3. [c EXCEPT !.old = old] = d /\ c.op = d.op /\ c.m = d.m
    BY <2>1, <2>2
  <2>4. Good(d)
    BY Zenon, <1>2, <2>2, <2>3 DEF Good
  <2> QED
    BY Zenon, <2>3, <2>4
<1>4. \A c \in T : Good(c)
  BY Zenon, <1>2, <1>3
<1>5. Len(q) \in Nat /\ Len(q) - 1 \in Nat
  BY <1>2
<1>6. ASSUME NEW i \in 1..(Len(q) - 1)
      PROVE  (IF q[i + 1].op = "swapRelay" THEN [q[i + 1] EXCEPT !.old = old] ELSE q[i + 1]) \in T
  <2>1. q[i + 1] \in S
    BY <1>2, <1>5
  <2> QED
    BY Zenon, <2>1
<1>7. e \in Seq(T)
  <2> HIDE DEF T
  <2>1. e \in [1..(Len(q) - 1) -> T]
    BY Zenon, <1>6 DEF Edited
  <2> QED
    BY <1>5, <2>1, SeqOf
<1> HIDE DEF T, e
<1>8. GoodSeq(e)
  BY Zenon, <1>4, <1>7, GoodFrom
<1> QED
  BY <1>8 DEF e

(* Two calls in order. *)
LEMMA PairOf == ASSUME NEW a, NEW b PROVE <<a>> \o <<b>> = <<a, b>> /\ <<a>> \o <<>> = <<a>>
<1> DEFINE c == <<a>> \o <<b>>
<1> DEFINE d == <<a, b>>
<1>1. c \in Seq({a, b}) /\ d \in Seq({a, b}) /\ Len(c) = 2 /\ Len(d) = 2
  OBVIOUS
<1>2. c[1] = d[1] /\ c[2] = d[2]
  OBVIOUS
<1>3. <<a>> \in Seq({a})
  OBVIOUS
<1>4. <<a>> \o <<>> = <<a>>
  BY <1>3
<1> HIDE DEF c, d
<1>5. \A i \in 1..Len(c) : c[i] = d[i]
  BY <1>1, <1>2
<1>6. c = d
  BY <1>1, <1>5
<1> QED
  BY <1>4, <1>6 DEF c, d

(* The head and the rest of the background's queue. *)
LEMMA BgHead ==
    ASSUME NEW q, NEW s, BgShape(q, s), q # <<>>
    PROVE  /\ Head(q).op \in {"open", "reconcile", "recreate", "keyDrop"} /\ Head(q) \in Range(q)
           /\ Head(q).op # "open" => Tail(q) = <<>> /\ q = <<Head(q)>>
           /\ Head(q).op = "recreate" => q = <<Recreate>>
           /\ Head(q).op = "reconcile" => q = <<Reconcile>>
           /\ Head(q).op = "open" =>
                /\ Head(q).m \in Marker
                /\ Tail(q) \in {<<>>, <<Reconcile>>, <<Recreate>>}
                /\ Tail(q) = <<Recreate>> => s[Head(q).m] = NoRecord
<1> USE DEF Reconcile, Recreate, KeyDrop, call, Range
<1>1. CASE q \in {<<Reconcile>>, <<Recreate>>, <<KeyDrop>>}
  <2>1. CASE q = <<Reconcile>>
    BY <2>1
  <2>2. CASE q = <<Recreate>>
    BY <2>2
  <2>3. CASE q = <<KeyDrop>>
    BY <2>3
  <2> QED
    BY <1>1, <2>1, <2>2, <2>3
<1>2. ASSUME NEW m \in Marker, NEW x,
             \/ q \in {<<call("open", m, x)>>, <<call("open", m, x), Reconcile>>}
             \/ q = <<call("open", m, x), Recreate>> /\ s[m] = NoRecord
      PROVE  /\ Head(q).op = "open" /\ Head(q).m = m /\ Head(q) \in Range(q)
             /\ Tail(q) \in {<<>>, <<Reconcile>>, <<Recreate>>}
             /\ Tail(q) = <<Recreate>> => s[m] = NoRecord
  <2>1. CASE q = <<call("open", m, x)>>
    BY <2>1
  <2>2. CASE q = <<call("open", m, x), Reconcile>>
    BY <2>2
  <2>3. CASE q = <<call("open", m, x), Recreate>> /\ s[m] = NoRecord
    BY <2>3
  <2> QED
    BY <1>2, <2>1, <2>2, <2>3
<1> HIDE DEF Reconcile, Recreate, KeyDrop, call, Range
<1> QED
  BY Zenon, <1>1, <1>2 DEF BgShape

(* What comes after the head is in the queue. *)
LEMMA BgRest ==
    ASSUME NEW q, NEW s, BgShape(q, s), q # <<>>
    PROVE  \A c \in Range(Tail(q)) : c \in Range(q)
<1> USE DEF Range
<1>1. ASSUME NEW c, q = <<c>> PROVE \A d \in Range(Tail(q)) : d \in Range(q)
  BY <1>1
<1>2. ASSUME NEW c, NEW d, q = <<c, d>> PROVE \A x \in Range(Tail(q)) : x \in Range(q)
  BY <1>2
<1>3. (\E c : q = <<c>>) \/ \E c, d : q = <<c, d>>
  BY Zenon DEF BgShape
<1> QED
  BY Zenon, <1>1, <1>2, <1>3

(* A step of the background's call keeps the shape of its queue. *)
LEMMA BgMoves ==
    ASSUME QueueInv, Moves("bg")
    PROVE  BgShape(calls'["bg"], snap')
<1> DEFINE q == calls["bg"]
<1>1. BgShape(q, snap) /\ q # <<>> /\ now("bg") = Head(q)
  BY Zenon DEF QueueInv, Moves, now
<1>2. CASE Head(q).op = "open"
  <2>1. /\ Head(q).m \in Marker /\ Tail(q) \in {<<>>, <<Reconcile>>, <<Recreate>>} /\ snap' = snap
    BY Zenon, <1>1, <1>2, BgHead DEF Moves
  <2>2. calls'["bg"] \in {<<>>, Tail(q), q}
    BY Zenon, <1>1, <1>2 DEF Moves, Passes, GoesOn, Expands
  <2> QED
    BY Zenon, <1>1, <2>1, <2>2 DEF BgShape
<1>3. CASE Head(q).op # "open"
  <2>1. Tail(q) = <<>> /\ q = <<Head(q)>>
    BY Zenon, <1>1, <1>3, BgHead
  <2>2. CASE Passes("bg")
    BY Zenon, <2>1, <2>2 DEF Passes, BgShape
  <2>3. CASE GoesOn("bg")
    <3>1. Head(q).op = "reconcile" /\ calls'["bg"] = q
      BY <1>1, <1>3, <2>3, BgHead DEF GoesOn
    <3>2. q = <<Reconcile>>
      BY Zenon, <1>1, <3>1, BgHead
    <3> QED
      BY Zenon, <3>1, <3>2 DEF BgShape
  <2>4. CASE Expands("bg") /\ Head(q).op = "reconcile"
    <3>1. calls'["bg"] = <<Recreate>> \o Tail(q)
      BY Zenon, <1>1, <2>4 DEF Expands, Recreate
    <3>2. calls'["bg"] = <<Recreate>>
      BY Zenon, <2>1, <3>1, PairOf
    <3> QED
      BY Zenon, <3>2 DEF BgShape
  <2>5. CASE Expands("bg") /\ Head(q).op = "recreate"
    <3>1. PICK m \in Marker : /\ \E x : calls'["bg"] = <<call("open", m, x)>> \o q
                              /\ snap' = [snap EXCEPT ![m] = NoRecord]
      BY Zenon, <1>1, <2>5 DEF Expands
    <3>2. PICK x : calls'["bg"] = <<call("open", m, x)>> \o q
      BY Zenon, <3>1
    <3>3. q = <<Recreate>>
      BY Zenon, <1>1, <2>5, BgHead
    <3>4. calls'["bg"] = <<call("open", m, x), Recreate>>
      BY Zenon, <3>2, <3>3, PairOf
    <3>5. snap'[m] = NoRecord
      BY <3>1 DEF QueueInv, Domains
    <3> QED
      BY Zenon, <3>4, <3>5 DEF BgShape
  <2>6. Head(q).op \in {"reconcile", "recreate", "keyDrop"}
    BY <1>1, <1>3, BgHead
  <2>7. Expands("bg") => Head(q).op \in {"reconcile", "recreate"}
    BY <1>1, <2>6 DEF Expands
  <2> QED
    BY <2>2, <2>3, <2>4, <2>5, <2>7 DEF Moves
<1> QED
  BY Zenon, <1>2, <1>3

(* A step of a request's call leaves good calls. *)
LEMMA HttpMoves ==
    ASSUME QueueInv, Moves("http")
    PROVE  GoodSeq(calls'["http"]) /\ snap' = snap
<1> DEFINE q == calls["http"]
<1>1. GoodSeq(q) /\ q # <<>> /\ now("http") = Head(q)
  BY Zenon DEF QueueInv, Moves, now
<1>2. GoodSeq(Tail(q)) /\ Good(Head(q)) /\ GoodSeq(<<>>)
  BY Zenon, <1>1, GoodSeqs
<1>3. Head(q).op \in HttpOps
  BY Zenon, <1>2 DEF Good
<1>4. Head(q).op \notin {"reconcile", "recreate"}
  BY <1>3 DEF HttpOps
<1>8. snap' = snap
  BY Zenon, <1>1, <1>4 DEF Moves
<1>5. CASE Passes("http")
  BY Zenon, <1>2, <1>5, <1>8 DEF Passes
<1>6. CASE GoesOn("http")
  BY Zenon, <1>1, <1>6, <1>8 DEF GoesOn
<1>7. CASE Expands("http")
  <2>1. CASE \E old : calls'["http"] = Edited(q, old)
    BY Zenon, <1>1, <1>8, <2>1, GoodEdited
  <2>2. ASSUME NEW m \in {"relay", "wg"}, NEW old, NEW new PROVE GoodSeq(swap(old, new, m))
    <3>1. Good(call("close", m, old)) /\ Good(call("open", m, new))
      <4>1. PICK c, d : c = call("close", m, old) /\ d = call("open", m, new)
        BY Zenon
      <4>2. c.op = "close" /\ c.m = m /\ d.op = "open" /\ d.m = m
        BY <4>1 DEF call
      <4>3. m \in Marker /\ "close" \in HttpOps /\ "open" \in HttpOps
        BY DEF Marker, HttpOps
      <4> QED
        BY Zenon, <4>1, <4>2, <4>3 DEF Good, call
    <3>2. GoodSeq(IF old > 0 THEN <<call("close", m, old)>> ELSE <<>>)
      BY Zenon, <1>2, <3>1, GoodSeqs
    <3>3. GoodSeq(IF new > 0 THEN <<call("open", m, new)>> ELSE <<>>)
      BY Zenon, <1>2, <3>1, GoodSeqs
    <3> QED
      BY Zenon, <3>2, <3>3, GoodSeqs DEF swap
  <2>3. ASSUME NEW s, calls'["http"] = s \o Tail(q),
               s = <<>> \/ \E m \in {"relay", "wg"} : \E old, new : s = swap(old, new, m)
        PROVE  GoodSeq(calls'["http"])
    <3>1. GoodSeq(s)
      BY Zenon, <1>2, <2>2, <2>3
    <3> QED
      BY Zenon, <1>2, <2>3, <3>1, GoodSeqs
  <2> HIDE DEF q
  <2> QED
    BY Zenon, <1>1, <1>4, <1>7, <1>8, <2>1, <2>3 DEF Expands, q
<1> QED
  BY Zenon, <1>5, <1>6, <1>7, <1>8 DEF Moves

(* The calls of a settings request. *)
LEMMA SettingsGood ==
    ASSUME NEW relay, NEW udp, NEW dns, NEW suffix
    PROVE  GoodSeq(opt(dns = "on", call("dnsOn", "dns", suffix))
                   \o opt(dns = "off", call("dnsOff", "dns", 0))
                   \o <<IF relay = -1 THEN call("prefs", "none", 0) ELSE call("prefs", "relay", relay)>>
                   \o opt(udp # 0, call("portFile", "wg", udp))
                   \o opt(relay # -1, call("swapRelay", "relay", relay))
                   \o opt(udp # 0, call("swapWg", "wg", udp)))
<1>1. ASSUME NEW op \in HttpOps, NEW m, NEW x, op # "open", op # "close",
             op \in {"dnsOn", "dnsOff"} => m = "dns"
      PROVE  Good(call(op, m, x))
  <2>1. PICK c : c = call(op, m, x)
    BY Zenon
  <2>2. c.op = op /\ c.m = m
    BY <2>1 DEF call
  <2>3. c.op \in {"open", "dnsOn", "close"} => c.m \in Marker
    BY <1>1, <2>2 DEF Marker
  <2> QED
    BY Zenon, <1>1, <2>1, <2>2, <2>3 DEF Good, call
<1>2. ASSUME NEW b, NEW c, Good(c) PROVE GoodSeq(opt(b, c))
  BY Zenon, <1>2, GoodSeqs DEF opt
<1>3. /\ GoodSeq(opt(dns = "on", call("dnsOn", "dns", suffix)))
      /\ GoodSeq(opt(dns = "off", call("dnsOff", "dns", 0)))
  BY <1>1, <1>2 DEF HttpOps
<1>4. GoodSeq(<<IF relay = -1 THEN call("prefs", "none", 0) ELSE call("prefs", "relay", relay)>>)
  <2>1. Good(call("prefs", "none", 0)) /\ Good(call("prefs", "relay", relay))
    BY <1>1 DEF HttpOps
  <2> QED
    BY Zenon, <2>1, GoodSeqs
<1>5. /\ GoodSeq(opt(udp # 0, call("portFile", "wg", udp)))
      /\ GoodSeq(opt(relay # -1, call("swapRelay", "relay", relay)))
      /\ GoodSeq(opt(udp # 0, call("swapWg", "wg", udp)))
  BY <1>1, <1>2 DEF HttpOps
<1> QED
  BY ZenonT(60), <1>3, <1>4, <1>5, GoodSeqs

(* A goroutine at rest gets something to do. *)
LEMMA StartsIs ==
    ASSUME QueueInv, NEW r \in Routine, NEW q, calls[r] = <<>>, calls' = [calls EXCEPT ![r] = q],
           UNCHANGED <<step, found, snap, record>>
    PROVE  /\ Domains' /\ step[r] = "start" /\ step'[r] = "start" /\ calls'[r] = q
           /\ \A x \in Routine \ {r} :
                 calls'[x] = calls[x] /\ step'[x] = step[x] /\ found'[x] = found[x]
BY DEF QueueInv, Domains

(* The queues keep their form. *)
LEMMA QueueStep ==
    ASSUME QueueInv, WanStep \/ UNCHANGED wanVars
    PROVE  QueueInv'
<1> DEFINE Steps(c, s) ==
              /\ \A r \in Routine : c[r] = <<>> => s[r] = "start"
              /\ \A r \in Routine : s[r] # "start" =>
                   \/ Head(c[r]).op = "open" /\ s[r] \in {"zones", "list", "create", "save"}
                   \/ Head(c[r]).op = "dnsOn" /\ s[r] \in {"list", "create", "save"}
                   \/ Head(c[r]).op = "close" /\ s[r] \in {"delete", "forget"}
                   \/ Head(c[r]).op = "reconcile" /\ s[r] = "list"
<1>1. /\ Domains /\ BgShape(calls["bg"], snap) /\ GoodSeq(calls["http"]) /\ Steps(calls, step)
  BY Zenon DEF QueueInv, now
<1>2. SUFFICES /\ Domains' /\ BgShape(calls'["bg"], snap') /\ GoodSeq(calls'["http"])
               /\ Steps(calls', step')
  BY Zenon DEF QueueInv, now
<1>3. CASE UNCHANGED <<calls, step, found, record, snap>>
  BY Zenon, <1>1, <1>3 DEF Domains
<1>4. ASSUME NEW r \in Routine, callStep(r)
      PROVE  /\ Domains' /\ BgShape(calls'["bg"], snap') /\ GoodSeq(calls'["http"])
             /\ Steps(calls', step')
  <2>1. Moves(r)
    BY Zenon, <1>1, <1>4, CallMoves
  <2>2. DOMAIN record' = Marker
    <3>1. UNCHANGED record \/ (\E m, x : record' = [record EXCEPT ![m] = x])
          \/ record' = [m \in Marker |-> NoRecord]
      BY Zenon, <1>4 DEF callStep, openStart, resolveSystemZones, dnsStart, findExisting, create,
         saveEntry, closeStart, deletePolicy, forget, dnsOff, reconcileSnapshot, reconcileList,
         recreate, editPrefs, applyUDPPortChange, updateRelayPortRules, updateTailscaleWgPortRules,
         keyGoes, resetIntegration
    <3> QED
      BY <1>1, <3>1 DEF Domains
  <2>3. Domains'
    BY Zenon, <2>1, <2>2 DEF Domains, Moves, Own
  <2>4. BgShape(calls'["bg"], snap') /\ GoodSeq(calls'["http"])
    <3>1. CASE r = "bg"
      <4>1. calls'["http"] = calls["http"]
        BY <2>1, <3>1 DEF Moves, Own, Routine
      <4> QED
        BY Zenon, <1>1, <2>1, <3>1, <4>1, BgMoves
    <3>2. CASE r = "http"
      <4>1. calls'["bg"] = calls["bg"]
        BY <2>1, <3>2 DEF Moves, Own, Routine
      <4> QED
        BY Zenon, <1>1, <2>1, <3>2, <4>1, HttpMoves
    <3> QED
      BY Zenon, <3>1, <3>2 DEF Routine
  <2>5. step'[r] = "start" \/ GoesOn(r)
    BY Zenon, <2>1 DEF Moves, Passes, Expands
  <2>6. GoesOn(r) => calls'[r] # <<>> /\ Head(calls'[r]) = now(r)
    BY Zenon, <2>1 DEF Moves, GoesOn, now
  <2>7. Steps(calls', step')
    BY <1>1, <2>1, <2>5, <2>6 DEF GoesOn, Moves, Own
  <2> QED
    BY Zenon, <2>3, <2>4, <2>7
<1>5. ASSUME NEW q, GoodSeq(q), calls["http"] = <<>>, calls' = [calls EXCEPT !["http"] = q],
             UNCHANGED <<step, found, snap, record>>
      PROVE  /\ Domains' /\ BgShape(calls'["bg"], snap') /\ GoodSeq(calls'["http"])
             /\ Steps(calls', step')
  <2>1. /\ Domains' /\ step'["http"] = "start" /\ calls'["http"] = q
        /\ calls'["bg"] = calls["bg"] /\ step'["bg"] = step["bg"]
    BY ZenonT(60), <1>5, StartsIs DEF Routine
  <2>2. Steps(calls', step')
    BY <1>1, <2>1 DEF Routine
  <2> QED
    BY Zenon, <1>1, <1>5, <2>1, <2>2
<1>6. ASSUME NEW q, BgShape(q, snap), calls["bg"] = <<>>, calls' = [calls EXCEPT !["bg"] = q],
             UNCHANGED <<step, found, snap, record>>
      PROVE  /\ Domains' /\ BgShape(calls'["bg"], snap') /\ GoodSeq(calls'["http"])
             /\ Steps(calls', step')
  <2>1. /\ Domains' /\ step'["bg"] = "start" /\ calls'["bg"] = q
        /\ calls'["http"] = calls["http"] /\ step'["http"] = step["http"]
    BY ZenonT(60), <1>6, StartsIs DEF Routine
  <2>2. Steps(calls', step')
    BY <1>1, <2>1 DEF Routine
  <2> QED
    BY Zenon, <1>1, <1>6, <2>1, <2>2
<1>7. ASSUME NEW q \in Request, SetSettings(q.relay, q.udp, q.dns)
      PROVE  /\ Domains' /\ BgShape(calls'["bg"], snap') /\ GoodSeq(calls'["http"])
             /\ Steps(calls', step')
  <2> DEFINE cs == opt(q.dns = "on", call("dnsOn", "dns", setting["dns"]))
                   \o opt(q.dns = "off", call("dnsOff", "dns", 0))
                   \o <<IF q.relay = -1 THEN call("prefs", "none", 0) ELSE call("prefs", "relay", q.relay)>>
                   \o opt(q.udp # 0, call("portFile", "wg", q.udp))
                   \o opt(q.relay # -1, call("swapRelay", "relay", q.relay))
                   \o opt(q.udp # 0, call("swapWg", "wg", q.udp))
  <2>1. GoodSeq(cs)
    BY ZenonT(60), SettingsGood
  <2>2. starts("http", cs)
    BY Zenon, <1>7 DEF SetSettings
  <2> HIDE DEF Steps, cs
  <2>3. /\ calls["http"] = <<>> /\ calls' = [calls EXCEPT !["http"] = cs]
        /\ UNCHANGED <<step, found, snap, record>>
    BY Zenon, <2>2 DEF starts
  <2> QED
    BY Zenon, <1>5, <2>1, <2>3
<1>8. ASSUME NEW x PROVE GoodSeq(<<call("open", "wg", x)>>)
  <2>1. PICK c : c = call("open", "wg", x)
    BY Zenon
  <2>2. c.op = "open" /\ c.m = "wg" /\ "open" \in HttpOps /\ "wg" \in Marker
    BY <2>1 DEF call, Marker, HttpOps
  <2>3. Good(c)
    BY Zenon, <2>1, <2>2 DEF Good, call
  <2> QED
    BY Zenon, <2>1, <2>3, GoodSeqs
<1>9. CASE DeleteKey
  <2>1. GoodSeq(<<call("dnsOff", "dns", 0), call("keyDelete", "none", 0)>>)
    <3>1. PICK c, d : c = call("dnsOff", "dns", 0) /\ d = call("keyDelete", "none", 0)
      BY Zenon
    <3>2. c.op = "dnsOff" /\ c.m = "dns" /\ d.op = "keyDelete" /\ {"dnsOff", "keyDelete"} \subseteq HttpOps
      BY <3>1 DEF call, HttpOps
    <3>3. Good(c) /\ Good(d)
      BY Zenon, <3>1, <3>2 DEF Good, call
    <3> QED
      BY Zenon, <3>1, <3>3, GoodSeqs, PairOf
  <2> HIDE DEF Steps
  <2> QED
    BY Zenon, <1>5, <1>9, <2>1 DEF DeleteKey, starts
<1>10. CASE SetKey
  <2> HIDE DEF Steps
  <2> QED
    BY Zenon, <1>5, <1>8, <1>10 DEF SetKey
<1>11. CASE handleAPIKeyExpiry \/ openTailscaleWanPort
  <2>1. BgShape(<<KeyDrop>>, snap) /\ \A x : BgShape(<<call("open", "wg", x)>>, snap)
    BY Zenon DEF BgShape, Marker
  <2> HIDE DEF Steps
  <2> QED
    BY Zenon, <1>6, <1>11, <2>1 DEF handleAPIKeyExpiry, openTailscaleWanPort, starts, KeyDrop
<1>12. CASE restart
  <2>1. Domains' /\ snap' = snap
    BY <1>1, <1>12 DEF restart, Domains
  <2>2. /\ calls'["http"] = <<>> /\ calls'["bg"] \in {<<>>, bootCalls(setting["wg"])}
        /\ \A r \in Routine : step'[r] = "start"
    BY <1>12 DEF restart, Routine
  <2>3. BgShape(calls'["bg"], snap')
    BY Zenon, <2>1, <2>2 DEF BgShape, bootCalls, Marker, Reconcile
  <2>4. GoodSeq(calls'["http"])
    BY Zenon, <2>2, GoodSeqs
  <2>5. Steps(calls', step')
    BY <2>2
  <2> QED
    BY Zenon, <2>1, <2>3, <2>4, <2>5
<1>13. CASE UNCHANGED wanVars \/ adminDeletes \/ relogin
  <2>1. UNCHANGED <<calls, step, found, record, snap>>
    BY <1>13 DEF wanVars, adminDeletes, relogin
  <2> QED
    BY Zenon, <1>3, <2>1
<1> HIDE DEF Steps
<1> QED
  BY Zenon, <1>4, <1>7, <1>9, <1>10, <1>11, <1>12, <1>13 DEF WanStep

-----------------------------------------------------------------------------
(* Policies and entries *)

\* Ids are given once; what is about to be saved is the policy of the call.
IdInv ==
    /\ lastId \in Nat
    /\ \A p \in policies : p.id \in 1..lastId
    /\ \A p, q \in policies : p.id = q.id => p = q
    /\ \A m \in Marker : record[m].id \in 0..lastId
    /\ \A r \in Routine : found[r] \in 0..lastId
    /\ \A r \in Routine : step[r] = "save" =>
          \A p \in policies : p.id = found[r] => p.m = now(r).m /\ p.port = now(r).port
    /\ EntryNamesItsPolicy

\* The five things a call's step does to policies and entries.
Calm(r) ==
    /\ policies' \subseteq policies /\ lastId' = lastId
    /\ \A m \in Marker : record'[m] \in {record[m], NoRecord}
    /\ step'[r] \notin {"save", "create"} /\ found'[r] \in 0..lastId
Adopts(r) ==
    /\ UNCHANGED <<policies, lastId, record>>
    /\ \E p \in named(now(r).m, now(r).port) : found'[r] = p.id
    /\ step'[r] = "save" /\ calls'[r] = calls[r]
MissesIt(r) ==
    /\ UNCHANGED <<policies, lastId, record>> /\ named(now(r).m, now(r).port) = {}
    /\ step'[r] = "create" /\ found'[r] = 0 /\ calls'[r] = calls[r]
Creates(r) ==
    /\ lastId' = lastId + 1 /\ UNCHANGED record
    /\ policies' = policies \cup {[id |-> lastId + 1, m |-> now(r).m, port |-> now(r).port]}
    /\ step[r] = "create" /\ calls[r] # <<>> /\ now(r).op \in {"open", "dnsOn"}
    /\ \/ step'[r] = "save" /\ found'[r] = lastId + 1 /\ calls'[r] = calls[r] /\ loose' = loose
       \/ step'[r] = "start" /\ found'[r] = 0 /\ loose' = loose \cup {lastId + 1}
Saves(r) ==
    /\ UNCHANGED <<policies, lastId, loose>> /\ step[r] = "save"
    /\ calls[r] # <<>> /\ now(r).op \in {"open", "dnsOn"}
    /\ record' = [record EXCEPT ![now(r).m] = [id |-> found[r], port |-> now(r).port]]
    /\ step'[r] = "start" /\ found'[r] = 0

(* A call's step is one of the five. *)
LEMMA CallKinds ==
    ASSUME QueueInv, IdInv, NEW r \in Routine, callStep(r)
    PROVE  Calm(r) \/ Adopts(r) \/ MissesIt(r) \/ Creates(r) \/ Saves(r)
<1>1. Domains
  BY DEF QueueInv
<1>2. ASSUME return(r) \/ abort(r) \/ returnErr(r) PROVE step'[r] = "start" /\ found'[r] = 0
  BY Zenon, <1>1, <1>2, DoNextIs, ReturnErrIs DEF return, abort
<1>3. ASSUME NEW s, NEW id, goOn(r, s, id) PROVE step'[r] = s /\ found'[r] = id /\ calls'[r] = calls[r]
  BY Zenon, <1>1, <1>3, GoOnIs
<1>4. ASSUME NEW q, doNext(r, q) PROVE step'[r] = "start" /\ found'[r] = 0
  BY Zenon, <1>1, <1>4, DoNextIs
<1>5. ASSUME UNCHANGED <<policies, lastId, record>>, step'[r] \notin {"save", "create"}, found'[r] = 0
      PROVE  Calm(r)
  BY <1>5 DEF Calm, IdInv
<1>6. CASE openStart(r)
  <2>1. UNCHANGED <<policies, lastId, record>>
    BY <1>6 DEF openStart, controllerSame
  <2>2. found'[r] = 0 /\ step'[r] \in {"start", "list", "zones"}
    BY Zenon, <1>2, <1>3, <1>6 DEF openStart
  <2> QED
    BY <1>5, <2>1, <2>2
<1>7. CASE resolveSystemZones(r)
  <2>1. UNCHANGED <<policies, lastId, record>>
    BY <1>7 DEF resolveSystemZones, controllerSame
  <2>2. found'[r] = 0 /\ step'[r] \in {"start", "list"}
    BY Zenon, <1>2, <1>3, <1>7 DEF resolveSystemZones
  <2> QED
    BY <1>5, <2>1, <2>2
<1>8. CASE dnsStart(r)
  <2>1. lastId' = lastId /\ policies' \subseteq policies
    BY <1>8 DEF dnsStart, controllerSame
  <2>2. found'[r] = 0 /\ step'[r] \in {"start", "list"}
    BY Zenon, <1>2, <1>3, <1>8 DEF dnsStart
  <2>3. UNCHANGED record \/ record' = [record EXCEPT !["dns"] = NoRecord]
    BY Zenon, <1>8 DEF dnsStart
  <2> QED
    BY <1>1, <2>1, <2>2, <2>3 DEF Calm, Domains, IdInv
<1>9. CASE findExisting(r)
  <2>1. UNCHANGED <<policies, lastId, record>>
    BY <1>9 DEF findExisting, controllerSame
  <2>2. CASE \E p \in named(now(r).m, now(r).port) : goOn(r, "save", p.id)
    BY Zenon, <1>3, <2>1, <2>2 DEF Adopts
  <2>3. CASE named(now(r).m, now(r).port) = {} /\ goOn(r, "create", 0)
    BY Zenon, <1>3, <2>1, <2>3 DEF MissesIt
  <2>4. CASE returnErr(r)
    BY <1>2, <1>5, <2>1, <2>4
  <2> QED
    BY Zenon, <1>9, <2>2, <2>3, <2>4 DEF findExisting
<1>10. CASE create(r)
  <2>1. UNCHANGED record /\ step[r] = "create" /\ calls[r] # <<>> /\ now(r).op \in {"open", "dnsOn"}
    BY ZenonT(30), <1>10 DEF create, at, now
  <2>2. CASE returnErr(r) /\ controllerSame
    BY <1>2, <1>5, <2>1, <2>2 DEF controllerSame
  <2> QED
    BY Zenon, <1>2, <1>3, <1>10, <2>1, <2>2 DEF create, Creates
<1>11. CASE saveEntry(r)
  <2>1. /\ UNCHANGED <<policies, lastId, loose>> /\ step[r] = "save" /\ calls[r] # <<>>
        /\ now(r).op \in {"open", "dnsOn"}
    BY <1>11 DEF saveEntry, at, now, controllerSame, others
  <2> QED
    BY Zenon, <1>2, <1>11, <2>1 DEF saveEntry, Saves
<1>12. CASE closeStart(r)
  <2>1. UNCHANGED <<policies, lastId, record>> /\ now(r).op = "close" /\ calls[r] # <<>>
    BY <1>12 DEF closeStart, controllerSame, at, now
  <2>2. now(r).m \in Marker
    <3>1. CASE r = "bg"
      BY <2>1, <3>1, BgHead DEF QueueInv, now
    <3>2. CASE r = "http"
      <4>1. Good(now(r))
        BY Zenon, <2>1, <3>2, GoodSeqs DEF QueueInv, now
      <4> QED
        BY <2>1, <4>1 DEF Good
    <3> QED
      BY Zenon, <3>1, <3>2 DEF Routine
  <2>3. /\ step'[r] \in {"start", "delete"} /\ found'[r] \in {0, record[now(r).m].id}
    BY Zenon, <1>2, <1>3, <1>12 DEF closeStart
  <2> QED
    BY <2>1, <2>2, <2>3 DEF Calm, IdInv
<1>13. CASE deletePolicy(r)
  <2>1. lastId' = lastId /\ record' = record /\ policies' \subseteq policies
    BY <1>13 DEF deletePolicy
  <2>2. step'[r] \in {"start", "forget"} /\ found'[r] \in {0, found[r]}
    BY Zenon, <1>2, <1>3, <1>13 DEF deletePolicy
  <2> QED
    BY <2>1, <2>2 DEF Calm, IdInv
<1>14. CASE forget(r)
  <2>1. /\ UNCHANGED <<policies, lastId>> /\ record' = [record EXCEPT ![now(r).m] = NoRecord]
    BY <1>14 DEF forget, controllerSame
  <2>2. step'[r] = "start" /\ found'[r] = 0
    BY Zenon, <1>2, <1>14 DEF forget
  <2> QED
    BY <1>1, <2>1, <2>2 DEF Calm, IdInv, Domains
<1>15. CASE dnsOff(r)
  <2>1. /\ lastId' = lastId /\ policies' \subseteq policies /\ record' = [record EXCEPT !["dns"] = NoRecord]
    BY <1>15 DEF dnsOff
  <2>2. step'[r] = "start" /\ found'[r] = 0
    BY Zenon, <1>2, <1>15 DEF dnsOff
  <2> QED
    BY <1>1, <2>1, <2>2 DEF Calm, IdInv, Domains
<1>16. CASE reconcileSnapshot(r)
  <2>1. UNCHANGED <<policies, lastId, record>>
    BY <1>16 DEF reconcileSnapshot, controllerSame
  <2>2. step'[r] \in {"start", "list"} /\ found'[r] = 0
    BY Zenon, <1>2, <1>3, <1>16 DEF reconcileSnapshot
  <2> QED
    BY <1>5, <2>1, <2>2
<1>17. CASE reconcileList(r) \/ editPrefs(r) \/ updateRelayPortRules(r) \/ updateTailscaleWgPortRules(r)
  <2>1. UNCHANGED <<policies, lastId, record>>
    BY <1>17 DEF reconcileList, editPrefs, updateRelayPortRules, updateTailscaleWgPortRules, controllerSame
  <2>2. step'[r] = "start" /\ found'[r] = 0
    BY Zenon, <1>2, <1>4, <1>17 DEF reconcileList, editPrefs, updateRelayPortRules,
       updateTailscaleWgPortRules
  <2> QED
    BY <1>5, <2>1, <2>2
<1>18. CASE applyUDPPortChange(r) \/ keyGoes(r)
  <2>1. UNCHANGED <<policies, lastId, record>>
    BY <1>18 DEF applyUDPPortChange, keyGoes, controllerSame
  <2>2. step'[r] = "start" /\ found'[r] = 0
    BY Zenon, <1>2, <1>18 DEF applyUDPPortChange, keyGoes
  <2> QED
    BY <1>5, <2>1, <2>2
<1>19. CASE recreate(r)
  <2>1. /\ UNCHANGED <<policies, lastId>>
        /\ UNCHANGED record \/ \E m \in Marker : record' = [record EXCEPT ![m] = NoRecord]
    BY Zenon, <1>19 DEF recreate, controllerSame
  <2>2. step'[r] = "start" /\ found'[r] = 0
    BY Zenon, <1>2, <1>4, <1>19 DEF recreate
  <2> QED
    BY <1>1, <2>1, <2>2 DEF Calm, IdInv, Domains
<1>20. CASE resetIntegration(r)
  <2>1. /\ UNCHANGED <<policies, lastId>> /\ record' = [m \in Marker |-> NoRecord]
    BY <1>20 DEF resetIntegration, controllerSame
  <2>2. step'[r] = "start" /\ found'[r] = 0
    BY Zenon, <1>2, <1>20 DEF resetIntegration
  <2> QED
    BY <2>1, <2>2 DEF Calm, IdInv
<1> QED
  BY Zenon, <1>6, <1>7, <1>8, <1>9, <1>10, <1>11, <1>12, <1>13, <1>14, <1>15, <1>16, <1>17, <1>18,
     <1>19, <1>20 DEF callStep

\* A step that starts calls, or that none of the calls takes.
Lull ==
    /\ policies' \subseteq policies /\ UNCHANGED <<lastId, record, snap>> /\ loose \subseteq loose'
    /\ \A r \in Routine :
          \/ step'[r] = "start" /\ found'[r] \in {0, found[r]}
          \/ calls'[r] = calls[r] /\ step'[r] = step[r] /\ found'[r] = found[r]
    /\ \A r \in Routine : step[r] = "save" =>
          (step'[r] = "save" /\ found'[r] = found[r]) \/ found[r] \in loose' \cup {0}
    /\ (\E c \in Range(calls'["bg"]) : c.op = "recreate") => calls'["bg"] = calls["bg"]

(* Every step is one of a call, or such a one. *)
LEMMA StepKinds ==
    ASSUME QueueInv, WanStep \/ UNCHANGED wanVars
    PROVE  (\E r \in Routine : callStep(r)) \/ Lull
<1>1. ASSUME NEW r \in Routine, NEW q, starts(r, q) PROVE Lull \/ r = "bg"
  <2>1. /\ UNCHANGED <<policies, lastId, record, snap, step, found, loose>> /\ calls[r] = <<>>
        /\ calls' = [calls EXCEPT ![r] = q]
    BY <1>1 DEF starts
  <2>2. step'[r] = "start" /\ \A x \in Routine \ {r} : calls'[x] = calls[x]
    BY Zenon, <2>1, StartsIs
  <2> QED
    BY <1>1, <2>1, <2>2 DEF Lull, Routine
<1>2. ASSUME NEW c, starts("bg", <<c>>), c.op # "recreate" PROVE Lull
  <2>1. /\ UNCHANGED <<policies, lastId, record, snap, step, found, loose>> /\ calls["bg"] = <<>>
        /\ calls' = [calls EXCEPT !["bg"] = <<c>>]
    BY <1>2 DEF starts
  <2>2. /\ step'["bg"] = "start" /\ calls'["http"] = calls["http"] /\ calls'["bg"] = <<c>>
    BY ZenonT(60), <2>1, StartsIs DEF Routine
  <2>3. \A d \in Range(calls'["bg"]) : d.op # "recreate"
    BY SMTT(60), <1>2, <2>2 DEF Range
  <2> QED
    BY <2>1, <2>2, <2>3 DEF Lull, Routine
<1>3. CASE UNCHANGED wanVars \/ adminDeletes \/ relogin
  BY <1>3 DEF wanVars, adminDeletes, relogin, Lull
<1>4. CASE \E q \in Request : SetSettings(q.relay, q.udp, q.dns)
  <2>1. PICK c : starts("http", c)
    BY Zenon, <1>4 DEF SetSettings
  <2> QED
    BY <1>1, <2>1 DEF Routine
<1>5. CASE DeleteKey
  <2>1. PICK c : starts("http", c)
    BY Zenon, <1>5 DEF DeleteKey
  <2> QED
    BY <1>1, <2>1 DEF Routine
<1>6. CASE SetKey
  <2>1. /\ UNCHANGED <<policies, lastId, record, snap, step, found, loose>> /\ calls["http"] = <<>>
        /\ calls' = [calls EXCEPT !["http"] = <<call("open", "wg", setting["wg"])>>]
    BY <1>6 DEF SetKey
  <2>2. step'["http"] = "start" /\ calls'["bg"] = calls["bg"]
    BY ZenonT(60), <2>1, StartsIs DEF Routine
  <2> QED
    BY <2>1, <2>2 DEF Lull, Routine
<1>7. CASE handleAPIKeyExpiry \/ openTailscaleWanPort
  <2>1. PICK c : starts("bg", <<c>>) /\ \E op \in {"keyDrop", "open"} : \E m, x : c = call(op, m, x)
    BY Zenon, <1>7 DEF handleAPIKeyExpiry, openTailscaleWanPort
  <2>2. c.op # "recreate"
    BY <2>1 DEF call
  <2> QED
    BY Zenon, <1>2, <2>1, <2>2
<1>8. CASE restart
  <2>1. /\ UNCHANGED <<policies, lastId, record, snap>>
        /\ \A r \in Routine : step'[r] = "start" /\ found'[r] = 0
        /\ loose' = loose \cup ({found[r] : r \in Routine} \ {0})
    BY <1>8 DEF restart
  <2>2. calls'["bg"] = <<>> \/ calls'["bg"] = <<call("open", "wg", setting["wg"]), call("reconcile", "none", 0)>>
    BY <1>8 DEF restart, Routine, bootCalls
  <2>3. \A d \in Range(calls'["bg"]) : d.op # "recreate"
    BY <2>2 DEF Range, call
  <2> QED
    BY ZenonT(30), <2>1, <2>3 DEF Lull
<1> QED
  BY Zenon, <1>3, <1>4, <1>5, <1>6, <1>7, <1>8 DEF WanStep

(* The ids stay in order. *)
LEMMA IdStep ==
    ASSUME QueueInv, IdInv, WanStep \/ UNCHANGED wanVars
    PROVE  IdInv'
<1> USE DEF IdInv, EntryNamesItsPolicy
<1>0. NoRecord.id = 0
  BY ZenonT(30) DEF NoRecord
<1>1. CASE Lull
  <2>1. \A r \in Routine : step'[r] = "save" =>
           step[r] = "save" /\ now(r)' = now(r) /\ found'[r] = found[r]
    BY <1>1 DEF Lull, now
  <2>2. \A r \in Routine : found'[r] \in 0..lastId
    BY <1>1 DEF Lull
  <2> QED
    BY SMTT(60), <1>1, <2>1, <2>2 DEF Lull
<1>2. ASSUME NEW r \in Routine, callStep(r) PROVE IdInv'
  <2>1. Own(r) /\ calls[r] # <<>>
    BY Zenon, <1>2, CallMoves DEF QueueInv, Moves
  <2>2. \A x \in Routine \ {r} : step'[x] = step[x] /\ now(x)' = now(x) /\ found'[x] = found[x]
    BY Zenon, <2>1 DEF Own, now
  <2>3. CASE Calm(r)
    BY SMTT(60), <1>0, <2>2, <2>3 DEF Calm
  <2>4. CASE Adopts(r)
    <3>1. now(r)' = now(r)
      BY Zenon, <2>4 DEF Adopts, now
    <3> QED
      BY <2>2, <2>4, <3>1 DEF Adopts, named
  <2>5. CASE MissesIt(r)
    BY SMTT(60), <2>2, <2>5 DEF MissesIt
  <2>6. CASE Creates(r)
    <3>1. step'[r] = "save" => found'[r] = lastId + 1 /\ now(r)' = now(r)
      BY <2>6 DEF Creates, now
    <3>2. found'[r] \in 0..lastId'
      BY <2>6 DEF Creates
    <3>3. PICK n : /\ n.id = lastId + 1 /\ n.m = now(r).m /\ n.port = now(r).port
                   /\ policies' = policies \cup {n}
      BY ZenonT(60), <2>6 DEF Creates
    <3>4. lastId' = lastId + 1 /\ UNCHANGED record
      BY ZenonT(30), <2>6 DEF Creates
    <3> QED
      BY SMTT(60), <2>2, <3>1, <3>2, <3>3, <3>4
  <2>7. CASE Saves(r)
    <3>1. /\ UNCHANGED <<policies, lastId>> /\ step[r] = "save" /\ step'[r] = "start" /\ found'[r] = 0
          /\ record' = [record EXCEPT ![now(r).m] = [id |-> found[r], port |-> now(r).port]]
      BY ZenonT(30), <2>7 DEF Saves
    <3>2. \A m \in Marker : \/ record'[m] = record[m]
                            \/ m = now(r).m /\ record'[m] = [id |-> found[r], port |-> now(r).port]
      BY <3>1 DEF QueueInv, Domains
    <3> QED
      BY <2>2, <3>1, <3>2
  <2> QED
    BY Zenon, <1>2, <2>3, <2>4, <2>5, <2>6, <2>7, CallKinds
<1> QED
  BY Zenon, <1>1, <1>2, StepKinds

(* The initial state. *)
LEMMA InitQueues == WanInit => QueueInv /\ IdInv
<1> SUFFICES ASSUME WanInit PROVE QueueInv /\ IdInv
  OBVIOUS
<1>1. /\ policies = {} /\ lastId = 0 /\ record = [m \in Marker |-> NoRecord] /\ snap = record
      /\ step = [r \in Routine |-> "start"] /\ found = [r \in Routine |-> 0]
      /\ calls = [r \in Routine |-> IF r = "bg" THEN bootCalls(setting["wg"]) ELSE <<>>]
  BY DEF WanInit
<1>2. calls["http"] = <<>> /\ calls["bg"] = bootCalls(setting["wg"]) /\ Domains
  BY <1>1 DEF Routine, Domains
<1>3. BgShape(calls["bg"], snap)
  BY Zenon, <1>2 DEF BgShape, bootCalls, Marker, Reconcile
<1>4. GoodSeq(calls["http"])
  BY Zenon, <1>2, GoodSeqs
<1>5. QueueInv
  BY <1>1, <1>2, <1>3, <1>4 DEF QueueInv
<1>6. IdInv
  BY <1>1 DEF IdInv, EntryNamesItsPolicy, NoRecord
<1> QED
  BY <1>5, <1>6

(* Over all steps, an entry of the manifest that points to a policy of the
   controller points to the one of its own marker and port (SetWanPort,
   SetDNSPolicy), so that CloseWanPort never deletes another one's. *)
THEOREM EntriesNameTheirs == WanSpec => []EntryNamesItsPolicy
<1>1. QueueInv /\ IdInv /\ [WanNext]_wanVars => (QueueInv /\ IdInv)'
  BY Zenon, QueueStep, IdStep DEF WanNext
<1>2. IdInv => EntryNamesItsPolicy
  BY DEF IdInv
<1> QED
  BY InitQueues, <1>1, <1>2, PTL DEF WanSpec

-----------------------------------------------------------------------------
(* One policy of a name *)

\* No marker is in two hands, as long as none was.
Disjoint == ~raced => inHand("http") \cap inHand("bg") \cap Marker = {}
NameInv ==
    ~raced =>
        /\ \A p, q \in policies : p.m = q.m /\ p.port = q.port => p = q
        /\ \A r \in Routine : step[r] = "create" => named(now(r).m, now(r).port) = {}

(* What the head call has in hand. *)
LEMMA NowInHand ==
    ASSUME QueueInv, NEW r \in Routine, calls[r] # <<>>
    PROVE  /\ now(r) \in Range(calls[r]) /\ now(r).m \in inHand(r)
           /\ now(r).op \in {"open", "dnsOn", "close"} => now(r).m \in Marker
           /\ now(r).op \in {"dnsOn", "dnsOff"} => now(r).m = "dns"
           /\ r = "http" => now(r).op \in HttpOps
<1>1. CASE r = "bg"
  <2>1. /\ now(r).op \in {"open", "reconcile", "recreate", "keyDrop"} /\ now(r) \in Range(calls[r])
        /\ now(r).op = "open" => now(r).m \in Marker
    BY Zenon, <1>1, BgHead DEF QueueInv, now
  <2>2. now(r).m \in inHand(r)
    BY Zenon, <2>1 DEF inHand
  <2> QED
    BY <1>1, <2>1, <2>2
<1>2. CASE r = "http"
  <2>1. Good(now(r)) /\ now(r) \in Range(calls[r])
    BY Zenon, <1>2, GoodSeqs DEF QueueInv, now
  <2>2. now(r).m \in inHand(r)
    BY Zenon, <2>1 DEF inHand
  <2> QED
    BY <2>1, <2>2 DEF Good
<1> QED
  BY Zenon, <1>1, <1>2 DEF Routine

(* Two calls under way are for different markers. *)
LEMMA Apart ==
    ASSUME QueueInv, Disjoint, ~raced, NEW r \in Routine, NEW x \in Routine \ {r},
           calls[r] # <<>>, now(r).op \in {"open", "dnsOn", "close"}, now(r).m \in inHand(x)
    PROVE  FALSE
<1>1. now(r).m \in inHand(r) \cap inHand(x) \cap Marker
  BY Zenon, NowInHand
<1>2. inHand(r) \cap inHand(x) \cap Marker = inHand("http") \cap inHand("bg") \cap Marker
  <2>1. CASE r = "http" /\ x = "bg"
    BY Zenon, <2>1
  <2>2. CASE r = "bg" /\ x = "http"
    <3>1. inHand("bg") \cap inHand("http") = inHand("http") \cap inHand("bg")
      BY Zenon
    <3> QED
      BY Zenon, <2>2, <3>1
  <2> QED
    BY Zenon, <2>1, <2>2 DEF Routine
<1> QED
  BY Zenon, <1>1, <1>2 DEF Disjoint

(* Whether a marker is in two hands is watched. *)
LEMMA DisjointStep ==
    ASSUME Disjoint, WanNext \/ UNCHANGED wanVars
    PROVE  Disjoint'
<1>1. CASE WanNext
  BY Zenon, <1>1 DEF WanNext, Disjoint
<1>2. CASE UNCHANGED wanVars
  <2>1. raced' = raced /\ inHand("http")' = inHand("http") /\ inHand("bg")' = inHand("bg")
    BY <1>2 DEF wanVars, inHand, at
  <2> QED
    BY ZenonT(60), <2>1 DEF Disjoint
<1> QED
  BY <1>1, <1>2

(* A policy is created when there is none of its name, and no one else is
   about to create one of that name. *)
LEMMA NameStep ==
    ASSUME QueueInv, IdInv, Disjoint, NameInv, WanNext \/ UNCHANGED wanVars
    PROVE  Disjoint' /\ NameInv'
<1>1. Disjoint'
  BY Zenon, DisjointStep
<1> SUFFICES ASSUME ~raced' PROVE NameInv'
  BY Zenon, <1>1 DEF NameInv
<1>2. ~raced
  BY Zenon DEF WanNext, wanVars
<1>3. /\ \A p, q \in policies : p.m = q.m /\ p.port = q.port => p = q
      /\ \A r \in Routine : step[r] = "create" => named(now(r).m, now(r).port) = {}
  BY Zenon, <1>2 DEF NameInv
<1>4. ASSUME NEW m, NEW port, named(m, port) = {}, policies' \subseteq policies
      PROVE  named(m, port)' = {}
  BY <1>4 DEF named
<1>5. CASE Lull
  <2>1. /\ \A r \in Routine : step'[r] = "create" => step[r] = "create" /\ now(r)' = now(r)
        /\ policies' \subseteq policies
    BY <1>5 DEF Lull, now
  <2> QED
    BY ZenonT(60), <1>3, <1>4, <2>1 DEF NameInv, named
<1>6. ASSUME NEW r \in Routine, callStep(r) PROVE NameInv'
  <2>1. Own(r) /\ calls[r] # <<>>
    BY Zenon, <1>6, CallMoves DEF QueueInv, Moves
  <2>2. \A x \in Routine \ {r} : step'[x] = step[x] /\ now(x)' = now(x)
    BY Zenon, <2>1 DEF Own, now
  <2>3. CASE Calm(r) \/ Saves(r) \/ Adopts(r)
    <3>1. policies' \subseteq policies /\ step'[r] # "create"
      BY ZenonT(30), <2>3 DEF Calm, Saves, Adopts
    <3>2. \A p, q \in policies' : p.m = q.m /\ p.port = q.port => p = q
      BY <1>3, <3>1
    <3>3. ASSUME NEW x \in Routine, step'[x] = "create"
          PROVE  named(now(x).m, now(x).port)' = {}
      <4>1. now(x)' = now(x) /\ named(now(x).m, now(x).port) = {}
        BY Zenon, <1>3, <2>2, <3>1, <3>3
      <4> QED
        BY <3>1, <4>1 DEF named
    <3> QED
      BY ZenonT(60), <3>2, <3>3 DEF NameInv
  <2>4. CASE MissesIt(r)
    <3>1. policies' \subseteq policies /\ now(r)' = now(r) /\ named(now(r).m, now(r).port) = {}
      BY <2>4 DEF MissesIt, now
    <3>2. \A p, q \in policies' : p.m = q.m /\ p.port = q.port => p = q
      BY <1>3, <3>1
    <3>3. ASSUME NEW x \in Routine, step'[x] = "create"
          PROVE  named(now(x).m, now(x).port)' = {}
      <4>1. now(x)' = now(x) /\ named(now(x).m, now(x).port) = {}
        BY Zenon, <1>3, <2>2, <3>1, <3>3
      <4> QED
        BY <3>1, <4>1 DEF named
    <3> QED
      BY Zenon, <3>2, <3>3 DEF NameInv
  <2>5. CASE Creates(r)
    <3>1. PICK n : n.m = now(r).m /\ n.port = now(r).port /\ policies' = policies \cup {n}
      BY ZenonT(60), <2>5 DEF Creates
    <3>2. /\ named(now(r).m, now(r).port) = {} /\ step'[r] # "create"
          /\ now(r).op \in {"open", "dnsOn", "close"}
      BY ZenonT(30), <1>3, <2>5 DEF Creates
    <3>3. \A p, q \in policies' : p.m = q.m /\ p.port = q.port => p = q
      BY <1>3, <3>1, <3>2 DEF named
    <3>4. ASSUME NEW x \in Routine, step'[x] = "create"
          PROVE  named(now(x).m, now(x).port)' = {}
      <4>1. x # r /\ step[x] = "create" /\ now(x)' = now(x) /\ named(now(x).m, now(x).port) = {}
        BY Zenon, <1>3, <2>2, <3>2, <3>4
      <4>2. calls[x] # <<>>
        BY <4>1 DEF QueueInv
      <4>3. now(x).m \in inHand(x)
        BY Zenon, <4>2, NowInHand
      <4>4. now(x).m # now(r).m
        BY Zenon, <1>2, <2>1, <3>2, <4>1, <4>3, Apart
      <4> QED
        BY <3>1, <4>1, <4>4 DEF named
    <3> QED
      BY Zenon, <3>3, <3>4 DEF NameInv
  <2> QED
    BY Zenon, <1>6, <2>3, <2>4, <2>5, CallKinds
<1>7. WanStep \/ UNCHANGED wanVars
  BY Zenon DEF WanNext
<1> QED
  BY Zenon, <1>5, <1>6, <1>7, StepKinds

(* Over all steps, unless two goroutines had one marker in hand, a name has
   one policy in the controller: EnsureWanPortPolicy and
   EnsureDNSForwardDomain adopt what an earlier call left behind. *)
THEOREM NamesStaySingle == WanSpec => []OnePolicyPerName
<1>1. WanInit => Disjoint /\ NameInv
  <2> SUFFICES ASSUME WanInit PROVE Disjoint /\ NameInv
    OBVIOUS
  <2>1. /\ policies = {} /\ \A r \in Routine : step[r] = "start"
        /\ calls["http"] = <<>> /\ snap = [m \in Marker |-> NoRecord]
    BY DEF WanInit, Routine
  <2>2. NameInv
    BY ZenonT(30), <2>1 DEF NameInv
  <2>3. inHand("http") = {}
    BY <2>1 DEF inHand, at, Range
  <2>4. Disjoint
    BY <2>3 DEF Disjoint
  <2> QED
    BY ZenonT(30), <2>2, <2>4
<1>2. QueueInv /\ IdInv /\ Disjoint /\ NameInv /\ [WanNext]_wanVars
      => (QueueInv /\ IdInv /\ Disjoint /\ NameInv)'
  BY Zenon, QueueStep, IdStep, NameStep DEF WanNext
<1>3. NameInv => OnePolicyPerName
  BY DEF NameInv, OnePolicyPerName, named
<1> QED
  BY InitQueues, <1>1, <1>2, <1>3, PTL DEF WanSpec

-----------------------------------------------------------------------------
(* No policy is lost *)

Gone(id) == \A p \in policies : p.id # id

\* What a goroutine relies on between two of its steps.
HandStep(r) ==
    /\ step[r] \in {"zones", "list", "create", "save"} /\ now(r).op # "reconcile" =>
          record[now(r).m].id = 0
    /\ step[r] = "delete" => found[r] = record[now(r).m].id
    /\ step[r] = "forget" => Gone(record[now(r).m].id)
    /\ step[r] = "list" /\ now(r).op = "reconcile" =>
          \A m \in Marker : snap[m] # NoRecord => record[m] = snap[m]
HandRecreate(r) ==
    (\E c \in Range(calls[r]) : c.op = "recreate") =>
        \A m \in Marker : snap[m] # NoRecord => Gone(record[m].id)
HandOf(r) == HandStep(r) /\ HandRecreate(r)

\* A policy has its entry, was given up, or is about to be recorded.
Kept ==
    \A p \in policies :
        /\ p.m \in Marker
        /\ \/ record[p.m].id = p.id \/ p.id \in loose
           \/ \E r \in Routine : step[r] = "save" /\ found[r] = p.id
HandInv == ~raced => (\A r \in Routine : HandOf(r)) /\ Kept

(* Only a goroutine with the marker in hand changes its entry. *)
LEMMA RecordOwner ==
    ASSUME QueueInv, NEW r \in Routine, callStep(r), NEW m \in Marker, record'[m] # record[m]
    PROVE  m \in inHand(r)
<1>1. calls[r] # <<>> /\ DOMAIN record = Marker
  BY Zenon, CallMoves DEF QueueInv, Moves, Domains
<1>2. now(r) \in Range(calls[r]) /\ now(r).m \in inHand(r)
      /\ (now(r).op \in {"dnsOn", "dnsOff"} => now(r).m = "dns")
  BY Zenon, <1>1, NowInHand
<1>3. CASE dnsStart(r) \/ dnsOff(r)
  <2>1. now(r).op \in {"dnsOn", "dnsOff"} /\ (UNCHANGED record \/ record' = [record EXCEPT !["dns"] = NoRecord])
    BY Zenon, <1>3 DEF dnsStart, dnsOff, at, now
  <2>2. m = "dns"
    BY <1>1, <2>1
  <2> QED
    BY Zenon, <1>2, <2>1, <2>2
<1>4. CASE saveEntry(r) \/ forget(r)
  <2>1. \E x : record' = [record EXCEPT ![now(r).m] = x]
    BY Zenon, <1>4 DEF saveEntry, forget
  <2>2. m = now(r).m
    BY <1>1, <2>1
  <2> QED
    BY Zenon, <1>2, <2>2
<1>5. CASE recreate(r)
  <2>1. PICK k \in Marker : snap[k] # NoRecord /\ record' = [record EXCEPT ![k] = NoRecord]
    BY Zenon, <1>5 DEF recreate
  <2>2. m = k
    BY <1>1, <2>1
  <2>3. now(r).op = "recreate"
    BY Zenon, <1>5 DEF recreate, at, now
  <2> QED
    BY Zenon, <1>2, <2>1, <2>2, <2>3 DEF inHand
<1>6. CASE resetIntegration(r)
  <2>1. now(r).op = "keyDrop"
    BY Zenon, <1>6 DEF resetIntegration, at, now
  <2>2. \E c \in Range(calls[r]) : c.op \in {"keyDelete", "keyDrop"}
    BY Zenon, <1>2, <2>1
  <2> QED
    BY Zenon, <2>2 DEF inHand
<1>7. record' = record \/ dnsStart(r) \/ dnsOff(r) \/ saveEntry(r) \/ forget(r) \/ recreate(r)
      \/ resetIntegration(r)
  BY Zenon DEF callStep, openStart, resolveSystemZones, findExisting, create, closeStart, deletePolicy,
     reconcileSnapshot, reconcileList, editPrefs, applyUDPPortChange, updateRelayPortRules,
     updateTailscaleWgPortRules, keyGoes
<1> QED
  BY Zenon, <1>3, <1>4, <1>5, <1>6, <1>7

(* What is gone stays gone: a new policy has a new id. *)
LEMMA GoneStays ==
    ASSUME QueueInv, IdInv, NEW r \in Routine, callStep(r), NEW id \in 0..lastId
    PROVE  /\ Gone(id) => Gone(id)'
           /\ Gone(0)'
           /\ \A p \in policies' : p \in policies \/ Creates(r)
<1>1. CASE Calm(r) \/ Adopts(r) \/ MissesIt(r) \/ Saves(r)
  <2>1. policies' \subseteq policies
    BY ZenonT(30), <1>1 DEF Calm, Adopts, MissesIt, Saves
  <2> QED
    BY SMTT(60), <2>1 DEF Gone, IdInv
<1>2. CASE Creates(r)
  <2>1. PICK n : n.id = lastId + 1 /\ policies' = policies \cup {n}
    BY ZenonT(60), <1>2 DEF Creates
  <2> QED
    BY SMTT(60), <1>2, <2>1 DEF Gone, IdInv
<1> QED
  BY ZenonT(60), <1>1, <1>2, CallKinds

(* What the other goroutine relies on is kept. *)
LEMMA HandOther ==
    ASSUME QueueInv, IdInv, Disjoint, ~raced, NEW r \in Routine, NEW x \in Routine \ {r}, HandOf(x),
           callStep(r)
    PROVE  HandOf(x)'
<1>1. /\ calls[r] # <<>> /\ calls'[x] = calls[x] /\ step'[x] = step[x] /\ found'[x] = found[x]
      /\ now(x)' = now(x) /\ (now(r).op \notin {"reconcile", "recreate"} => snap' = snap)
  BY Zenon, CallMoves DEF QueueInv, Moves, Own, now
<1>2. \A m \in inHand(x) \cap Marker : record'[m] = record[m]
  <2>1. inHand(r) \cap inHand(x) \cap Marker = {}
    <3>1. CASE r = "http" /\ x = "bg"
      BY Zenon, <3>1 DEF Disjoint
    <3>2. CASE r = "bg" /\ x = "http"
      <4>1. inHand("bg") \cap inHand("http") = inHand("http") \cap inHand("bg")
        BY Zenon
      <4> QED
        BY Zenon, <3>2, <4>1 DEF Disjoint
    <3> QED
      BY <3>1, <3>2 DEF Routine
  <2> QED
    BY Zenon, <2>1, RecordOwner
<1>3. ASSUME NEW m \in Marker, Gone(record[m].id) PROVE Gone(record[m].id)' \/ record'[m] # record[m]
  <2>1. PICK id : id = record[m].id /\ id \in 0..lastId
    BY DEF IdInv
  <2>2. Gone(id) => Gone(id)'
    BY Zenon, <2>1, GoneStays
  <2> QED
    BY Zenon, <1>3, <2>1, <2>2 DEF Gone
<1>4. ASSUME step[x] # "start", now(x).op # "reconcile"
      PROVE  now(x).m \in Marker /\ now(x).m \in inHand(x)
  <2>1. calls[x] # <<>> /\ now(x).op \in {"open", "dnsOn", "close"}
    BY <1>4 DEF QueueInv
  <2> QED
    BY ZenonT(60), <2>1, NowInHand
<1>5. CASE x = "bg"
  <2>1. r = "http"
    BY Zenon, <1>5 DEF Routine
  <2>2. now(r).op \in HttpOps
    BY ZenonT(60), <1>1, <2>1, NowInHand
  <2>3. snap' = snap
    BY <1>1, <2>2 DEF HttpOps
  <2>4. step[x] = "list" /\ now(x).op = "reconcile" =>
           \A m \in Marker : snap[m] # NoRecord => m \in inHand(x)
    <3> SUFFICES ASSUME step[x] = "list", now(x).op = "reconcile", NEW m \in Marker, snap[m] # NoRecord
                 PROVE  m \in inHand(x)
      BY Zenon
    <3>1. calls[x] # <<>>
      BY DEF QueueInv
    <3>2. at(x, "reconcile", "list")
      BY <3>1 DEF at, now
    <3> QED
      BY Zenon, <3>2 DEF inHand
  <2>5. (\E c \in Range(calls[x]) : c.op = "recreate") =>
           \A m \in Marker : snap[m] # NoRecord => m \in inHand(x)
    BY ZenonT(60) DEF inHand
  <2>6. step[x] \in {"zones", "list", "create", "save"} /\ now(x).op # "reconcile" =>
           record'[now(x).m].id = 0
    BY ZenonT(30), <1>2, <1>4 DEF HandOf, HandStep, HandRecreate
  <2>7. step[x] = "delete" => found[x] = record'[now(x).m].id
    <3>1. step[x] = "delete" => now(x).op # "reconcile"
      BY DEF QueueInv
    <3> QED
      BY SMTT(60), <1>2, <1>4, <3>1 DEF HandOf, HandStep, HandRecreate
  <2>8. step[x] = "forget" => Gone(record[now(x).m].id)'
    <3>1. step[x] = "forget" => now(x).op # "reconcile"
      BY DEF QueueInv
    <3> QED
      BY ZenonT(60), <1>1, <1>2, <1>3, <1>4, <3>1 DEF HandOf, HandStep, HandRecreate
  <2> QED
    BY Zenon, <1>1, <1>2, <1>3, <2>3, <2>4, <2>5, <2>6, <2>7, <2>8 DEF HandOf, HandStep, HandRecreate
<1>6. CASE x = "http"
  <2>1. \A c \in Range(calls[x]) : c.op \in HttpOps
    BY Zenon, <1>6 DEF QueueInv, GoodSeq, Good
  <2>2. /\ ~\E c \in Range(calls[x]) : c.op = "recreate"
        /\ calls[x] # <<>> => now(x).op # "reconcile"
    <3>1. calls[x] # <<>> => now(x).op \in HttpOps
      BY ZenonT(60), <1>6, NowInHand
    <3> QED
      BY <2>1, <3>1 DEF HttpOps
  <2>3. step[x] # "start" => now(x).op # "reconcile"
    BY ZenonT(30), <2>2 DEF QueueInv
  <2>4. step[x] \in {"zones", "list", "create", "save"} => record'[now(x).m].id = 0
    BY ZenonT(30), <1>2, <1>4, <2>3 DEF HandOf, HandStep, HandRecreate
  <2>5. step[x] = "delete" => found[x] = record'[now(x).m].id
    BY <1>2, <1>4, <2>3 DEF HandOf, HandStep, HandRecreate
  <2>6. step[x] = "forget" => Gone(record[now(x).m].id)'
    <3>1. step[x] = "forget" => step[x] # "start"
      OBVIOUS
    <3> QED
      BY Zenon, <1>1, <1>2, <1>3, <1>4, <2>3, <3>1 DEF HandOf, HandStep, HandRecreate
  <2>7. step[x] = "list" => now(x).op # "reconcile"
    BY <2>3
  <2> QED
    BY Zenon, <1>1, <2>2, <2>4, <2>5, <2>6, <2>7 DEF HandOf, HandStep, HandRecreate
<1> QED
  BY Zenon, <1>5, <1>6 DEF Routine

(* What a goroutine relies on holds after its own step. *)
LEMMA OwnStep ==
    ASSUME QueueInv, IdInv, NEW r \in Routine, HandStep(r), callStep(r)
    PROVE  HandStep(r)'
<1>1. Domains
  BY ZenonT(30) DEF QueueInv
<1>2. ASSUME return(r) \/ abort(r) \/ returnErr(r) \/ \E q : doNext(r, q) PROVE HandStep(r)'
  <2>1. step'[r] = "start"
    BY Zenon, <1>1, <1>2, DoNextIs, ReturnErrIs DEF return, abort
  <2> QED
    BY <2>1 DEF HandStep
<1>3. ASSUME NEW s, NEW id, goOn(r, s, id)
      PROVE  step'[r] = s /\ found'[r] = id /\ now(r)' = now(r)
  BY ZenonT(60), <1>1, <1>3, GoOnIs DEF now
<1>4. ASSUME NEW s \in {"zones", "list", "create", "save"}, NEW id, goOn(r, s, id),
             now(r).op \in {"open", "dnsOn"}, record'[now(r).m].id = 0
      PROVE  HandStep(r)'
  <2>1. step'[r] = s /\ now(r)' = now(r) /\ now(r).op # "reconcile"
    BY <1>3, <1>4
  <2> QED
    BY ZenonT(30), <1>4, <2>1 DEF HandStep
<1>5. CASE openStart(r)
  <2>1. now(r).op = "open" /\ UNCHANGED record
    BY <1>5 DEF openStart, at, now
  <2>2. CASE return(r)
    BY Zenon, <1>2, <2>2
  <2>3. CASE record[now(r).m].id = 0 /\ \E s \in {"zones", "list"} : goOn(r, s, 0)
    BY Zenon, <1>4, <2>1, <2>3
  <2>4. return(r) \/ (record[now(r).m].id = 0 /\ \E s \in {"zones", "list"} : goOn(r, s, 0))
    BY Zenon, <1>5 DEF openStart
  <2> QED
    BY Zenon, <2>2, <2>3, <2>4
<1>6. CASE resolveSystemZones(r) \/ findExisting(r) \/ create(r)
  <2>1. /\ UNCHANGED record /\ step[r] \in {"zones", "list", "create"}
        /\ now(r).op \in {"open", "dnsOn"}
    BY ZenonT(30), <1>6 DEF resolveSystemZones, findExisting, create, at, now
  <2>2. record'[now(r).m].id = 0
    BY <2>1 DEF HandStep
  <2>3. returnErr(r) \/ return(r) \/ \E s \in {"zones", "list", "create", "save"} : \E id : goOn(r, s, id)
    BY Zenon, <1>6 DEF resolveSystemZones, findExisting, create
  <2> QED
    BY ZenonT(60), <1>2, <1>4, <2>1, <2>2, <2>3
<1>7. CASE dnsStart(r)
  <2>1. calls[r] # <<>> /\ now(r).op = "dnsOn"
    BY <1>7 DEF dnsStart, at, now
  <2>2. now(r).m = "dns"
    BY Zenon, <2>1, NowInHand
  <2>3. CASE abort(r) \/ return(r)
    BY Zenon, <1>2, <2>3
  <2>4. CASE goOn(r, "list", 0) /\ (  (record["dns"] = NoRecord /\ UNCHANGED record)
                                   \/ record' = [record EXCEPT !["dns"] = NoRecord])
    <3>1. record'[now(r).m].id = 0
      BY <1>1, <2>2, <2>4 DEF Domains, NoRecord, Marker
    <3> QED
      BY ZenonT(60), <1>4, <2>1, <2>4, <3>1
  <2> QED
    BY ZenonT(60), <1>7, <2>3, <2>4 DEF dnsStart
<1>8. CASE closeStart(r)
  <2>1. UNCHANGED record
    BY ZenonT(60), <1>8 DEF closeStart
  <2>2. CASE return(r)
    BY Zenon, <1>2, <2>2
  <2>3. CASE goOn(r, "delete", record[now(r).m].id)
    <3>1. step'[r] = "delete" /\ found'[r] = record[now(r).m].id /\ now(r)' = now(r)
      BY Zenon, <1>3, <2>3
    <3> QED
      BY <2>1, <3>1 DEF HandStep
  <2> QED
    BY ZenonT(60), <1>8, <2>2, <2>3 DEF closeStart
<1>9. CASE deletePolicy(r)
  <2>1. UNCHANGED record /\ step[r] = "delete"
    BY ZenonT(60), <1>9 DEF deletePolicy, at
  <2>2. CASE return(r)
    BY Zenon, <1>2, <2>2
  <2>3. CASE policies' = {p \in policies : p.id # found[r]} /\ goOn(r, "forget", found[r])
    <3>1. step'[r] = "forget" /\ now(r)' = now(r)
      BY ZenonT(60), <1>3, <2>3
    <3>2. found[r] = record'[now(r).m].id
      BY ZenonT(30), <2>1 DEF HandStep
    <3>3. Gone(record[now(r).m].id)'
      BY <2>3, <3>1, <3>2 DEF Gone
    <3> QED
      BY <3>1, <3>3 DEF HandStep
  <2> QED
    BY ZenonT(60), <1>9, <2>2, <2>3 DEF deletePolicy
<1>10. CASE reconcileSnapshot(r)
  <2>1. /\ UNCHANGED record /\ snap' = [record EXCEPT !["dns"] = NoRecord]
        /\ now(r).op = "reconcile"
    BY ZenonT(60), <1>10 DEF reconcileSnapshot, at, now
  <2>2. CASE return(r)
    BY Zenon, <1>2, <2>2
  <2>3. CASE goOn(r, "list", 0)
    <3>1. step'[r] = "list" /\ now(r)' = now(r)
      BY ZenonT(60), <1>3, <2>3
    <3>2. \A m \in Marker : snap'[m] # NoRecord => record'[m] = snap'[m]
      BY <1>1, <2>1 DEF Domains, Marker
    <3> QED
      BY <2>1, <3>1, <3>2 DEF HandStep
  <2> QED
    BY Zenon, <1>10, <2>2, <2>3 DEF reconcileSnapshot
<1>11. CASE saveEntry(r) \/ forget(r) \/ dnsOff(r) \/ applyUDPPortChange(r) \/ keyGoes(r)
            \/ resetIntegration(r)
  BY Zenon, <1>2, <1>11 DEF saveEntry, forget, dnsOff, applyUDPPortChange, keyGoes, resetIntegration
<1>12. CASE reconcileList(r) \/ recreate(r) \/ editPrefs(r) \/ updateRelayPortRules(r)
            \/ updateTailscaleWgPortRules(r)
  BY Zenon, <1>2, <1>12 DEF reconcileList, recreate, editPrefs, updateRelayPortRules,
     updateTailscaleWgPortRules
<1> QED
  BY ZenonT(60), <1>5, <1>6, <1>7, <1>8, <1>9, <1>10, <1>11, <1>12 DEF callStep

(* What the reconciliation still has to recreate is gone. *)
LEMMA OwnRecreate ==
    ASSUME QueueInv, QueueInv', IdInv, NEW r \in Routine, HandOf(r), callStep(r)
    PROVE  HandRecreate(r)'
<1>1. Moves(r)
  BY ZenonT(60), CallMoves DEF QueueInv
<1>2. CASE r = "http"
  <2>1. \A c \in Range(calls'[r]) : c.op \in HttpOps
    BY ZenonT(60), <1>2 DEF QueueInv, GoodSeq, Good
  <2> QED
    BY <2>1 DEF HandRecreate, HttpOps
<1>3. ASSUME r = "bg", \E c \in Range(calls[r]) : c.op = "recreate",
             \A m \in Marker : snap'[m] # NoRecord => snap[m] # NoRecord /\ record'[m] \in {record[m], NoRecord}
      PROVE  HandRecreate(r)'
  <2>1. ASSUME NEW m \in Marker, snap'[m] # NoRecord PROVE Gone(record[m].id)'
    <3>1. Gone(record[m].id) /\ record[m].id \in 0..lastId
      BY <1>3, <2>1 DEF HandOf, HandRecreate, IdInv
    <3>2. PICK id : id = record[m].id
      BY Zenon
    <3>3. Gone(id)' /\ Gone(0)'
      BY Zenon, <3>1, <3>2, GoneStays
    <3> QED
      BY SMTT(60), <1>3, <2>1, <3>2, <3>3 DEF Gone, NoRecord
  <2> QED
    BY ZenonT(60), <2>1 DEF HandRecreate
<1>4. CASE r = "bg" /\ reconcileList(r)
  <2>1. CASE return(r)
    <3>1. calls'[r] = Tail(calls[r])
      BY Zenon, <2>1, DoNextIs DEF return, QueueInv
    <3>2. Tail(calls[r]) = <<>>
      <4>1. calls[r] # <<>> /\ now(r).op = "reconcile"
        BY Zenon, <1>4 DEF reconcileList, at, now
      <4>2. now(r).op # "open"
        BY ZenonT(30), <4>1
      <4> QED
        BY Zenon, <1>4, <4>1, <4>2, BgHead DEF QueueInv, now
    <3> QED
      BY <3>1, <3>2 DEF HandRecreate, Range
  <2>2. CASE ~return(r)
    <3>1. /\ snap' = [m \in Marker |->
                       IF \E p \in policies : p.id = snap[m].id THEN NoRecord ELSE snap[m]]
          /\ UNCHANGED <<policies, record>> /\ step[r] = "list" /\ now(r).op = "reconcile"
      BY ZenonT(60), <1>4, <2>2 DEF reconcileList, controllerSame, at, now
    <3>2. \A m \in Marker : snap[m] # NoRecord => record[m] = snap[m]
      BY ZenonT(30), <3>1 DEF HandOf, HandStep
    <3>3. \A m \in Marker : snap'[m] # NoRecord => Gone(record[m].id)'
      BY <3>1, <3>2 DEF Gone
    <3> QED
      BY <3>3 DEF HandRecreate
  <2> QED
    BY ZenonT(30), <2>1, <2>2
<1>5. CASE r = "bg" /\ recreate(r)
  <2>1. \E c \in Range(calls[r]) : c.op = "recreate"
    <3>1. calls[r] # <<>> /\ now(r).op = "recreate"
      BY Zenon, <1>5 DEF recreate, at, now
    <3> QED
      BY Zenon, <3>1, NowInHand
  <2>2. UNCHANGED <<record, snap>>
        \/ \E m \in Marker : record' = [record EXCEPT ![m] = NoRecord] /\ snap' = [snap EXCEPT ![m] = NoRecord]
    BY Zenon, <1>5 DEF recreate
  <2>3. \A m \in Marker : snap'[m] # NoRecord => snap[m] # NoRecord /\ record'[m] \in {record[m], NoRecord}
    BY ZenonT(30), <2>2 DEF QueueInv, Domains
  <2> QED
    BY Zenon, <1>3, <1>5, <2>1, <2>3
<1>6. ASSUME r = "bg", ~reconcileList(r), ~recreate(r), \E c \in Range(calls'[r]) : c.op = "recreate"
      PROVE  HandRecreate(r)'
  <2>1. calls[r] # <<>>
    BY Zenon, <1>1 DEF Moves
  <2>2. now(r).op \in {"open", "reconcile", "recreate", "keyDrop"}
        /\ (now(r).op # "open" => Tail(calls[r]) = <<>> /\ calls[r] = <<now(r)>>)
        /\ (now(r).op = "open" => (Tail(calls[r]) = <<Recreate>> => snap[now(r).m] = NoRecord))
        /\ (now(r).op = "open" => Tail(calls[r]) \in {<<>>, <<Reconcile>>, <<Recreate>>})
    BY ZenonT(60), <1>6, <2>1, BgHead DEF QueueInv, now
  <2>3. \A op \in {"open", "reconcile", "keyDrop"} : op # "recreate"
    OBVIOUS
  <2>4. now(r).op # "recreate"
    <3>1. recreate(r) \/ now(r).op \in {"open", "dnsOn", "dnsOff", "close", "reconcile", "prefs", "portFile",
                                       "swapRelay", "swapWg", "keyDelete", "keyDrop"}
      BY ZenonT(60), <1>6 DEF callStep, openStart, resolveSystemZones, dnsStart, findExisting, create,
         saveEntry, closeStart, deletePolicy, forget, dnsOff, reconcileSnapshot, reconcileList,
         editPrefs, applyUDPPortChange, updateRelayPortRules, updateTailscaleWgPortRules,
         keyGoes, resetIntegration, at, now
    <3> QED
      BY <1>6, <3>1
  <2>5. calls'[r] \in {<<>>, Tail(calls[r]), calls[r]}
    <3>1. ~Expands(r)
      <4>1. now(r).op \notin {"prefs", "swapRelay", "swapWg", "recreate"}
        BY <2>2, <2>4
      <4>2. CASE now(r).op = "reconcile"
        <5>1. reconcileSnapshot(r)
          BY ZenonT(60), <1>6, <4>2 DEF callStep, openStart, resolveSystemZones, dnsStart, findExisting, create,
             saveEntry, closeStart, deletePolicy, forget, dnsOff,
             editPrefs, applyUDPPortChange, updateRelayPortRules, updateTailscaleWgPortRules,
             keyGoes, resetIntegration, at, now
        <5>2. calls'[r] \in {Tail(calls[r]), calls[r]}
          BY Zenon, <5>1, DoNextIs, GoOnIs DEF reconcileSnapshot, return, QueueInv
        <5>3. calls[r] = <<now(r)>> /\ Tail(calls[r]) = <<>>
          BY <2>2, <4>2
        <5>4. \A c \in Range(calls'[r]) : c.op # "recreate"
          BY SMTT(60), <4>2, <5>2, <5>3 DEF Range
        <5> QED
          BY ZenonT(30), <1>6, <5>4
      <4> QED
        BY ZenonT(60), <4>1, <4>2 DEF Expands
    <3> QED
      BY ZenonT(60), <1>1, <3>1 DEF Moves, Passes, GoesOn
  <2>6. now(r).op = "open"
    <3> SUFFICES ASSUME now(r).op # "open" PROVE FALSE
      OBVIOUS
    <3>1. calls[r] = <<now(r)>> /\ Tail(calls[r]) = <<>>
      BY ZenonT(30), <2>2
    <3> QED
      BY <1>6, <2>4, <2>5, <3>1 DEF Range
  <2>7. snap' = snap
    BY <1>1, <2>6 DEF Moves
  <2>8. \E c \in Range(calls[r]) : c.op = "recreate"
    <3>1. \A c \in Range(Tail(calls[r])) : c \in Range(calls[r])
      BY Zenon, <1>6, <2>1, BgRest DEF QueueInv
    <3>2. Range(<<>>) = {}
      BY DEF Range
    <3> QED
      BY Zenon, <1>6, <2>5, <3>1, <3>2
  <2>9. CASE Calm(r) \/ Adopts(r) \/ MissesIt(r) \/ Creates(r)
    <3>1. \A m \in Marker : record'[m] \in {record[m], NoRecord}
      BY <2>9 DEF Calm, Adopts, MissesIt, Creates
    <3> QED
      BY ZenonT(60), <1>3, <1>6, <2>7, <2>8, <3>1
  <2>10. CASE Saves(r)
    <3>1. /\ record' = [record EXCEPT ![now(r).m] = [id |-> found[r], port |-> now(r).port]]
          /\ step'[r] = "start"
      BY ZenonT(30), <2>10 DEF Saves
    <3>2. ~GoesOn(r)
      BY ZenonT(60), <3>1 DEF GoesOn
    <3>3. ~Expands(r)
      BY ZenonT(30), <2>6 DEF Expands
    <3>4. calls'[r] = <<>> \/ calls'[r] = Tail(calls[r])
      BY ZenonT(60), <1>1, <3>2, <3>3 DEF Moves, Passes
    <3>5. \A q \in {<<>>, <<Reconcile>>} : \A c \in Range(q) : c.op # "recreate"
      BY DEF Range, Reconcile, call
    <3>6. Tail(calls[r]) = <<Recreate>>
      BY Zenon, <1>6, <2>2, <2>6, <3>4, <3>5
    <3>7. snap[now(r).m] = NoRecord
      BY ZenonT(60), <2>2, <2>6, <3>6
    <3>8. \A m \in Marker : snap[m] # NoRecord => record'[m] = record[m]
      BY <3>1, <3>7 DEF QueueInv, Domains
    <3> QED
      BY ZenonT(60), <1>3, <1>6, <2>7, <2>8, <3>8
  <2>11. Calm(r) \/ Adopts(r) \/ MissesIt(r) \/ Creates(r) \/ Saves(r)
    BY Zenon, CallKinds
  <2> QED
    BY <2>9, <2>10, <2>11
<1> QED
  BY Zenon, <1>2, <1>4, <1>5, <1>6 DEF Routine, HandRecreate

(* A call's step loses sight of no policy. *)
LEMMA KeptStep ==
    ASSUME QueueInv, IdInv, NEW r \in Routine, HandOf(r), Kept, callStep(r)
    PROVE  Kept'
<1>1. Own(r) /\ Domains /\ calls[r] # <<>>
  BY Zenon, CallMoves DEF QueueInv, Moves
<1>2. \A x \in Routine \ {r} : step'[x] = step[x] /\ found'[x] = found[x]
  BY Zenon, <1>1 DEF Own
<1>3. /\ now(r) \in Range(calls[r]) /\ (now(r).op \in {"open", "dnsOn", "close"} => now(r).m \in Marker)
      /\ (now(r).op \in {"dnsOn", "dnsOff"} => now(r).m = "dns")
  BY Zenon, <1>1, NowInHand
<1>4. \A p \in policies : p.id \in 1..lastId
  BY DEF IdInv
<1>5. ASSUME policies' \subseteq policies, loose \subseteq loose', step[r] # "save",
             \A p \in policies' : p.m \in Marker /\ record[p.m].id = p.id =>
                record'[p.m].id = p.id \/ p.id \in loose'
      PROVE  Kept'
  BY ZenonT(60), <1>2, <1>5 DEF Kept
<1>6. ASSUME policies' \subseteq policies, loose \subseteq loose', step[r] # "save", NEW k \in Marker,
             record' = [record EXCEPT ![k] = NoRecord],
             \A p \in policies' : p.id = record[k].id => p.id \in loose'
      PROVE  Kept'
  <2>1. \A m \in Marker \ {k} : record'[m] = record[m]
    BY <1>1, <1>6 DEF Domains
  <2>2. \A p \in policies' : p.m \in Marker /\ record[p.m].id = p.id =>
           record'[p.m].id = p.id \/ p.id \in loose'
    BY <1>6, <2>1
  <2> QED
    BY Zenon, <1>5, <1>6, <2>2
<1>7. CASE dnsStart(r)
  <2>1. step[r] # "save"
    BY ZenonT(30), <1>7 DEF dnsStart, at
  <2>2. CASE UNCHANGED <<policies, record, loose>>
    BY ZenonT(30), <1>5, <2>1, <2>2
  <2>3. CASE record' = [record EXCEPT !["dns"] = NoRecord] /\ UNCHANGED policies
             /\ loose' = loose \cup {record["dns"].id}
    BY ZenonT(30), <1>6, <2>1, <2>3 DEF Marker
  <2>4. CASE record' = [record EXCEPT !["dns"] = NoRecord] /\ UNCHANGED loose
             /\ policies' = {p \in policies : p.id # record["dns"].id}
    BY <1>6, <2>1, <2>4 DEF Marker
  <2>5. \/ UNCHANGED <<policies, record, loose>>
        \/ /\ record' = [record EXCEPT !["dns"] = NoRecord]
           /\ \/ UNCHANGED policies /\ loose' = loose \cup {record["dns"].id}
              \/ UNCHANGED loose /\ policies' = {p \in policies : p.id # record["dns"].id}
    BY Zenon, <1>7 DEF dnsStart, controllerSame
  <2> QED
    BY Zenon, <2>2, <2>3, <2>4, <2>5
<1>8. CASE create(r)
  <2>1. step[r] # "save" /\ UNCHANGED record /\ now(r).op \in {"open", "dnsOn"}
    BY ZenonT(30), <1>8 DEF create, at, now
  <2>2. CASE UNCHANGED <<policies, loose>>
    BY <1>5, <2>1, <2>2
  <2>3. CASE Creates(r)
    <3>1. PICK n : n.m = now(r).m /\ n.id = lastId + 1 /\ policies' = policies \cup {n}
      BY ZenonT(60), <2>3 DEF Creates
    <3>2. loose \subseteq loose' /\ (n.id \in loose' \/ (step'[r] = "save" /\ found'[r] = n.id))
      BY <2>3, <3>1 DEF Creates
    <3>3. n.m \in Marker
      BY Zenon, <1>3, <2>1, <3>1
    <3>4. ASSUME NEW p \in policies
          PROVE  /\ p.m \in Marker
                 /\ \/ record'[p.m].id = p.id \/ p.id \in loose'
                    \/ \E x \in Routine : step'[x] = "save" /\ found'[x] = p.id
      <4>1. CASE \E x \in Routine : step[x] = "save" /\ found[x] = p.id
        BY Zenon, <1>2, <2>1, <4>1 DEF Kept
      <4> QED
        BY Zenon, <2>1, <3>2, <4>1 DEF Kept
    <3>5. \A p \in policies' : p \in policies \/ p = n
      BY Zenon, <3>1
    <3> QED
      BY Zenon, <3>2, <3>3, <3>4, <3>5 DEF Kept
  <2>4. Creates(r) \/ UNCHANGED <<policies, loose>>
    <3>1. Domains
      BY Zenon, <1>1
    <3>2. ASSUME NEW s, NEW id, goOn(r, s, id) PROVE step'[r] = s /\ found'[r] = id /\ calls'[r] = calls[r]
      BY Zenon, <3>1, <3>2, GoOnIs
    <3>3. ASSUME returnErr(r) PROVE step'[r] = "start" /\ found'[r] = 0
      BY ZenonT(60), <3>1, <3>3, ReturnErrIs
    <3>4. step[r] = "create"
      BY <1>8 DEF create, at
    <3> QED
      BY Zenon, <1>1, <1>8, <2>1, <3>2, <3>3, <3>4 DEF create, Creates, controllerSame
  <2> QED
    BY ZenonT(60), <2>2, <2>3, <2>4
<1>9. CASE saveEntry(r)
  <2>1. /\ UNCHANGED <<policies, loose>> /\ step[r] = "save" /\ now(r).op \in {"open", "dnsOn"}
        /\ record' = [record EXCEPT ![now(r).m] = [id |-> found[r], port |-> now(r).port]]
    BY ZenonT(30), <1>9 DEF saveEntry, controllerSame, others, at, now
  <2>2. now(r).m \in Marker /\ record[now(r).m].id = 0
    BY ZenonT(60), <1>3, <2>1 DEF HandOf, HandStep
  <2>3. \A p \in policies : p.id = found[r] => p.m = now(r).m
    BY ZenonT(30), <2>1 DEF IdInv
  <2>4. /\ \A m \in Marker \ {now(r).m} : record'[m] = record[m]
        /\ record'[now(r).m].id = found[r]
    BY ZenonT(60), <1>1, <2>1, <2>2 DEF Domains
  <2>5. ASSUME NEW p \in policies
        PROVE  /\ p.m \in Marker
               /\ \/ record'[p.m].id = p.id \/ p.id \in loose
                  \/ \E x \in Routine : step'[x] = "save" /\ found'[x] = p.id
    <3>1. p.m \in Marker /\ p.id # 0
      BY SMTT(60), <1>4 DEF Kept
    <3>2. CASE record[p.m].id = p.id
      BY ZenonT(60), <2>2, <2>4, <3>1, <3>2
    <3>3. CASE \E x \in Routine : step[x] = "save" /\ found[x] = p.id
      BY ZenonT(60), <1>2, <2>3, <2>4, <3>1, <3>3
    <3> QED
      BY ZenonT(60), <3>1, <3>2, <3>3 DEF Kept
  <2> QED
    BY ZenonT(60), <2>1, <2>5 DEF Kept
<1>10. CASE forget(r)
  <2>1. /\ UNCHANGED <<policies, loose>> /\ step[r] = "forget" /\ now(r).op = "close"
        /\ record' = [record EXCEPT ![now(r).m] = NoRecord]
    BY ZenonT(60), <1>10 DEF forget, controllerSame, others, at, now
  <2>2. now(r).m \in Marker /\ Gone(record[now(r).m].id)
    BY <1>3, <2>1 DEF HandOf, HandStep
  <2> QED
    BY ZenonT(60), <1>6, <2>1, <2>2 DEF Gone
<1>11. CASE dnsOff(r)
  <2>1. step[r] # "save" /\ record' = [record EXCEPT !["dns"] = NoRecord]
    BY <1>11 DEF dnsOff, at
  <2>2. \/ UNCHANGED loose /\ policies' = {p \in policies : p.id # record["dns"].id}
        \/ UNCHANGED policies /\ loose' = loose \cup ({record["dns"].id} \ {0})
    BY ZenonT(60), <1>11 DEF dnsOff
  <2>3. \A p \in policies' : p.id = record["dns"].id => p.id \in loose'
    BY <1>4, <2>2
  <2> QED
    BY ZenonT(60), <1>6, <2>1, <2>2, <2>3 DEF Marker
<1>12. CASE recreate(r)
  <2>1. UNCHANGED <<policies, loose>> /\ step[r] # "save" /\ now(r).op = "recreate"
    BY <1>12 DEF recreate, controllerSame, at, now
  <2>2. CASE UNCHANGED record
    BY ZenonT(30), <1>5, <2>1, <2>2
  <2>3. ASSUME NEW m \in Marker, snap[m] # NoRecord, record' = [record EXCEPT ![m] = NoRecord]
        PROVE  Kept'
    <3>1. Gone(record[m].id)
      BY ZenonT(60), <1>3, <2>1, <2>3 DEF HandOf, HandRecreate
    <3> QED
      BY ZenonT(60), <1>6, <2>1, <2>3, <3>1 DEF Gone
  <2> QED
    BY Zenon, <1>12, <2>2, <2>3 DEF recreate
<1>13. CASE resetIntegration(r)
  <2>1. /\ UNCHANGED policies /\ loose' = loose \cup ({record[m].id : m \in Marker} \ {0})
        /\ step[r] # "save"
    BY <1>13 DEF resetIntegration, controllerSame, at
  <2>2. \A p \in policies' : p.m \in Marker /\ record[p.m].id = p.id => p.id \in loose'
    BY <1>4, <2>1
  <2> QED
    BY ZenonT(30), <1>5, <2>1, <2>2
<1>14. CASE \/ openStart(r) \/ resolveSystemZones(r) \/ findExisting(r) \/ closeStart(r)
            \/ updateRelayPortRules(r) \/ updateTailscaleWgPortRules(r)
  <2>1. UNCHANGED <<policies, record, loose>> /\ step[r] # "save"
    BY ZenonT(60), <1>14 DEF openStart, resolveSystemZones, findExisting, closeStart, updateRelayPortRules,
       updateTailscaleWgPortRules, others, controllerSame, at
  <2> QED
    BY ZenonT(30), <1>5, <2>1
<1>15. CASE \/ reconcileSnapshot(r) \/ reconcileList(r) \/ editPrefs(r) \/ applyUDPPortChange(r)
            \/ keyGoes(r)
  <2>1. UNCHANGED <<policies, record, loose>> /\ step[r] # "save"
    BY <1>15 DEF reconcileSnapshot, reconcileList, editPrefs, applyUDPPortChange, keyGoes,
       controllerSame, at
  <2> QED
    BY <1>5, <2>1
<1>16. CASE deletePolicy(r)
  <2>1. policies' \subseteq policies /\ UNCHANGED <<record, loose>> /\ step[r] # "save"
    BY <1>16 DEF deletePolicy, others, at
  <2> QED
    BY ZenonT(30), <1>5, <2>1
<1> QED
  BY Zenon, <1>7, <1>8, <1>9, <1>10, <1>11, <1>12, <1>13, <1>14, <1>15, <1>16 DEF callStep

(* What the goroutines rely on, and the policies, are kept by every step. *)
LEMMA HandInvStep ==
    ASSUME QueueInv, QueueInv', IdInv, Disjoint, HandInv, WanNext \/ UNCHANGED wanVars
    PROVE  HandInv'
<1> SUFFICES ASSUME ~raced' PROVE (\A r \in Routine : HandOf(r)') /\ Kept'
  BY Zenon DEF HandInv
<1>1. ~raced /\ (WanStep \/ UNCHANGED wanVars)
  <2>1. ~raced
    BY Zenon DEF WanNext, wanVars
  <2> QED
    BY Zenon, <2>1 DEF WanNext
<1>2. (\A r \in Routine : HandOf(r)) /\ Kept
  BY Zenon, <1>1 DEF HandInv
<1>3. ASSUME NEW r \in Routine, callStep(r) PROVE (\A x \in Routine : HandOf(x)') /\ Kept'
  <2>1. HandOf(r) /\ HandStep(r)
    BY Zenon, <1>2 DEF HandOf
  <2>2. HandOf(r)'
    BY Zenon, <1>3, <2>1, OwnStep, OwnRecreate DEF HandOf
  <2>3. ASSUME NEW x \in Routine \ {r} PROVE HandOf(x)'
    BY Zenon, <1>1, <1>2, <1>3, HandOther
  <2>4. Kept'
    BY Zenon, <1>2, <1>3, <2>1, KeptStep
  <2> QED
    BY Zenon, <2>2, <2>3, <2>4
<1>4. CASE Lull
  <2>1. \A id : Gone(id) => Gone(id)'
    BY <1>4 DEF Lull, Gone
  <2>2. ASSUME NEW r \in Routine PROVE HandStep(r)'
    <3>1. CASE step'[r] = "start"
      BY <3>1 DEF HandStep
    <3>2. CASE step'[r] = step[r] /\ found'[r] = found[r] /\ calls'[r] = calls[r]
      <4>1. now(r)' = now(r) /\ record' = record /\ snap' = snap
        BY Zenon, <1>4, <3>2 DEF Lull, now
      <4>2. HandStep(r)
        BY Zenon, <1>2 DEF HandOf
      <4> QED
        BY Zenon, <2>1, <3>2, <4>1, <4>2 DEF HandStep, Gone
    <3> QED
      BY Zenon, <1>4, <3>1, <3>2 DEF Lull
  <2>3. HandRecreate("bg")'
    <3> SUFFICES ASSUME \E c \in Range(calls'["bg"]) : c.op = "recreate"
                 PROVE  \A m \in Marker : snap'[m] # NoRecord => Gone(record[m].id)'
      BY Zenon DEF HandRecreate
    <3>1. calls'["bg"] = calls["bg"] /\ snap' = snap /\ record' = record
      BY Zenon, <1>4 DEF Lull
    <3>2. \A m \in Marker : snap[m] # NoRecord => Gone(record[m].id)
      BY Zenon, <1>2, <3>1 DEF HandOf, HandRecreate, Routine
    <3> QED
      BY Zenon, <2>1, <3>1, <3>2 DEF Gone
  <2>4. HandRecreate("http")'
    <3>1. \A c \in Range(calls'["http"]) : c.op \in HttpOps
      BY Zenon DEF QueueInv, GoodSeq, Good
    <3> QED
      BY <3>1 DEF HandRecreate, HttpOps
  <2>5. Kept'
    <3>1. ASSUME NEW p \in policies', NEW r \in Routine, step[r] = "save", found[r] = p.id
          PROVE  (step'[r] = "save" /\ found'[r] = p.id) \/ p.id \in loose'
      <4>1. p.id # 0
        BY <1>4 DEF Lull, IdInv
      <4> QED
        BY ZenonT(30), <1>4, <3>1, <4>1 DEF Lull
    <3>2. policies' \subseteq policies /\ record' = record /\ loose \subseteq loose'
      BY Zenon, <1>4 DEF Lull
    <3> QED
      BY Zenon, <1>2, <3>1, <3>2 DEF Kept
  <2> QED
    BY Zenon, <2>2, <2>3, <2>4, <2>5 DEF HandOf, Routine
<1> QED
  BY Zenon, <1>1, <1>3, <1>4, StepKinds

(* Over all steps, unless two goroutines had one marker in hand, at rest a
   policy that no entry of the manifest points to is one whose creation was
   not answered or not recorded, or whose entry was given up: CloseWanPort
   (deletePolicy, RemoveWanPort) and reconcileWanPortPolicies forget none. *)
THEOREM PoliciesStayKnown == WanSpec => []NoPolicyLost
<1>1. WanInit => Disjoint /\ HandInv
  <2> SUFFICES ASSUME WanInit PROVE Disjoint /\ HandInv
    OBVIOUS
  <2>1. /\ policies = {} /\ \A r \in Routine : step[r] = "start"
        /\ calls["http"] = <<>> /\ snap = [m \in Marker |-> NoRecord]
    BY DEF WanInit, Routine
  <2>2. inHand("http") = {}
    BY <2>1 DEF inHand, at, Range
  <2>3. Disjoint
    BY <2>2 DEF Disjoint
  <2>4. \A r \in Routine : HandOf(r)
    BY <2>1 DEF HandOf, HandStep, HandRecreate
  <2>5. Kept
    BY <2>1 DEF Kept
  <2> QED
    BY ZenonT(30), <2>3, <2>4, <2>5 DEF HandInv
<1>2. QueueInv /\ IdInv /\ Disjoint /\ HandInv /\ [WanNext]_wanVars
      => (QueueInv /\ IdInv /\ Disjoint /\ HandInv)'
  <2> SUFFICES ASSUME QueueInv, IdInv, Disjoint, HandInv, [WanNext]_wanVars
               PROVE  (QueueInv /\ IdInv /\ Disjoint /\ HandInv)'
    OBVIOUS
  <2>1. WanStep \/ UNCHANGED wanVars
    BY Zenon DEF WanNext
  <2>2. QueueInv' /\ IdInv'
    BY Zenon, <2>1, QueueStep, IdStep
  <2>3. Disjoint'
    BY Zenon, DisjointStep
  <2> QED
    BY Zenon, <2>2, <2>3, HandInvStep
<1>3. QueueInv /\ HandInv => NoPolicyLost
  <2> SUFFICES ASSUME QueueInv, HandInv, ~raced, calls["http"] = <<>>, calls["bg"] = <<>>,
                      NEW p \in policies
               PROVE  record[p.m].id = p.id \/ p.id \in loose
    BY ZenonT(60) DEF NoPolicyLost
  <2>1. \A r \in Routine : step[r] = "start"
    BY DEF QueueInv, Routine
  <2> QED
    BY <2>1 DEF HandInv, Kept
<1> QED
  BY InitQueues, <1>1, <1>2, <1>3, PTL DEF WanSpec

=============================================================================
