------------------------- MODULE S2sFirewallProofs --------------------------
(***************************************************************************)
(* Safety of the firewall side of the site-to-site tunnels (S2sFirewall),  *)
(* for every set of tunnels and every bound: the zone a tunnel has         *)
(* is kept, no zone is left without a tunnel, and a tunnel that is down is *)
(* closed.                                                                 *)
(***************************************************************************)
EXTENDS S2sFirewall, TLAPS

-----------------------------------------------------------------------------
(* Sequences of calls *)

IsSeq(q) == q \in Seq(Range(q))

(* A sequence over a set is one over its own elements. *)
LEMMA SeqOver ==
    ASSUME NEW S, NEW q \in Seq(S)
    PROVE  IsSeq(q) /\ Range(q) \subseteq S
<1>1. \A c \in Range(q) : c \in S
  BY DEF Range
<1>2. q \in [1..Len(q) -> Range(q)] /\ Len(q) \in Nat
  BY DEF Range
<1> QED
  BY <1>1, <1>2 DEF IsSeq

(* The head, and what comes after it. *)
LEMMA TailIs ==
    ASSUME NEW q, IsSeq(q), q # <<>>
    PROVE  /\ IsSeq(Tail(q)) /\ Range(q) = {Head(q)} \cup Range(Tail(q))
           /\ Len(Tail(q)) = Len(q) - 1 /\ Len(q) \in Nat \ {0} /\ q[1] = Head(q)
           /\ \A i \in 1..(Len(q) - 1) : Tail(q)[i] = q[i + 1]
<1>1. PICK S : S = Range(q)
  BY Zenon
<1>2. q \in Seq(S) /\ Len(q) \in Nat /\ Len(q) # 0
  BY <1>1 DEF IsSeq
<1>3. Tail(q) \in Seq(S) /\ Len(Tail(q)) = Len(q) - 1 /\ q[1] = Head(q)
  BY <1>2
<1>4. \A i \in 1..(Len(q) - 1) : Tail(q)[i] = q[i + 1]
  BY <1>2
<1>5. IsSeq(Tail(q))
  BY Zenon, <1>3, SeqOver
<1>6. Range(q) \subseteq {Head(q)} \cup Range(Tail(q))
  <2> SUFFICES ASSUME NEW i \in 1..Len(q) PROVE q[i] \in {Head(q)} \cup Range(Tail(q))
    BY <1>2 DEF Range
  <2>1. CASE i = 1
    BY <1>3, <2>1
  <2>2. CASE i # 1
    <3>1. i - 1 \in 1..(Len(q) - 1) /\ q[i] = Tail(q)[i - 1]
      BY <1>2, <1>4, <2>2
    <3>2. i - 1 \in DOMAIN Tail(q)
      BY <1>3, <3>1
    <3> QED
      BY ZenonT(60), <3>1, <3>2 DEF Range
  <2> QED
    BY <2>1, <2>2
<1>7. {Head(q)} \cup Range(Tail(q)) \subseteq Range(q)
  <2>1. Head(q) \in Range(q)
    BY <1>2, <1>3 DEF Range
  <2>2. ASSUME NEW i \in 1..(Len(q) - 1) PROVE Tail(q)[i] \in Range(q)
    <3>1. i + 1 \in DOMAIN q /\ Tail(q)[i] = q[i + 1]
      BY <1>2, <1>4
    <3> QED
      BY <3>1 DEF Range
  <2>3. DOMAIN Tail(q) = 1..(Len(q) - 1)
    BY <1>3
  <2> QED
    BY <2>1, <2>2, <2>3 DEF Range
<1> QED
  BY <1>2, <1>3, <1>4, <1>5, <1>6, <1>7

(* One after the other. *)
LEMMA ConcatIs ==
    ASSUME NEW p, NEW q, IsSeq(p), IsSeq(q)
    PROVE  /\ IsSeq(p \o q) /\ Range(p \o q) = Range(p) \cup Range(q)
           /\ Len(p) \in Nat /\ Len(q) \in Nat /\ Len(p \o q) = Len(p) + Len(q)
           /\ \A i \in 1..Len(p) : (p \o q)[i] = p[i]
           /\ \A i \in 1..Len(q) : (p \o q)[Len(p) + i] = q[i]
<1>1. PICK S : S = Range(p) \cup Range(q)
  BY Zenon
<1>2. p \in Seq(S) /\ q \in Seq(S)
  <2>1. Range(p) \subseteq S /\ Range(q) \subseteq S
    BY Zenon, <1>1
  <2> QED
    BY <2>1 DEF IsSeq
<1>3. PICK e : e = p \o q
  BY Zenon
<1>4. e \in Seq(S) /\ Len(p) \in Nat /\ Len(q) \in Nat /\ Len(e) = Len(p) + Len(q)
  BY <1>2, <1>3
<1>5. IsSeq(e) /\ Range(e) \subseteq S
  BY Zenon, <1>4, SeqOver
<1>6. /\ \A i \in 1..Len(p) : e[i] = p[i]
      /\ \A i \in 1..Len(q) : e[Len(p) + i] = q[i]
  BY <1>2, <1>3
<1>7. Range(p) \subseteq Range(e)
  <2> SUFFICES ASSUME NEW i \in 1..Len(p) PROVE p[i] \in Range(e)
    BY <1>2 DEF Range
  <2>1. i \in DOMAIN e /\ e[i] = p[i]
    BY <1>4, <1>6
  <2> QED
    BY <2>1 DEF Range
<1>8. Range(q) \subseteq Range(e)
  <2> SUFFICES ASSUME NEW i \in 1..Len(q) PROVE q[i] \in Range(e)
    BY <1>2 DEF Range
  <2>1. Len(p) + i \in DOMAIN e /\ e[Len(p) + i] = q[i]
    BY <1>4, <1>6
  <2> QED
    BY <2>1 DEF Range
<1>9. Range(e) = Range(p) \cup Range(q)
  BY Zenon, <1>1, <1>5, <1>7, <1>8
<1> QED
  BY <1>3, <1>4, <1>5, <1>6, <1>9

(* None, one, two. *)
LEMMA FewIs ==
    /\ IsSeq(<<>>) /\ Range(<<>>) = {} /\ Len(<<>>) = 0
    /\ \A a : IsSeq(<<a>>) /\ Range(<<a>>) = {a} /\ Len(<<a>>) = 1 /\ <<a>>[1] = a
    /\ \A a, b : /\ IsSeq(<<a, b>>) /\ Range(<<a, b>>) = {a, b} /\ Len(<<a, b>>) = 2
                 /\ <<a, b>>[1] = a /\ <<a, b>>[2] = b
<1>1. PICK S, e : S = {} /\ e = <<>>
  BY Zenon
<1>2. e \in Seq(S) /\ Range(e) = {} /\ Len(e) = 0
  BY <1>1 DEF Range
<1>3. IsSeq(e)
  BY Zenon, <1>2, SeqOver
<1>4. ASSUME NEW a
      PROVE  IsSeq(<<a>>) /\ Range(<<a>>) = {a} /\ Len(<<a>>) = 1 /\ <<a>>[1] = a
  <2>1. PICK T, f : T = {a} /\ f = <<a>>
    BY Zenon
  <2>2. f \in Seq(T) /\ Len(f) = 1 /\ f[1] = a /\ DOMAIN f = {1}
    BY <2>1
  <2>3. Range(f) = {a}
    BY <2>2 DEF Range
  <2>4. IsSeq(f)
    BY Zenon, <2>2, SeqOver
  <2> QED
    BY Zenon, <2>1, <2>2, <2>3, <2>4
<1>5. ASSUME NEW a, NEW b
      PROVE  /\ IsSeq(<<a, b>>) /\ Range(<<a, b>>) = {a, b} /\ Len(<<a, b>>) = 2
             /\ <<a, b>>[1] = a /\ <<a, b>>[2] = b
  <2>1. PICK T, f : T = {a, b} /\ f = <<a, b>>
    BY Zenon
  <2>2. f \in Seq(T) /\ Len(f) = 2 /\ f[1] = a /\ f[2] = b /\ DOMAIN f = {1, 2}
    BY <2>1
  <2>3. Range(f) = {a, b}
    BY <2>2 DEF Range
  <2>4. IsSeq(f)
    BY Zenon, <2>2, SeqOver
  <2> QED
    BY Zenon, <2>1, <2>2, <2>3, <2>4
<1> QED
  BY Zenon, <1>1, <1>2, <1>3, <1>4, <1>5

-----------------------------------------------------------------------------
(* Plans *)

UserOps == {"zone", "unzone", "fw", "unfw", "unset", "open", "close", "wgDelete"}
WatcherOps == {"reconcile", "zone", "check", "fw"}

\* The plan of a request: the tunnel is deleted last, and nothing is set up
\* before that.
OkUser(q) ==
    /\ IsSeq(q)
    /\ \A c \in Range(q) : c.op \in UserOps /\ c.t \in Tunnel
    /\ \A i \in 1..Len(q) : q[i].op = "wgDelete" =>
          i = Len(q) /\ \A j \in 1..Len(q) : q[j].op \notin {"fw", "open"}
OkWatcher(q) ==
    /\ IsSeq(q)
    /\ \A c \in Range(q) : c.op \in WatcherOps /\ (c.op # "check" => c.t \in Tunnel)

PlanInv ==
    /\ DOMAIN plan = Worker /\ DOMAIN phase = Worker /\ DOMAIN hand = Worker
    /\ OkUser(plan["user"]) /\ OkWatcher(plan["watcher"])
    /\ \A w \in Worker : plan[w] = <<>> => phase[w] = "start"
    /\ \A w \in Worker : phase[w] # "start" =>
          \/ task(w).op = "zone" /\ phase[w] \in {"create", "policies", "save", "dropPolicies", "dropZone"}
          \/ task(w).op = "unzone" /\ phase[w] \in {"dropPolicies", "dropZone"}
          \/ task(w).op = "fw" /\ phase[w] \in {"rules", "ipset", "undo"}

(* What an order lists. *)
LEMMA ListsIs ==
    ASSUME NEW S, S \subseteq Tunnel, NEW q \in orders(S)
    PROVE  IsSeq(q) /\ Range(q) \subseteq S /\ Len(q) \in Nat /\ DOMAIN q = 1..Len(q)
<1>1. PICK n \in 0..Cardinality(Tunnel) : q \in Bijection(1..n, S)
  BY Zenon DEF orders
<1>2. q \in [1..n -> S]
  BY Zenon, <1>1 DEF Bijection, Injection
<1>3. n \in Nat
  BY <1>1
<1>4. q \in Seq(S)
  BY <1>2, <1>3
<1>5. Len(q) \in Nat /\ DOMAIN q = 1..Len(q)
  BY <1>4
<1> QED
  BY Zenon, <1>4, <1>5, SeqOver

(* A call for every tunnel of a list. *)
LEMMA MappedIs ==
    ASSUME NEW S, S \subseteq Tunnel, NEW q \in orders(S), NEW F, DOMAIN F = S,
           NEW p, p = [i \in 1..Len(q) |-> F[q[i]]]
    PROVE  IsSeq(p) /\ \A c \in Range(p) : \E t \in S : c = F[t]
<1>1. Len(q) \in Nat /\ DOMAIN q = 1..Len(q) /\ Range(q) \subseteq S
  BY Zenon, ListsIs
<1>2. \A i \in 1..Len(q) : q[i] \in S
  BY Zenon, <1>1 DEF Range
<1>3. PICK R : R = {F[t] : t \in S}
  BY Zenon
<1>4. PICK n : n = Len(q)
  BY Zenon
<1>5. p \in [1..n -> R] /\ n \in Nat
  BY <1>1, <1>2, <1>3, <1>4
<1>6. p \in Seq(R)
  BY <1>5
<1>7. IsSeq(p) /\ Range(p) \subseteq R
  BY Zenon, <1>6, SeqOver
<1> QED
  BY Zenon, <1>3, <1>7

(* The rules of the tunnels that are up. *)
LEMMA SetUpIs ==
    ASSUME NEW T, T \subseteq Tunnel, NEW p \in setUpAll(T)
    PROVE  /\ IsSeq(p)
           /\ \A c \in Range(p) : \E t \in Tunnel :
                 tunnels[t].state = "up" /\ c = todo("fw", t, tunnels[t].cidr)
<1>1. PICK S : S = {t \in T : tunnels[t].state = "up"}
  BY Zenon
<1>2. PICK q \in orders(S) : p = [i \in 1..Len(q) |-> todo("fw", q[i], tunnels[q[i]].cidr)]
  BY Zenon, <1>1 DEF setUpAll
<1>3. PICK F : F = [t \in S |-> todo("fw", t, tunnels[t].cidr)]
  BY Zenon
<1>4. S \subseteq Tunnel /\ DOMAIN F = S
  BY Zenon, <1>1, <1>3
<1>5. Len(q) \in Nat /\ DOMAIN q = 1..Len(q) /\ Range(q) \subseteq S
  BY Zenon, <1>2, <1>4, ListsIs
<1>6. \A i \in 1..Len(q) : q[i] \in S
  BY Zenon, <1>5 DEF Range
<1>7. p = [i \in 1..Len(q) |-> F[q[i]]]
  BY <1>2, <1>3, <1>6
<1>8. IsSeq(p) /\ \A c \in Range(p) : \E t \in S : c = F[t]
  BY <1>2, <1>4, <1>7, MappedIs
<1> QED
  BY Zenon, <1>1, <1>3, <1>4, <1>8

(* The zones of the tunnels that have none. *)
LEMMA ReconcileIs ==
    ASSUME NEW q \in reconcileAll
    PROVE  /\ IsSeq(reconcileFirst(q))
           /\ \A c \in Range(reconcileFirst(q)) : \E t \in Tunnel : c = todo("reconcile", t, 0)
<1>1. PICK S : S = {t \in Tunnel : tunnels[t] # NoTunnel /\ zoneOf[t] = NoZone}
  BY Zenon
<1>2. q \in orders(S) /\ S \subseteq Tunnel
  BY Zenon, <1>1 DEF reconcileAll
<1>3. PICK F : F = [t \in S |-> todo("reconcile", t, 0)]
  BY Zenon
<1>4. DOMAIN F = S
  BY Zenon, <1>3
<1>5. Len(q) \in Nat /\ DOMAIN q = 1..Len(q) /\ Range(q) \subseteq S
  BY Zenon, <1>2, ListsIs
<1>6. \A i \in 1..Len(q) : q[i] \in S
  BY Zenon, <1>5 DEF Range
<1>7. PICK p : p = reconcileFirst(q)
  BY Zenon
<1>8. p = [i \in 1..Len(q) |-> F[q[i]]]
  BY <1>3, <1>6, <1>7 DEF reconcileFirst
<1>9. IsSeq(p) /\ \A c \in Range(p) : \E t \in S : c = F[t]
  BY <1>2, <1>4, <1>8, MappedIs
<1> QED
  BY Zenon, <1>2, <1>3, <1>7, <1>9

\* The other goroutine is left alone.
Alone(w) ==
    /\ DOMAIN plan' = Worker /\ DOMAIN phase' = Worker /\ DOMAIN hand' = Worker
    /\ \A x \in Worker \ {w} : plan'[x] = plan[x] /\ phase'[x] = phase[x] /\ hand'[x] = hand[x]

\* What becomes of a plan: the head call goes on, or ends, or is replaced.
GoesOn(w) ==
    /\ plan'[w] = plan[w]
    /\ \/ task(w).op = "zone" /\ phase'[w] \in {"create", "policies", "save", "dropPolicies", "dropZone"}
       \/ task(w).op = "unzone" /\ phase'[w] \in {"dropPolicies", "dropZone"}
       \/ task(w).op = "fw" /\ phase'[w] \in {"rules", "ipset", "undo"}
Ends(w) == phase'[w] = "start" /\ plan'[w] = Tail(plan[w])
Skips(w) == phase'[w] = "start" /\ plan'[w] \in afterReconcile(Tail(plan[w]))
Replaces(w) ==
    /\ phase'[w] = "start"
    /\ \/ task(w).op = "unfw" /\ plan'[w] = <<todo("unset", tn(w), task(w).x)>> \o Tail(plan[w])
       \/ /\ task(w).op = "reconcile"
          /\ \E z : plan'[w] = <<todo("zone", tn(w), z)>> \o Tail(plan[w])
       \/ /\ task(w).op = "wgDelete"
          /\ plan'[w] = <<todo("fw", tn(w), tunnels[tn(w)].cidr), todo("open", tn(w), tunnels[tn(w)].port)>>
       \/ task(w).op = "check" /\ plan'[w] \in setUpAll({t \in Tunnel : ~present(t)})
Moves(w) == plan[w] # <<>> /\ Alone(w) /\ (GoesOn(w) \/ Ends(w) \/ Skips(w) \/ Replaces(w))

Workers == DOMAIN plan = Worker /\ DOMAIN phase = Worker /\ DOMAIN hand = Worker

(* The head call goes on. *)
LEMMA FollowIs ==
    ASSUME Workers, NEW w \in Worker, NEW p, NEW h, follow(w, p, h)
    PROVE  Alone(w) /\ plan' = plan /\ plan'[w] = plan[w] /\ phase'[w] = p /\ hand'[w] = h
BY DEF Workers, Alone, follow

(* The plan is replaced. *)
LEMMA BecomeIs ==
    ASSUME Workers, NEW w \in Worker, NEW q, become(w, q)
    PROVE  Alone(w) /\ plan'[w] = q /\ phase'[w] = "start" /\ hand'[w] = NoZone
BY DEF Workers, Alone, become

(* Every step of a call is such a move. *)
LEMMA WorkMoves ==
    ASSUME Workers, NEW w \in Worker, workStep(w)
    PROVE  Moves(w)
<1>1. ASSUME done(w) PROVE Alone(w) /\ Ends(w)
  BY Zenon, <1>1, BecomeIs DEF done, Ends
<1>2. ASSUME NEW p, NEW h, follow(w, p, h),
             \/ task(w).op = "zone" /\ p \in {"create", "policies", "save", "dropPolicies", "dropZone"}
             \/ task(w).op = "unzone" /\ p \in {"dropPolicies", "dropZone"}
             \/ task(w).op = "fw" /\ p \in {"rules", "ipset", "undo"}
      PROVE  Alone(w) /\ GoesOn(w)
  BY Zenon, <1>2, FollowIs DEF GoesOn
<1>3. ASSUME plan[w] # <<>>,
             \/ done(w)
             \/ \E p, h : /\ follow(w, p, h)
                          /\ \/ /\ task(w).op = "zone"
                                /\ p \in {"create", "policies", "save", "dropPolicies", "dropZone"}
                             \/ task(w).op = "unzone" /\ p \in {"dropPolicies", "dropZone"}
                             \/ task(w).op = "fw" /\ p \in {"rules", "ipset", "undo"}
      PROVE  Moves(w)
  BY Zenon, <1>1, <1>2, <1>3 DEF Moves
<1>4. CASE zoneRefused(w)
  <2>1. plan[w] # <<>>
    BY Zenon, <1>4 DEF zoneRefused, doing
  <2>2. CASE become(w, Tail(plan[w]))
    BY Zenon, <2>1, <2>2, BecomeIs DEF Moves, Ends
  <2>3. CASE \E q \in afterReconcile(Tail(plan[w])) : become(w, q)
    BY Zenon, <2>1, <2>3, BecomeIs DEF Moves, Skips
  <2> QED
    BY Zenon, <1>4, <2>2, <2>3 DEF zoneRefused
<1>5. CASE zoneJoin(w)
  BY Zenon, <1>3, <1>5 DEF zoneJoin, doing
<1>6. CASE zoneByName(w)
  BY Zenon, <1>3, <1>6 DEF zoneByName, doing
<1>7. CASE CreateZone(w)
  BY Zenon, <1>3, <1>7 DEF CreateZone, doing
<1>8. CASE EnsurePolicies(w)
  <2>1. plan[w] # <<>> /\ task(w).op = "zone"
    BY <1>8 DEF EnsurePolicies, doing
  <2>2. \E p, h : follow(w, p, h) /\ p \in {"create", "policies", "save", "dropPolicies", "dropZone"}
    BY <1>8 DEF EnsurePolicies
  <2> QED
    BY Zenon, <1>3, <2>1, <2>2
<1>9. CASE saveZone(w)
  BY Zenon, <1>3, <1>9 DEF saveZone, doing
<1>10. CASE teardownEntry(w)
  BY Zenon, <1>3, <1>10 DEF teardownEntry, doing
<1>11. CASE dropPolicies(w)
  BY Zenon, <1>3, <1>11 DEF dropPolicies, dropping, doing
<1>12. CASE dropZone(w)
  BY Zenon, <1>3, <1>12 DEF dropZone, dropping, doing
<1>13. CASE rediscoverAndSaveWgS2s(w)
  BY Zenon, <1>3, <1>13 DEF rediscoverAndSaveWgS2s, doing
<1>14. CASE addInterfaceRules(w)
  BY Zenon, <1>3, <1>14 DEF addInterfaceRules, doing
<1>15. CASE ensureZoneSubnets(w)
  BY Zenon, <1>3, <1>15 DEF ensureZoneSubnets, doing
<1>16. CASE undoRules(w) \/ RemoveWgS2sIPSetEntries(w) \/ openPort(w) \/ closePort(w)
  BY Zenon, <1>3, <1>16 DEF undoRules, RemoveWgS2sIPSetEntries, openPort, closePort, doing
<1>17. CASE removeInterfaceRules(w)
  BY Zenon, <1>17, BecomeIs DEF removeInterfaceRules, doing, Moves, Replaces
<1>18. CASE wgDelete(w)
  <2>1. plan[w] # <<>> /\ task(w).op = "wgDelete"
    BY Zenon, <1>18 DEF wgDelete, doing
  <2> QED
    BY Zenon, <1>3, <1>18, <2>1, BecomeIs DEF wgDelete, Moves, Replaces
<1>19. CASE ReconcileZones(w)
  <2>1. plan[w] # <<>> /\ task(w).op = "reconcile"
    BY Zenon, <1>19 DEF ReconcileZones, doing
  <2>2. CASE done(w)
    BY Zenon, <1>3, <2>1, <2>2
  <2>3. ASSUME NEW z, become(w, <<todo("zone", tn(w), z)>> \o Tail(plan[w])) PROVE Moves(w)
    BY Zenon, <2>1, <2>3, BecomeIs DEF Moves, Replaces
  <2> QED
    BY Zenon, <1>19, <2>2, <2>3 DEF ReconcileZones, zoneCall
<1>20. CASE checkRules(w)
  BY Zenon, <1>20, BecomeIs DEF checkRules, doing, Moves, Replaces
<1> QED
  BY Zenon, <1>4, <1>5, <1>6, <1>7, <1>8, <1>9, <1>10, <1>11, <1>12, <1>13, <1>14, <1>15, <1>16, <1>17,
     <1>18, <1>19, <1>20 DEF workStep

(* A plan without the tunnels still to be reconciled. *)
LEMMA SkipIs ==
    ASSUME NEW q, IsSeq(q), NEW p \in afterReconcile(q)
    PROVE  /\ IsSeq(p) /\ Range(p) \subseteq Range(q) /\ Len(p) <= Len(q) /\ Len(p) \in Nat
           /\ \A i \in 1..Len(p) : p[i] = q[i + (Len(q) - Len(p))]
           /\ \A c \in Range(q) : c.op # "reconcile" => c \in Range(p)
<1>1. PICK S : S = Range(q)
  BY Zenon
<1>2. q \in Seq(S) /\ Len(q) \in Nat /\ DOMAIN q = 1..Len(q)
  BY <1>1 DEF IsSeq
<1>3. PICK k \in 1..(Len(q) + 1) : /\ p = SubSeq(q, k, Len(q))
                                   /\ \A j \in 1..(k - 1) : q[j].op = "reconcile"
  BY Zenon DEF afterReconcile
<1>4. p \in Seq(S) /\ Len(p) = Len(q) - k + 1
  BY <1>2, <1>3
<1>5. \A i \in 1..Len(p) : p[i] = q[i + (k - 1)]
  BY <1>2, <1>3, <1>4
<1>6. IsSeq(p) /\ Range(p) \subseteq Range(q)
  BY Zenon, <1>1, <1>4, SeqOver
<1>7. ASSUME NEW i \in 1..Len(q), q[i].op # "reconcile" PROVE q[i] \in Range(p)
  <2>1. i - (k - 1) \in 1..Len(p) /\ i \notin 1..(k - 1)
    BY <1>2, <1>3, <1>4, <1>7
  <2>2. q[i] = p[i - (k - 1)] /\ i - (k - 1) \in DOMAIN p
    BY <1>2, <1>3, <1>4, <1>5, <2>1
  <2> QED
    BY <2>2 DEF Range
<1>8. \A c \in Range(q) : c.op # "reconcile" => c \in Range(p)
  BY <1>2, <1>7 DEF Range
<1>9. Len(p) <= Len(q) /\ Len(p) \in Nat /\ k - 1 = Len(q) - Len(p)
  BY <1>2, <1>3, <1>4
<1> QED
  BY ZenonT(30), <1>5, <1>6, <1>8, <1>9

(* What remains of a request's plan is such a plan. *)
LEMMA RestOk ==
    ASSUME NEW q, OkUser(q), NEW p, IsSeq(p), Range(p) \subseteq Range(q),
           Len(p) \in Nat, Len(q) \in Nat, Len(p) <= Len(q),
           \A i \in 1..Len(p) : p[i] = q[i + (Len(q) - Len(p))]
    PROVE  OkUser(p)
<1>1. \A c \in Range(p) : c.op \in UserOps /\ c.t \in Tunnel
  BY Zenon DEF OkUser
<1>2. ASSUME NEW i \in 1..Len(p), p[i].op = "wgDelete"
      PROVE  i = Len(p) /\ \A j \in 1..Len(p) : p[j].op \notin {"fw", "open"}
  <2>1. PICK k : k = i + (Len(q) - Len(p))
    BY Zenon
  <2>2. k \in 1..Len(q) /\ q[k].op = "wgDelete"
    BY <1>2, <2>1
  <2>3. k = Len(q) /\ \A j \in 1..Len(q) : q[j].op \notin {"fw", "open"}
    BY Zenon, <2>2 DEF OkUser
  <2>4. i = Len(p)
    BY <2>1, <2>3
  <2>5. ASSUME NEW j \in 1..Len(p) PROVE p[j].op \notin {"fw", "open"}
    <3>1. j + (Len(q) - Len(p)) \in 1..Len(q)
      OBVIOUS
    <3> QED
      BY <2>3, <3>1
  <2> QED
    BY <2>4, <2>5
<1> QED
  BY Zenon, <1>1, <1>2 DEF OkUser

(* A plan that deletes no tunnel. *)
LEMMA CalmOk ==
    ASSUME NEW q, IsSeq(q), \A c \in Range(q) : c.op \in UserOps \ {"wgDelete"} /\ c.t \in Tunnel
    PROVE  OkUser(q)
<1>1. DOMAIN q = 1..Len(q)
  BY DEF IsSeq
<1>2. \A i \in 1..Len(q) : q[i] \in Range(q)
  BY Zenon, <1>1 DEF Range
<1> QED
  BY Zenon, <1>2 DEF OkUser

(* The head is replaced by a call that is neither a deletion nor a set-up. *)
LEMMA HeadOk ==
    ASSUME NEW q, OkUser(q), q # <<>>, Head(q).op # "wgDelete", NEW c,
           c.op \in UserOps \ {"wgDelete", "fw", "open"}, c.t \in Tunnel
    PROVE  OkUser(<<c>> \o Tail(q))
<1>1. IsSeq(q)
  BY Zenon DEF OkUser
<1>2. /\ IsSeq(Tail(q)) /\ Range(q) = {Head(q)} \cup Range(Tail(q))
      /\ Len(Tail(q)) = Len(q) - 1 /\ Len(q) \in Nat \ {0}
      /\ \A i \in 1..(Len(q) - 1) : Tail(q)[i] = q[i + 1]
  BY Zenon, <1>1, TailIs
<1>3. PICK a, b, p : a = <<c>> /\ b = Tail(q) /\ p = a \o b
  BY Zenon
<1>4. IsSeq(a) /\ Range(a) = {c} /\ Len(a) = 1 /\ a[1] = c
  BY Zenon, <1>3, FewIs
<1>5. /\ IsSeq(p) /\ Range(p) = Range(a) \cup Range(b) /\ Len(p) = Len(a) + Len(b)
      /\ \A i \in 1..Len(a) : p[i] = a[i]
      /\ \A i \in 1..Len(b) : p[Len(a) + i] = b[i]
  BY <1>2, <1>3, <1>4, ConcatIs
<1>6. Len(p) = Len(q) /\ p[1] = c /\ \A i \in 2..Len(q) : p[i] = q[i]
  <2>1. Len(p) = Len(q) /\ p[1] = c
    BY <1>2, <1>3, <1>4, <1>5
  <2>2. ASSUME NEW i \in 2..Len(q) PROVE p[i] = q[i]
    <3>1. i - 1 \in 1..Len(b) /\ Len(a) + (i - 1) = i
      BY <1>2, <1>3, <1>4
    <3>2. p[i] = b[i - 1]
      BY ZenonT(60), <1>5, <3>1
    <3>3. b[i - 1] = q[i]
      BY <1>2, <1>3, <3>1
    <3> QED
      BY <3>2, <3>3
  <2> QED
    BY <2>1, <2>2
<1>7. \A d \in Range(p) : d.op \in UserOps /\ d.t \in Tunnel
  BY Zenon, <1>2, <1>3, <1>4, <1>5 DEF OkUser
<1>8. ASSUME NEW i \in 1..Len(p), p[i].op = "wgDelete"
      PROVE  i = Len(p) /\ \A j \in 1..Len(p) : p[j].op \notin {"fw", "open"}
  <2>1. i \in 2..Len(q) /\ i \in 1..Len(q)
    BY <1>2, <1>6, <1>8
  <2>2. i = Len(q) /\ \A j \in 1..Len(q) : q[j].op \notin {"fw", "open"}
    BY Zenon, <1>6, <1>8, <2>1 DEF OkUser
  <2>3. ASSUME NEW j \in 1..Len(p) PROVE p[j].op \notin {"fw", "open"}
    <3>1. CASE j = 1
      BY <1>6, <3>1
    <3>2. CASE j # 1
      BY <1>2, <1>6, <2>2, <3>2
    <3> QED
      BY <3>1, <3>2
  <2> QED
    BY <1>6, <2>2, <2>3
<1>9. OkUser(p)
  BY Zenon, <1>5, <1>7, <1>8 DEF OkUser
<1> QED
  BY Zenon, <1>3, <1>9

(* The two calls that set a tunnel's firewall up, with or without a zone     *)
(* before them.                                                              *)
LEMMA SetUpCalls ==
    ASSUME NEW t, NEW u
    PROVE  /\ IsSeq(setUp(t, u))
           /\ Range(setUp(t, u)) = {todo("fw", t, u.cidr), todo("open", t, u.port)}
           /\ \A c : /\ IsSeq(<<c>> \o setUp(t, u))
                     /\ Range(<<c>> \o setUp(t, u)) =
                           {c, todo("fw", t, u.cidr), todo("open", t, u.port)}
<1>1. PICK a, b, q : a = todo("fw", t, u.cidr) /\ b = todo("open", t, u.port) /\ q = setUp(t, u)
  BY Zenon
<1>2. q = <<a, b>>
  BY Zenon, <1>1 DEF setUp
<1>3. IsSeq(q) /\ Range(q) = {a, b}
  BY Zenon, <1>2, FewIs
<1>4. ASSUME NEW c PROVE IsSeq(<<c>> \o q) /\ Range(<<c>> \o q) = {c, a, b}
  <2>1. PICK p : p = <<c>>
    BY Zenon
  <2>2. IsSeq(p) /\ Range(p) = {c}
    BY Zenon, <2>1, FewIs
  <2>3. IsSeq(p \o q) /\ Range(p \o q) = Range(p) \cup Range(q)
    BY <1>3, <2>2, ConcatIs
  <2>4. {c, a, b} = {c} \cup {a, b}
    BY Zenon
  <2> QED
    BY Zenon, <1>3, <2>1, <2>2, <2>3, <2>4
<1> QED
  BY Zenon, <1>1, <1>3, <1>4

\* The deletion of a tunnel.
deletion(t) == tearDown(t) \o <<todo("unzone", t, 0), todo("wgDelete", t, 0)>>

(* Its calls. *)
LEMMA DeletionCalls ==
    ASSUME NEW t \in Tunnel
    PROVE  /\ IsSeq(tearDown(t))
           /\ Range(tearDown(t)) = {todo("unfw", t, tunnels[t].cidr), todo("close", t, 0)}
           /\ OkUser(deletion(t))
           /\ Range(deletion(t)) = {todo("unfw", t, tunnels[t].cidr), todo("close", t, 0),
                                    todo("unzone", t, 0), todo("wgDelete", t, 0)}
<1>1. PICK a, b, c, d : /\ a = todo("unfw", t, tunnels[t].cidr) /\ b = todo("close", t, 0)
                        /\ c = todo("unzone", t, 0) /\ d = todo("wgDelete", t, 0)
  BY Zenon
<1>2. PICK p, q, e : p = tearDown(t) /\ q = <<c, d>> /\ e = p \o q
  BY Zenon
<1>3. p = <<a, b>>
  BY Zenon, <1>1, <1>2 DEF tearDown
<1>4. /\ IsSeq(p) /\ Range(p) = {a, b} /\ Len(p) = 2 /\ p[1] = a /\ p[2] = b
      /\ IsSeq(q) /\ Range(q) = {c, d} /\ Len(q) = 2 /\ q[1] = c /\ q[2] = d
  <2>1. \A x, y, r : r = <<x, y>> => /\ IsSeq(r) /\ Range(r) = {x, y} /\ Len(r) = 2
                                   /\ r[1] = x /\ r[2] = y
    BY FewIs
  <2>2. IsSeq(p) /\ Range(p) = {a, b} /\ Len(p) = 2 /\ p[1] = a /\ p[2] = b
    BY ZenonT(60), <1>3, <2>1
  <2>3. IsSeq(q) /\ Range(q) = {c, d} /\ Len(q) = 2 /\ q[1] = c /\ q[2] = d
    BY ZenonT(60), <1>2, <2>1
  <2> QED
    BY Zenon, <2>2, <2>3
<1>5. /\ IsSeq(e) /\ Range(e) = Range(p) \cup Range(q) /\ Len(e) = Len(p) + Len(q)
      /\ \A i \in 1..Len(p) : e[i] = p[i]
      /\ \A i \in 1..Len(q) : e[Len(p) + i] = q[i]
  <2>1. IsSeq(p) /\ IsSeq(q)
    BY Zenon, <1>4
  <2>2. e = p \o q
    BY Zenon, <1>2
  <2> QED
    BY <2>1, <2>2, ConcatIs
<1>6. Len(e) = 4 /\ e[1] = a /\ e[2] = b /\ e[3] = c /\ e[4] = d
  BY <1>4, <1>5
<1>7. Range(e) = {a, b, c, d}
  BY <1>4, <1>5
<1>8. /\ a.op = "unfw" /\ b.op = "close" /\ c.op = "unzone" /\ d.op = "wgDelete"
      /\ a.t = t /\ b.t = t /\ c.t = t /\ d.t = t
  BY <1>1 DEF todo
<1>9. \A x \in Range(e) : x.op \in UserOps /\ x.t \in Tunnel
  BY Zenon, <1>7, <1>8 DEF UserOps
<1>10. \A i \in 1..Len(e) : i = 1 \/ i = 2 \/ i = 3 \/ i = 4
  BY <1>6
<1>11. \A i \in 1..Len(e) : e[i].op = "wgDelete" =>
          i = Len(e) /\ \A j \in 1..Len(e) : e[j].op \notin {"fw", "open"}
  BY <1>6, <1>8, <1>10
<1>12. OkUser(e)
  BY Zenon, <1>5, <1>9, <1>11 DEF OkUser
<1>13. e = deletion(t)
  BY Zenon, <1>1, <1>2 DEF deletion
<1> QED
  BY Zenon, <1>1, <1>2, <1>4, <1>7, <1>12, <1>13

\* The calls of an update that gives the networks, and of one that does not.
updating(t, old, new, given) ==
    (IF given THEN <<todo("unset", t, old.cidr), todo("fw", t, new.cidr)>> ELSE <<>>)
    \o (IF new.port # old.port THEN <<todo("close", t, 0), todo("open", t, new.port)>> ELSE <<>>)

(* Its calls. *)
LEMMA UpdateCalls ==
    ASSUME NEW t, NEW old, NEW new, NEW given
    PROVE  /\ IsSeq(updating(t, old, new, given))
           /\ Range(updating(t, old, new, given)) =
                 (IF given THEN {todo("unset", t, old.cidr), todo("fw", t, new.cidr)} ELSE {})
                 \cup (IF new.port # old.port THEN {todo("close", t, 0), todo("open", t, new.port)} ELSE {})
<1>1. PICK a, b, c, d : /\ a = todo("unset", t, old.cidr) /\ b = todo("fw", t, new.cidr)
                        /\ c = todo("close", t, 0) /\ d = todo("open", t, new.port)
  BY Zenon
<1>2. PICK p : p = IF given THEN <<a, b>> ELSE <<>>
  BY Zenon
<1>3. PICK q : q = IF new.port # old.port THEN <<c, d>> ELSE <<>>
  BY Zenon
<1>4. IsSeq(p) /\ Range(p) = IF given THEN {a, b} ELSE {}
  BY Zenon, <1>2, FewIs
<1>5. IsSeq(q) /\ Range(q) = IF new.port # old.port THEN {c, d} ELSE {}
  BY Zenon, <1>3, FewIs
<1>6. IsSeq(p \o q) /\ Range(p \o q) = Range(p) \cup Range(q)
  BY <1>4, <1>5, ConcatIs
<1>7. p \o q = updating(t, old, new, given)
  BY Zenon, <1>1, <1>2, <1>3 DEF updating
<1> QED
  BY Zenon, <1>1, <1>4, <1>5, <1>6, <1>7

(* The requests, and their plans. *)
LEMMA RequestOk ==
    ASSUME NEW t \in Tunnel,
           \/ CreateTunnel(t) \/ UpdateTunnel(t) \/ DeleteTunnel(t)
           \/ EnableTunnel(t) \/ DisableTunnel(t) \/ SetupZoneForTunnel(t)
    PROVE  \E u, q : request(t, u, q) /\ OkUser(q)
<1>1. \A c : c.op \in {"fw", "open", "zone", "unfw", "close", "unset"} => c.op \in UserOps \ {"wgDelete"}
  BY Zenon DEF UserOps
<1>2. \A op, x : todo(op, t, x).op = op /\ todo(op, t, x).t = t
  BY DEF todo
<1>3. ASSUME NEW u PROVE OkUser(setUp(t, u)) /\ \A z : OkUser(<<todo("zone", t, z)>> \o setUp(t, u))
  <2>1. PICK q : q = setUp(t, u)
    BY Zenon
  <2>2. OkUser(q)
    BY <1>1, <1>2, <2>1, SetUpCalls, CalmOk
  <2>3. ASSUME NEW z PROVE OkUser(<<todo("zone", t, z)>> \o setUp(t, u))
    <3>1. PICK c, p : c = todo("zone", t, z) /\ p = <<c>> \o setUp(t, u)
      BY Zenon
    <3>2. IsSeq(p) /\ Range(p) = {c, todo("fw", t, u.cidr), todo("open", t, u.port)}
      BY Zenon, <3>1, SetUpCalls
    <3>3. OkUser(p)
      BY <1>1, <1>2, <3>1, <3>2, CalmOk
    <3> QED
      BY Zenon, <3>1, <3>3
  <2> QED
    BY Zenon, <2>1, <2>2, <2>3
<1>4. CASE CreateTunnel(t)
  BY Zenon, <1>3, <1>4 DEF CreateTunnel
<1>5. CASE EnableTunnel(t)
  BY Zenon, <1>3, <1>5 DEF EnableTunnel
<1>6. CASE DeleteTunnel(t)
  BY Zenon, <1>6, DeletionCalls DEF DeleteTunnel, deletion
<1>7. CASE DisableTunnel(t)
  <2>1. PICK q : q = tearDown(t)
    BY Zenon
  <2>2. OkUser(q)
    BY <1>1, <1>2, <2>1, DeletionCalls, CalmOk
  <2> QED
    BY Zenon, <1>7, <2>1, <2>2 DEF DisableTunnel
<1>8. CASE UpdateTunnel(t)
  <2>1. PICK c \in Config, given \in BOOLEAN :
           LET old == tunnels[t]
               new == [old EXCEPT !.port = c.port, !.cidr = IF given THEN c.cidr ELSE @]
               networks == <<todo("unset", t, old.cidr), todo("fw", t, new.cidr)>>
               port == <<todo("close", t, 0), todo("open", t, new.port)>>
           IN  request(t, new, IF old.state # "up" THEN <<>> ELSE
                  (IF given THEN networks ELSE <<>>) \o (IF new.port # old.port THEN port ELSE <<>>))
    BY Zenon, <1>8 DEF UpdateTunnel
  <2>new. PICK new : new = [tunnels[t] EXCEPT !.port = c.port, !.cidr = IF given THEN c.cidr ELSE @]
    BY Zenon
  <2>2. request(t, new, IF tunnels[t].state # "up" THEN <<>> ELSE updating(t, tunnels[t], new, given))
    BY <2>1, <2>new DEF updating
  <2>3. PICK e, q : e = <<>> /\ q = updating(t, tunnels[t], new, given)
    BY Zenon
  <2>4. IsSeq(e) /\ Range(e) = {}
    BY Zenon, <2>3, FewIs
  <2>5. OkUser(e)
    BY Zenon, <2>4, CalmOk
  <2>6. IsSeq(q) /\ \A d \in Range(q) : \E op \in {"fw", "open", "close", "unset"} : \E x : d = todo(op, t, x)
    BY <2>3, UpdateCalls
  <2>7. OkUser(q)
    BY <1>1, <1>2, <2>6, CalmOk
  <2> QED
    BY Zenon, <2>2, <2>3, <2>5, <2>7
<1>9. CASE SetupZoneForTunnel(t)
  <2>1. PICK z : request(t, tunnels[t], <<todo("zone", t, z)>>)
    BY Zenon, <1>9 DEF SetupZoneForTunnel, zoneCall
  <2>2. PICK c, q : c = todo("zone", t, z) /\ q = <<c>>
    BY Zenon
  <2>3. IsSeq(q) /\ Range(q) = {c}
    BY Zenon, <2>2, FewIs
  <2>4. OkUser(q)
    BY <1>1, <1>2, <2>2, <2>3, CalmOk
  <2> QED
    BY Zenon, <2>1, <2>2, <2>4
<1> QED
  BY Zenon, <1>4, <1>5, <1>6, <1>7, <1>8, <1>9

(* The head of a plan is a call of it. *)
LEMMA TaskIs ==
    ASSUME PlanInv, NEW w \in Worker, plan[w] # <<>>
    PROVE  /\ IsSeq(plan[w]) /\ task(w) \in Range(plan[w])
           /\ w = "user" => task(w).op \in UserOps /\ tn(w) \in Tunnel
           /\ w = "watcher" => task(w).op \in WatcherOps /\ (task(w).op # "check" => tn(w) \in Tunnel)
<1>1. PICK q : q = plan[w]
  BY Zenon
<1>2. IsSeq(q)
  BY Zenon, <1>1 DEF PlanInv, OkUser, OkWatcher, Worker
<1>3. Head(q) \in Range(q)
  BY <1>1, <1>2, TailIs
<1>4. task(w) \in Range(plan[w])
  BY Zenon, <1>1, <1>3 DEF task
<1> QED
  BY Zenon, <1>1, <1>2, <1>4 DEF PlanInv, OkUser, OkWatcher, tn

(* A call's step leaves plans as they have to be. *)
LEMMA PlanWork ==
    ASSUME PlanInv, NEW w \in Worker, workStep(w)
    PROVE  PlanInv'
<1>1. Moves(w)
  BY Zenon, WorkMoves DEF PlanInv, Workers
<1>2. plan[w] # <<>> /\ Alone(w)
  BY Zenon, <1>1 DEF Moves
<1>3. PICK q : q = plan[w]
  BY Zenon
<1>4. /\ IsSeq(q) /\ q # <<>>
      /\ w = "user" => task(w).op \in UserOps /\ tn(w) \in Tunnel
      /\ w = "watcher" => task(w).op \in WatcherOps /\ (task(w).op # "check" => tn(w) \in Tunnel)
  BY Zenon, <1>2, <1>3, TaskIs
<1>5. /\ IsSeq(Tail(q)) /\ Range(q) = {Head(q)} \cup Range(Tail(q))
      /\ Len(Tail(q)) = Len(q) - 1 /\ Len(q) \in Nat \ {0}
      /\ \A i \in 1..(Len(q) - 1) : Tail(q)[i] = q[i + 1]
  BY Zenon, <1>4, TailIs
<1>6. \A op, x, t : todo(op, t, x).op = op /\ todo(op, t, x).t = t
  BY DEF todo
<1>7. w = "user" => OkUser(q)
  BY Zenon, <1>3 DEF PlanInv
<1>8. w = "watcher" => OkWatcher(q)
  BY Zenon, <1>3 DEF PlanInv
<1>9. PICK r, n : r = Tail(q) /\ n = plan'[w]
  BY Zenon
<1>10. w = "user" => OkUser(r)
  <2>1. \A i \in 1..Len(r) : r[i] = q[i + (Len(q) - Len(r))]
    BY <1>5, <1>9
  <2>2. IsSeq(r) /\ Range(r) \subseteq Range(q) /\ Len(r) \in Nat /\ Len(r) <= Len(q) /\ Len(q) \in Nat
    BY <1>5, <1>9
  <2> QED
    BY Zenon, <1>7, <2>1, <2>2, RestOk
<1>11. w = "watcher" => OkWatcher(r)
  BY Zenon, <1>5, <1>8, <1>9 DEF OkWatcher
<1>12. (w = "user" => OkUser(n)) /\ (w = "watcher" => OkWatcher(n))
  <2>1. CASE GoesOn(w)
    BY Zenon, <1>3, <1>7, <1>8, <1>9, <2>1 DEF GoesOn
  <2>2. CASE Ends(w)
    BY Zenon, <1>3, <1>9, <1>10, <1>11, <2>2 DEF Ends
  <2>3. CASE Skips(w)
    <3>1. n \in afterReconcile(r) /\ IsSeq(r)
      BY Zenon, <1>3, <1>5, <1>9, <2>3 DEF Skips
    <3>2. /\ IsSeq(n) /\ Range(n) \subseteq Range(r) /\ Len(n) <= Len(r) /\ Len(n) \in Nat
          /\ \A i \in 1..Len(n) : n[i] = r[i + (Len(r) - Len(n))]
      BY Zenon, <3>1, SkipIs
    <3>3. Len(r) \in Nat
      BY <1>5, <1>9
    <3>4. w = "user" => OkUser(n)
      BY Zenon, <1>10, <3>2, <3>3, RestOk
    <3>5. w = "watcher" => OkWatcher(n)
      BY Zenon, <1>11, <3>2 DEF OkWatcher
    <3> QED
      BY Zenon, <3>4, <3>5
  <2>4. ASSUME task(w).op = "unfw", n = <<todo("unset", tn(w), task(w).x)>> \o r
        PROVE  (w = "user" => OkUser(n)) /\ (w = "watcher" => OkWatcher(n))
    <3>1. w = "user"
      BY <1>4, <2>4 DEF WatcherOps, Worker
    <3>2. PICK c : c = todo("unset", tn(w), task(w).x)
      BY Zenon
    <3>3. c.op \in UserOps \ {"wgDelete", "fw", "open"} /\ c.t \in Tunnel /\ Head(q).op # "wgDelete"
      BY <1>3, <1>4, <1>6, <2>4, <3>1, <3>2 DEF UserOps, task
    <3>4. n = <<c>> \o Tail(q)
      BY Zenon, <1>9, <2>4, <3>2
    <3> QED
      BY Zenon, <1>4, <1>7, <3>1, <3>3, <3>4, HeadOk
  <2>5. ASSUME task(w).op = "reconcile", NEW z, n = <<todo("zone", tn(w), z)>> \o r
        PROVE  (w = "user" => OkUser(n)) /\ (w = "watcher" => OkWatcher(n))
    <3>1. w = "watcher" /\ tn(w) \in Tunnel
      BY <1>4, <2>5 DEF UserOps, Worker
    <3>2. PICK c, d : c = todo("zone", tn(w), z) /\ d = <<c>>
      BY Zenon
    <3>3. IsSeq(d) /\ Range(d) = {c} /\ c.op = "zone" /\ c.t \in Tunnel
      BY <1>6, <3>1, <3>2, FewIs
    <3>4. IsSeq(d \o r) /\ Range(d \o r) = Range(d) \cup Range(r)
      BY <1>5, <1>9, <3>3, ConcatIs
    <3>5. OkWatcher(d \o r)
      BY Zenon, <1>11, <3>1, <3>3, <3>4 DEF OkWatcher, WatcherOps
    <3> QED
      BY Zenon, <2>5, <3>1, <3>2, <3>5
  <2>6. ASSUME task(w).op = "wgDelete",
               n = <<todo("fw", tn(w), tunnels[tn(w)].cidr), todo("open", tn(w), tunnels[tn(w)].port)>>
        PROVE  (w = "user" => OkUser(n)) /\ (w = "watcher" => OkWatcher(n))
    <3>1. w = "user" /\ tn(w) \in Tunnel
      BY <1>4, <2>6 DEF WatcherOps, Worker
    <3>2. PICK a, b : a = todo("fw", tn(w), tunnels[tn(w)].cidr) /\ b = todo("open", tn(w), tunnels[tn(w)].port)
      BY Zenon
    <3>3. IsSeq(n) /\ Range(n) = {a, b}
      BY Zenon, <2>6, <3>2, FewIs
    <3>4. \A c \in Range(n) : c.op \in UserOps \ {"wgDelete"} /\ c.t \in Tunnel
      BY <1>6, <3>1, <3>2, <3>3 DEF UserOps
    <3> QED
      BY Zenon, <3>1, <3>3, <3>4, CalmOk
  <2>7. ASSUME task(w).op = "check", n \in setUpAll({t \in Tunnel : ~present(t)})
        PROVE  (w = "user" => OkUser(n)) /\ (w = "watcher" => OkWatcher(n))
    <3>1. w = "watcher"
      BY <1>4, <2>7 DEF UserOps, Worker
    <3>2. PICK T : T = {t \in Tunnel : ~present(t)}
      BY Zenon
    <3>3. T \subseteq Tunnel /\ n \in setUpAll(T)
      BY Zenon, <2>7, <3>2
    <3>4. IsSeq(n) /\ \A c \in Range(n) : \E t \in Tunnel : c = todo("fw", t, tunnels[t].cidr)
      BY Zenon, <3>3, SetUpIs
    <3>5. \A c \in Range(n) : c.op = "fw" /\ c.t \in Tunnel
      BY <1>6, <3>4
    <3> QED
      BY Zenon, <3>1, <3>4, <3>5 DEF OkWatcher, WatcherOps
  <2> QED
    BY Zenon, <1>1, <1>3, <1>9, <2>1, <2>2, <2>3, <2>4, <2>5, <2>6, <2>7 DEF Moves, Replaces
<1>13. OkUser(plan'["user"]) /\ OkWatcher(plan'["watcher"])
  BY <1>2, <1>9, <1>12 DEF Alone, Worker, PlanInv
<1>14. phase'[w] = "start" \/ GoesOn(w)
  BY Zenon, <1>1 DEF Moves, Ends, Skips, Replaces
<1>15. ASSUME NEW v \in Worker
       PROVE  /\ plan'[v] = <<>> => phase'[v] = "start"
              /\ phase'[v] # "start" =>
                    \/ task(v)'.op = "zone" /\ phase'[v] \in {"create", "policies", "save", "dropPolicies", "dropZone"}
                    \/ task(v)'.op = "unzone" /\ phase'[v] \in {"dropPolicies", "dropZone"}
                    \/ task(v)'.op = "fw" /\ phase'[v] \in {"rules", "ipset", "undo"}
  <2>1. CASE v # w
    <3>1. plan'[v] = plan[v] /\ phase'[v] = phase[v]
      BY Zenon, <1>2, <2>1 DEF Alone
    <3> QED
      BY Zenon, <3>1 DEF PlanInv, task
  <2>2. CASE v = w
    BY Zenon, <1>2, <1>14, <2>2 DEF GoesOn, task
  <2> QED
    BY <2>1, <2>2
<1> QED
  BY Zenon, <1>2, <1>13, <1>15 DEF PlanInv, Alone

(* A goroutine takes a new plan. *)
LEMMA PlanTaken ==
    ASSUME PlanInv, NEW w \in Worker, NEW q, become(w, q),
           w = "user" => OkUser(q), w = "watcher" => OkWatcher(q)
    PROVE  PlanInv'
<1>1. Alone(w) /\ plan'[w] = q /\ phase'[w] = "start"
  BY Zenon, BecomeIs DEF PlanInv, Workers
<1>2. OkUser(plan'["user"]) /\ OkWatcher(plan'["watcher"])
  BY <1>1 DEF Alone, Worker, PlanInv
<1>3. ASSUME NEW v \in Worker
      PROVE  /\ plan'[v] = <<>> => phase'[v] = "start"
             /\ phase'[v] # "start" =>
                   \/ task(v)'.op = "zone" /\ phase'[v] \in {"create", "policies", "save", "dropPolicies", "dropZone"}
                   \/ task(v)'.op = "unzone" /\ phase'[v] \in {"dropPolicies", "dropZone"}
                   \/ task(v)'.op = "fw" /\ phase'[v] \in {"rules", "ipset", "undo"}
  <2>1. CASE v # w
    <3>1. plan'[v] = plan[v] /\ phase'[v] = phase[v]
      BY Zenon, <1>1, <2>1 DEF Alone
    <3> QED
      BY Zenon, <3>1 DEF PlanInv, task
  <2>2. CASE v = w
    BY Zenon, <1>1, <2>2
  <2> QED
    BY <2>1, <2>2
<1> QED
  BY Zenon, <1>1, <1>2, <1>3 DEF PlanInv, Alone

(* The tunnels to be reconciled, and then what may follow. *)
LEMMA ReconcileThen ==
    ASSUME NEW q \in reconcileAll, NEW p, IsSeq(p),
           \A c \in Range(p) : c.op = "check" \/ (c.op = "fw" /\ c.t \in Tunnel)
    PROVE  /\ OkWatcher(reconcileFirst(q) \o p)
           /\ Range(reconcileFirst(q) \o p) = Range(reconcileFirst(q)) \cup Range(p)
<1>1. PICK r : r = reconcileFirst(q)
  BY Zenon
<1>2. IsSeq(r) /\ \A c \in Range(r) : \E t \in Tunnel : c = todo("reconcile", t, 0)
  BY Zenon, <1>1, ReconcileIs
<1>3. IsSeq(r \o p) /\ Range(r \o p) = Range(r) \cup Range(p)
  BY <1>2, ConcatIs
<1>4. \A c \in Range(r) : c.op = "reconcile" /\ c.t \in Tunnel
  BY <1>2 DEF todo
<1>5. OkWatcher(r \o p)
  BY Zenon, <1>3, <1>4 DEF OkWatcher, WatcherOps
<1> QED
  BY Zenon, <1>1, <1>3, <1>5

(* Nobody's plan is touched. *)
LEMMA PlanSame ==
    ASSUME PlanInv, UNCHANGED <<plan, phase, hand>>
    PROVE  PlanInv'
BY Zenon DEF PlanInv, task

(* The plans stay as they have to be. *)
LEMMA PlanStep ==
    ASSUME PlanInv, S2sNext \/ UNCHANGED s2sVars
    PROVE  PlanInv'
<1>1. CASE work
  BY Zenon, <1>1, PlanWork DEF work
<1>2. CASE restoreWgS2sRules
  <2>1. PICK q \in reconcileAll : become("watcher", reconcileFirst(q) \o <<todo("check", 0, 0)>>)
    BY Zenon, <1>2 DEF restoreWgS2sRules
  <2>2. PICK c, p : c = todo("check", 0, 0) /\ p = <<c>>
    BY Zenon
  <2>3. IsSeq(p) /\ Range(p) = {c}
    BY Zenon, <2>2, FewIs
  <2>4. c.op = "check"
    BY <2>2 DEF todo
  <2>5. OkWatcher(reconcileFirst(q) \o p)
    BY Zenon, <2>3, <2>4, ReconcileThen
  <2>6. "watcher" \in Worker /\ "watcher" # "user"
    BY DEF Worker
  <2> QED
    BY Zenon, <2>1, <2>2, <2>5, <2>6, PlanTaken
<1>3. CASE userRequest
  <2>1. PICK t \in Tunnel : \E u, q : request(t, u, q) /\ OkUser(q)
    BY Zenon, <1>3, RequestOk DEF userRequest
  <2>2. PICK q : become("user", q) /\ OkUser(q)
    BY Zenon, <2>1 DEF request
  <2>3. "user" \in Worker /\ "watcher" # "user"
    BY DEF Worker
  <2> QED
    BY Zenon, <2>2, <2>3, PlanTaken
<1>4. CASE chainsAppear \/ zoneListAges \/ provision \/ keyChanges \/ healthChanges
  BY Zenon, <1>4, PlanSame DEF chainsAppear, zoneListAges, provision, keyChanges, healthChanges, idle
<1>5. CASE initWgS2s
  <2>1. PICK q \in reconcileAll, p \in setUpAll(Tunnel) :
           plan' = [plan EXCEPT !["user"] = <<>>, !["watcher"] = reconcileFirst(q) \o p]
    BY Zenon, <1>5 DEF initWgS2s
  <2>2. IsSeq(p) /\ \A c \in Range(p) : \E t \in Tunnel : c = todo("fw", t, tunnels[t].cidr)
    BY Zenon, SetUpIs
  <2>3. \A c \in Range(p) : c.op = "fw" /\ c.t \in Tunnel
    BY <2>2 DEF todo
  <2>4. OkWatcher(reconcileFirst(q) \o p)
    BY Zenon, <2>2, <2>3, ReconcileThen
  <2>5. PICK e, r : e = <<>> /\ r = reconcileFirst(q) \o p
    BY Zenon
  <2>6. IsSeq(e) /\ Range(e) = {}
    BY Zenon, <2>5, FewIs
  <2>7. OkUser(e)
    BY Zenon, <2>6, CalmOk
  <2>8. DOMAIN plan' = Worker /\ plan'["user"] = e /\ plan'["watcher"] = r
    BY <2>1, <2>5 DEF PlanInv, Worker
  <2>9. phase' = [w \in Worker |-> "start"] /\ hand' = [w \in Worker |-> NoZone]
    BY Zenon, <1>5 DEF initWgS2s
  <2>10. \A w \in Worker : phase'[w] = "start"
    BY Zenon, <2>9
  <2> QED
    BY Zenon, <2>4, <2>5, <2>7, <2>8, <2>9, <2>10 DEF PlanInv
<1>6. CASE UNCHANGED s2sVars
  BY Zenon, <1>6, PlanSame DEF s2sVars
<1> QED
  BY Zenon, <1>1, <1>2, <1>3, <1>4, <1>5, <1>6 DEF S2sNext, S2sStep

(* They start empty. *)
LEMMA PlanInit ==
    ASSUME S2sInit
    PROVE  PlanInv
<1>1. PICK e : e = <<>>
  BY Zenon
<1>2. IsSeq(e) /\ Range(e) = {}
  BY Zenon, <1>1, FewIs
<1>3. OkUser(e)
  BY Zenon, <1>2, CalmOk
<1>4. OkWatcher(e)
  BY Zenon, <1>2 DEF OkWatcher
<1>5. /\ plan = [w \in Worker |-> e] /\ phase = [w \in Worker |-> "start"]
      /\ hand = [w \in Worker |-> NoZone]
  BY Zenon, <1>1 DEF S2sInit
<1>6. "user" \in Worker /\ "watcher" \in Worker
  BY DEF Worker
<1>7. \A w \in Worker : plan[w] = e /\ phase[w] = "start"
  BY Zenon, <1>5
<1> QED
  BY Zenon, <1>3, <1>4, <1>5, <1>6, <1>7 DEF PlanInv

-----------------------------------------------------------------------------
(* Zones *)

\* The fields of a manifest entry.
IsEntry(e) == e = [zone |-> e.zone, prefix |-> e.prefix, pols |-> e.pols]

ZoneShape ==
    /\ DOMAIN zoneOf = Tunnel /\ \A t \in Tunnel : IsEntry(zoneOf[t])
    /\ DOMAIN fileZones = Tunnel /\ \A t \in Tunnel : IsEntry(fileZones[t])
    /\ \A w \in Worker : IsEntry(hand[w])

(* Entries, and an entry with another prefix. *)
LEMMA EntryFacts ==
    /\ \A z, S : IsEntry(inZone(z, S)) /\ inZone(z, S).zone = z /\ inZone(z, S).pols = S
    /\ IsEntry(NoZone) /\ NoZone.zone = 0 /\ NoZone.pols = {}
    /\ \A e, x : IsEntry(e) => /\ IsEntry([e EXCEPT !.prefix = x])
                               /\ [e EXCEPT !.prefix = x].zone = e.zone
                               /\ [e EXCEPT !.prefix = x].pols = e.pols
<1>1. \A z, S : IsEntry(inZone(z, S)) /\ inZone(z, S).zone = z /\ inZone(z, S).pols = S
  BY DEF IsEntry, inZone
<1>2. ASSUME NEW e, NEW x, IsEntry(e)
      PROVE  /\ IsEntry([e EXCEPT !.prefix = x])
             /\ [e EXCEPT !.prefix = x].zone = e.zone
             /\ [e EXCEPT !.prefix = x].pols = e.pols
  <2>1. PICK z, p, S : e = [zone |-> z, prefix |-> p, pols |-> S]
    BY Zenon, <1>2 DEF IsEntry
  <2>2. [e EXCEPT !.prefix = x] = [zone |-> z, prefix |-> x, pols |-> S]
    BY <2>1
  <2> QED
    BY <2>1, <2>2 DEF IsEntry
<1> QED
  BY Zenon, <1>1, <1>2 DEF NoZone

(* What a zone call does to the manifest and to what is in hand. *)
LEMMA ZoneShapeWork ==
    ASSUME PlanInv, ZoneShape, NEW w \in Worker, workStep(w)
    PROVE  ZoneShape'
<1>1. Workers
  BY Zenon DEF PlanInv, Workers
<1>2. ASSUME NEW q, become(w, q) PROVE IsEntry(hand'[w]) /\ Alone(w)
  BY Zenon, <1>1, <1>2, BecomeIs, EntryFacts
<1>3. ASSUME done(w) PROVE IsEntry(hand'[w]) /\ Alone(w)
  BY Zenon, <1>2, <1>3 DEF done
<1>4. ASSUME NEW p, NEW h, follow(w, p, h), IsEntry(h) PROVE IsEntry(hand'[w]) /\ Alone(w)
  BY Zenon, <1>1, <1>4, FollowIs
<1>5. ASSUME IsEntry(hand'[w]), Alone(w) PROVE \A v \in Worker : IsEntry(hand'[v])
  BY Zenon, <1>5 DEF Alone, ZoneShape
<1>6. ASSUME UNCHANGED manifestSide, \E q : become(w, q) PROVE ZoneShape'
  <2>1. zoneOf' = zoneOf /\ fileZones' = fileZones
    BY Zenon, <1>6 DEF manifestSide
  <2> QED
    BY Zenon, <1>2, <1>5, <1>6, <2>1 DEF ZoneShape
<1>7. ASSUME UNCHANGED manifestSide, NEW p, NEW h, IsEntry(h), follow(w, p, h) PROVE ZoneShape'
  <2>1. zoneOf' = zoneOf /\ fileZones' = fileZones
    BY Zenon, <1>7 DEF manifestSide
  <2> QED
    BY Zenon, <1>4, <1>5, <1>7, <2>1 DEF ZoneShape
<1>8. ASSUME NEW e, IsEntry(e), NEW t, zoneOf' = [zoneOf EXCEPT ![t] = e],
             fileZones' = zoneOf' \/ UNCHANGED fileZones,
             (\E q : become(w, q)) \/ \E p, h : IsEntry(h) /\ follow(w, p, h)
      PROVE  ZoneShape'
  <2>1. DOMAIN zoneOf' = Tunnel /\ \A x \in Tunnel : IsEntry(zoneOf'[x])
    BY <1>8 DEF ZoneShape
  <2>2. DOMAIN fileZones' = Tunnel /\ \A x \in Tunnel : IsEntry(fileZones'[x])
    BY Zenon, <1>8, <2>1 DEF ZoneShape
  <2> QED
    BY Zenon, <1>2, <1>4, <1>5, <1>8, <2>1, <2>2 DEF ZoneShape
<1>9. plan[w] # <<>>
  BY Zenon, <1>1, WorkMoves DEF Moves
<1>10. task(w).op # "check" => tn(w) \in Tunnel
  BY Zenon, <1>9, TaskIs DEF Worker
<1>11. CASE zoneRefused(w) \/ removeInterfaceRules(w) \/ ReconcileZones(w) \/ checkRules(w) \/ wgDelete(w)
  BY Zenon, <1>6, <1>11
     DEF zoneRefused, removeInterfaceRules, ReconcileZones, checkRules, wgDelete, done
<1>12. CASE undoRules(w) \/ RemoveWgS2sIPSetEntries(w) \/ openPort(w) \/ closePort(w) \/ dropZone(w)
  BY Zenon, <1>6, <1>12
     DEF undoRules, RemoveWgS2sIPSetEntries, openPort, closePort, dropZone, done
<1>13. CASE zoneJoin(w)
  BY Zenon, <1>8, <1>13 DEF zoneJoin, zoneSaved, unsaved, done, ZoneShape
<1>14. CASE zoneByName(w)
  BY Zenon, <1>6, <1>7, <1>14, EntryFacts DEF zoneByName, done
<1>15. CASE CreateZone(w)
  BY Zenon, <1>6, <1>7, <1>15, EntryFacts DEF CreateZone, done
<1>16. IsEntry(hand[w])
  BY Zenon DEF ZoneShape
<1>17. CASE EnsurePolicies(w)
  <2>1. UNCHANGED manifestSide
    BY <1>17 DEF EnsurePolicies
  <2>2. \E p, h : follow(w, p, h) /\ (h = hand[w] \/ \E z, S : h = inZone(z, S))
    BY <1>17 DEF EnsurePolicies
  <2>3. PICK p, h : follow(w, p, h) /\ (h = hand[w] \/ \E z, S : h = inZone(z, S))
    BY Zenon, <2>2
  <2>4. IsEntry(h)
    BY <1>16, <2>3, EntryFacts
  <2> QED
    BY Zenon, <1>7, <2>1, <2>3, <2>4
<1>18. CASE saveZone(w)
  <2>1. PICK e : e = [hand[w] EXCEPT !.prefix = discovered(hand[w].zone)]
    BY Zenon
  <2>2. IsEntry(e)
    BY Zenon, <1>16, <2>1, EntryFacts
  <2>3. /\ zoneOf' = [zoneOf EXCEPT ![tn(w)] = e]
        /\ fileZones' = zoneOf' \/ UNCHANGED fileZones
        /\ (\E q : become(w, q)) \/ \E p, h : IsEntry(h) /\ follow(w, p, h)
    BY Zenon, <1>16, <1>18, <2>1 DEF saveZone, zoneSaved, unsaved, done
  <2> QED
    BY Zenon, <1>8, <2>2, <2>3
<1>19. CASE teardownEntry(w)
  <2>1. tn(w) \in Tunnel
    BY <1>10, <1>19 DEF teardownEntry, doing
  <2>2. IsEntry(zoneOf[tn(w)])
    BY Zenon, <2>1 DEF ZoneShape
  <2> QED
    BY Zenon, <1>8, <1>19, <2>2, EntryFacts DEF teardownEntry, zoneSaved, unsaved, done
<1>20. CASE dropPolicies(w)
  BY Zenon, <1>7, <1>16, <1>20 DEF dropPolicies
<1>21. CASE rediscoverAndSaveWgS2s(w)
  <2>1. tn(w) \in Tunnel
    BY <1>10, <1>21 DEF rediscoverAndSaveWgS2s, doing
  <2>2. IsEntry([NoZone EXCEPT !.prefix = zoneOf'[tn(w)].prefix])
    BY Zenon, EntryFacts
  <2>3. CASE UNCHANGED manifestSide
    BY Zenon, <1>7, <1>21, <2>2, <2>3 DEF rediscoverAndSaveWgS2s
  <2>4. CASE /\ zoneOf' = [zoneOf EXCEPT ![tn(w)].prefix = zoneOf[tn(w)].zone]
             /\ zoneSaved \/ unsaved
    <3>1. PICK e : e = [zoneOf[tn(w)] EXCEPT !.prefix = zoneOf[tn(w)].zone]
      BY Zenon
    <3>2. IsEntry(e)
      BY Zenon, <2>1, <3>1, EntryFacts DEF ZoneShape
    <3>3. zoneOf' = [zoneOf EXCEPT ![tn(w)] = e]
      BY <2>4, <3>1
    <3> QED
      BY Zenon, <1>8, <1>21, <2>2, <2>4, <3>2, <3>3 DEF rediscoverAndSaveWgS2s, zoneSaved, unsaved
  <2> QED
    BY Zenon, <1>21, <2>3, <2>4 DEF rediscoverAndSaveWgS2s, manifestSide
<1>22. CASE addInterfaceRules(w) \/ ensureZoneSubnets(w)
  BY Zenon, <1>6, <1>7, <1>16, <1>22 DEF addInterfaceRules, ensureZoneSubnets, done
<1> QED
  BY Zenon, <1>11, <1>12, <1>13, <1>14, <1>15, <1>17, <1>18, <1>19, <1>20, <1>21, <1>22 DEF workStep

(* The manifest and what is in hand keep their form. *)
LEMMA ZoneShapeStep ==
    ASSUME PlanInv, ZoneShape, S2sNext \/ UNCHANGED s2sVars
    PROVE  ZoneShape'
<1>1. ASSUME UNCHANGED <<zoneOf, fileZones, hand>> PROVE ZoneShape'
  BY Zenon, <1>1 DEF ZoneShape
<1>2. ASSUME NEW w \in Worker, NEW q, become(w, q), UNCHANGED manifestSide PROVE ZoneShape'
  <2>1. IsEntry(hand'[w]) /\ Alone(w)
    BY Zenon, <1>2, BecomeIs, EntryFacts DEF PlanInv, Workers
  <2>2. UNCHANGED <<zoneOf, fileZones>>
    BY Zenon, <1>2 DEF manifestSide
  <2> QED
    BY Zenon, <2>1, <2>2 DEF ZoneShape, Alone
<1>3. CASE work
  BY Zenon, <1>3, ZoneShapeWork DEF work
<1>4. CASE restoreWgS2sRules
  BY Zenon, <1>2, <1>4 DEF restoreWgS2sRules, Worker
<1>5. CASE userRequest
  <2>1. PICK t \in Tunnel : \E u, q : request(t, u, q)
    BY Zenon, <1>5, RequestOk DEF userRequest
  <2> QED
    BY Zenon, <1>2, <2>1 DEF request, Worker
<1>6. CASE chainsAppear \/ zoneListAges \/ provision \/ keyChanges \/ healthChanges
  BY Zenon, <1>1, <1>6 DEF chainsAppear, zoneListAges, provision, keyChanges, healthChanges, idle, manifestSide
<1>7. CASE initWgS2s
  <2>1. zoneOf' = fileZones /\ fileZones' = fileZones /\ hand' = [w \in Worker |-> NoZone]
    BY Zenon, <1>7 DEF initWgS2s
  <2> QED
    BY Zenon, <2>1, EntryFacts DEF ZoneShape
<1>8. CASE UNCHANGED s2sVars
  BY Zenon, <1>1, <1>8 DEF s2sVars
<1> QED
  BY Zenon, <1>3, <1>4, <1>5, <1>6, <1>7, <1>8 DEF S2sNext, S2sStep

\* Zone work, and nobody else at it unless goroutines clash; the tunnels in
\* hand are apart as well.
ZonePhases == {"create", "policies", "save", "dropPolicies", "dropZone"}
Apart ==
    ~clash => /\ ~(onZones("user") /\ onZones("watcher"))
              /\ workingOn("user") \cap workingOn("watcher") = {}

(* The history says when goroutines clash. *)
LEMMA ApartStep ==
    ASSUME Apart, S2sNext \/ UNCHANGED s2sVars
    PROVE  Apart' /\ (clash => clash')
<1>1. CASE S2sNext
  <2>1. clash' = (clash \/ clashing')
    BY Zenon, <1>1 DEF S2sNext, watched
  <2>2. clash => clash'
    BY Zenon, <2>1
  <2>3. clashing' => clash'
    BY Zenon, <2>1
  <2>4. ~clash' => ~clashing'
    BY Zenon, <2>3
  <2> QED
    BY Zenon, <2>2, <2>4 DEF Apart, clashing
<1>2. CASE UNCHANGED s2sVars
  BY Zenon, <1>2 DEF Apart, s2sVars, onZones, workingOn, task
<1> QED
  BY Zenon, <1>1, <1>2

(* What went wrong once is not forgotten. *)
LEMMA OddGrows ==
    ASSUME S2sNext \/ UNCHANGED s2sVars
    PROVE  odd \subseteq odd'
<1>1. ASSUME granted PROVE odd \subseteq odd'
  BY Zenon, <1>1 DEF granted
<1>2. ASSUME NEW x, refused(x) PROVE odd \subseteq odd'
  BY Zenon, <1>2 DEF refused
<1>3. ASSUME zoneSaved \/ unsaved PROVE odd \subseteq odd'
  BY Zenon, <1>1, <1>2, <1>3 DEF zoneSaved, unsaved
<1>4. ASSUME NEW x, odd' = odd \cup x PROVE odd \subseteq odd'
  BY Zenon, <1>4
<1>5. ASSUME NEW w, workStep(w) PROVE odd \subseteq odd'
  <2>1. CASE zoneRefused(w) \/ zoneJoin(w) \/ CreateZone(w) \/ saveZone(w) \/ dropPolicies(w)
    BY Zenon, <1>1, <1>2, <1>3, <2>1 DEF zoneRefused, zoneJoin, CreateZone, saveZone, dropPolicies
  <2>2. CASE zoneByName(w) \/ teardownEntry(w) \/ rediscoverAndSaveWgS2s(w)
    BY Zenon, <1>1, <1>2, <1>3, <1>4, <2>2 DEF zoneByName, teardownEntry, rediscoverAndSaveWgS2s
  <2>3. CASE EnsurePolicies(w)
    <3>1. granted \/ refused({"left"})
      BY <2>3 DEF EnsurePolicies
    <3> QED
      BY Zenon, <1>1, <1>2, <3>1
  <2>4. CASE dropZone(w) \/ addInterfaceRules(w) \/ ensureZoneSubnets(w) \/ undoRules(w)
    BY Zenon, <1>1, <1>2, <2>4 DEF dropZone, addInterfaceRules, ensureZoneSubnets, undoRules, rulesGo
  <2>5. CASE removeInterfaceRules(w) \/ RemoveWgS2sIPSetEntries(w) \/ openPort(w) \/ closePort(w)
    BY Zenon, <1>1, <1>2, <1>4, <2>5
       DEF removeInterfaceRules, RemoveWgS2sIPSetEntries, openPort, closePort, rulesGo
  <2>6. CASE wgDelete(w) \/ ReconcileZones(w) \/ checkRules(w)
    BY Zenon, <1>1, <1>2, <2>6 DEF wgDelete, ReconcileZones, checkRules
  <2> QED
    BY Zenon, <1>5, <2>1, <2>2, <2>3, <2>4, <2>5, <2>6 DEF workStep
<1>6. CASE restoreWgS2sRules
  BY Zenon, <1>1, <1>6 DEF restoreWgS2sRules
<1>7. CASE userRequest
  <2>1. PICK t \in Tunnel : \E u, q : request(t, u, q)
    BY Zenon, <1>7, RequestOk DEF userRequest
  <2> QED
    BY Zenon, <1>1, <2>1 DEF request
<1>8. CASE chainsAppear \/ zoneListAges \/ provision \/ keyChanges \/ healthChanges \/ initWgS2s
  BY Zenon, <1>1, <1>2, <1>8 DEF chainsAppear, zoneListAges, provision, keyChanges, healthChanges, initWgS2s
<1>9. CASE UNCHANGED s2sVars
  BY Zenon, <1>9 DEF s2sVars
<1> QED
  BY Zenon, <1>5, <1>6, <1>7, <1>8, <1>9 DEF S2sNext, S2sStep, work

own(z) == {<<z, 1>>, <<z, 2>>}

\* What the controller has: no zone before its policies are gone.
CtlInv ==
    /\ lastZone \in Nat /\ \A z \in zones : z \in 1..lastZone
    /\ zonePols \subseteq zones \X {1, 2}

(* Only zone calls change what the controller has. *)
LEMMA CtlSame ==
    ASSUME NEW w, workStep(w), ~CreateZone(w), ~EnsurePolicies(w), ~dropPolicies(w), ~dropZone(w)
    PROVE  UNCHANGED <<zones, zonePols, lastZone>>
<1>1. CASE zoneRefused(w) \/ zoneJoin(w) \/ zoneByName(w) \/ saveZone(w) \/ teardownEntry(w)
  BY Zenon, <1>1 DEF zoneRefused, zoneJoin, zoneByName, saveZone, teardownEntry, controllerSide
<1>2. CASE \/ rediscoverAndSaveWgS2s(w) \/ addInterfaceRules(w) \/ ensureZoneSubnets(w)
           \/ undoRules(w) \/ removeInterfaceRules(w)
  BY Zenon, <1>2 DEF rediscoverAndSaveWgS2s, addInterfaceRules, ensureZoneSubnets, undoRules,
     removeInterfaceRules, controllerSide
<1>3. CASE \/ RemoveWgS2sIPSetEntries(w) \/ openPort(w) \/ closePort(w) \/ wgDelete(w)
           \/ ReconcileZones(w) \/ checkRules(w)
  BY Zenon, <1>3 DEF RemoveWgS2sIPSetEntries, openPort, closePort, wgDelete, ReconcileZones, checkRules,
     controllerSide
<1> QED
  BY Zenon, <1>1, <1>2, <1>3 DEF workStep

(* Nothing but calls does. *)
LEMMA CtlIdle ==
    ASSUME S2sNext \/ UNCHANGED s2sVars, ~work
    PROVE  UNCHANGED <<zones, zonePols, lastZone>>
<1>1. CASE restoreWgS2sRules
  BY Zenon, <1>1 DEF restoreWgS2sRules, controllerSide
<1>2. CASE userRequest
  <2>1. PICK t \in Tunnel : \E u, q : request(t, u, q)
    BY Zenon, <1>2, RequestOk DEF userRequest
  <2> QED
    BY Zenon, <2>1 DEF request, controllerSide
<1>3. CASE chainsAppear \/ zoneListAges \/ provision \/ keyChanges \/ healthChanges \/ initWgS2s
  BY Zenon, <1>3 DEF chainsAppear, zoneListAges, provision, keyChanges, healthChanges, initWgS2s, idle
<1>4. CASE UNCHANGED s2sVars
  BY Zenon, <1>4 DEF s2sVars
<1> QED
  BY Zenon, <1>1, <1>2, <1>3, <1>4 DEF S2sNext, S2sStep

(* A policy names a zone that is there. *)
LEMMA CtlStep ==
    ASSUME CtlInv, S2sNext \/ UNCHANGED s2sVars
    PROVE  CtlInv'
<1>1. ASSUME UNCHANGED <<zones, zonePols, lastZone>> PROVE CtlInv'
  BY Zenon, <1>1 DEF CtlInv
<1>2. ASSUME NEW w, CreateZone(w) PROVE CtlInv'
  <2>1. /\ zonePols' = zonePols
        /\ \/ lastZone' = lastZone + 1 /\ zones' = zones \cup {lastZone + 1}
           \/ UNCHANGED <<zones, lastZone>>
    BY <1>2 DEF CreateZone
  <2> QED
    BY <2>1 DEF CtlInv
<1>3. ASSUME NEW w, EnsurePolicies(w) PROVE CtlInv'
  <2>1. UNCHANGED <<zones, lastZone>>
    BY <1>3 DEF EnsurePolicies
  <2>2. zonePols' \subseteq zones \X {1, 2}
    BY <1>3 DEF EnsurePolicies, CtlInv
  <2> QED
    BY Zenon, <2>1, <2>2 DEF CtlInv
<1>4. ASSUME NEW w, dropPolicies(w) PROVE CtlInv'
  <2>1. UNCHANGED <<zones, lastZone>> /\ zonePols' \subseteq zonePols
    BY Zenon, <1>4 DEF dropPolicies
  <2> QED
    BY Zenon, <2>1 DEF CtlInv
<1>5. ASSUME NEW w, dropZone(w) PROVE CtlInv'
  <2>1. UNCHANGED <<zonePols, lastZone>>
    BY Zenon, <1>5 DEF dropZone
  <2>2. \/ zones' = zones
        \/ zones' = zones \ {hand[w].zone} /\ \A p \in zonePols : p[1] # hand[w].zone
    BY Zenon, <1>5 DEF dropZone
  <2> QED
    BY <2>1, <2>2 DEF CtlInv
<1>6. CASE work
  BY Zenon, <1>1, <1>2, <1>3, <1>4, <1>5, <1>6, CtlSame DEF work
<1> QED
  BY Zenon, <1>1, <1>6, CtlIdle

\* The zone of a tunnel, and what a goroutine has in hand of one.
EntryIs(t) ==
    zoneOf[t] # NoZone =>
        /\ zoneOf[t].zone \in zones /\ zoneOf[t].pols = own(zoneOf[t].zone)
        /\ zoneOf[t].pols \subseteq zonePols
HandIs(w) ==
    /\ phase[w] = "create" => zones = {}
    /\ phase[w] \in {"policies", "save", "dropPolicies", "dropZone"} => hand[w].zone \in zones
    /\ phase[w] = "save" => hand[w].pols = own(hand[w].zone) /\ hand[w].pols \subseteq zonePols
    /\ phase[w] = "dropPolicies" => /\ task(w).op = "unzone" /\ hand[w].pols = own(hand[w].zone)
                                    /\ \A t \in Tunnel : zoneOf[t].zone # hand[w].zone
OneZone == \A y, z \in zones : y = z
ZoneOk ==
    /\ fileZones = zoneOf /\ OneZone
    /\ \A t \in Tunnel : EntryIs(t)
    /\ \A w \in Worker : HandIs(w)
ZoneInv == orderly => ZoneOk

(* Nothing about zones in hand. *)
LEMMA HandQuiet ==
    ASSUME NEW w, phase'[w] \notin ZonePhases
    PROVE  HandIs(w)'
BY DEF HandIs, ZonePhases

(* The zones stay as they are, and what is in hand of them. *)
LEMMA HandSame ==
    ASSUME NEW w, HandIs(w), UNCHANGED <<zones, zonePols>>, \A t \in Tunnel : zoneOf'[t].zone = zoneOf[t].zone,
           plan'[w] = plan[w], phase'[w] = phase[w], hand'[w] = hand[w]
    PROVE  HandIs(w)'
BY Zenon DEF HandIs, task

(* A goroutine in the middle of zone work is at a zone call. *)
LEMMA AtZones ==
    ASSUME PlanInv, NEW w \in Worker, phase[w] \in ZonePhases
    PROVE  onZones(w)
<1>1. phase[w] # "start" /\ phase[w] \notin {"rules", "ipset", "undo"}
  BY DEF ZonePhases
<1>2. plan[w] # <<>>
  BY Zenon, <1>1 DEF PlanInv
<1>3. task(w).op = "zone" \/ task(w).op = "unzone"
  BY Zenon, <1>1 DEF PlanInv
<1> QED
  BY Zenon, <1>2, <1>3 DEF onZones

\* A step that has nothing to do with zones.
Zoneless(w) ==
    /\ UNCHANGED <<zoneOf, fileZones>>
    /\ phase[w] \notin ZonePhases /\ phase'[w] \notin ZonePhases

(* The steps of the calls for rules, networks, ports and the tunnel itself.  *)
LEMMA ZonelessSteps ==
    ASSUME Workers, NEW w \in Worker, workStep(w),
           ~zoneJoin(w), ~zoneByName(w), ~CreateZone(w), ~EnsurePolicies(w), ~saveZone(w),
           ~teardownEntry(w), ~dropPolicies(w), ~dropZone(w), ~rediscoverAndSaveWgS2s(w)
    PROVE  Zoneless(w)
<1>1. ASSUME NEW q, become(w, q) PROVE phase'[w] \notin ZonePhases
  <2>1. phase'[w] = "start"
    BY Zenon, <1>1, BecomeIs
  <2> QED
    BY <2>1 DEF ZonePhases
<1>2. ASSUME NEW h, follow(w, "ipset", h) \/ follow(w, "undo", h) PROVE phase'[w] \notin ZonePhases
  <2>1. phase'[w] \in {"ipset", "undo"}
    BY Zenon, <1>2, FollowIs
  <2> QED
    BY <2>1 DEF ZonePhases
<1>3. ASSUME NEW op, doing(w, op, "start") \/ doing(w, op, "rules") \/ doing(w, op, "ipset") \/ doing(w, op, "undo")
      PROVE  phase[w] \notin ZonePhases
  BY <1>3 DEF doing, ZonePhases
<1>4. CASE zoneRefused(w) \/ removeInterfaceRules(w) \/ ReconcileZones(w) \/ checkRules(w) \/ wgDelete(w)
  BY Zenon, <1>1, <1>3, <1>4
     DEF zoneRefused, removeInterfaceRules, ReconcileZones, checkRules, wgDelete, done, Zoneless, manifestSide
<1>5. CASE undoRules(w) \/ RemoveWgS2sIPSetEntries(w) \/ openPort(w) \/ closePort(w)
  BY Zenon, <1>1, <1>3, <1>5
     DEF undoRules, RemoveWgS2sIPSetEntries, openPort, closePort, done, Zoneless, manifestSide
<1>6. CASE addInterfaceRules(w) \/ ensureZoneSubnets(w)
  BY Zenon, <1>1, <1>2, <1>3, <1>6 DEF addInterfaceRules, ensureZoneSubnets, done, Zoneless, manifestSide
<1> QED
  BY Zenon, <1>4, <1>5, <1>6 DEF workStep

(* An orderly step of a call keeps the zones in order. *)
LEMMA ZoneWork ==
    ASSUME PlanInv, ZoneShape, CtlInv, Apart, ~clash, ZoneOk, NEW w \in Worker, workStep(w),
           "old" \notin odd', "unsaved" \notin odd'
    PROVE  ZoneOk'
<1>1. Workers
  BY Zenon DEF PlanInv, Workers
<1>2. plan[w] # <<>> /\ Alone(w)
  BY Zenon, <1>1, WorkMoves DEF Moves
<1>3. task(w).op # "check" => tn(w) \in Tunnel
  BY Zenon, <1>2, TaskIs DEF Worker
<1>4. ASSUME task(w).op \in {"zone", "unzone"}, NEW v \in Worker \ {w} PROVE HandIs(v)'
  <2>1. onZones(w)
    BY Zenon, <1>2, <1>4 DEF onZones
  <2>2. ~onZones(v)
    BY <2>1 DEF Apart, Worker
  <2>3. phase[v] \notin ZonePhases
    BY Zenon, <2>2, AtZones
  <2>4. phase'[v] \notin ZonePhases
    BY Zenon, <1>2, <2>3 DEF Alone
  <2> QED
    BY Zenon, <2>4, HandQuiet
<1>5. ASSUME unsaved PROVE FALSE
  BY <1>5 DEF unsaved, refused
<1>6. ASSUME zoneSaved PROVE fileZones' = zoneOf'
  BY Zenon, <1>6 DEF zoneSaved
<1>7. ASSUME NEW q, become(w, q) PROVE phase'[w] = "start" /\ HandIs(w)'
  <2>1. phase'[w] = "start"
    BY Zenon, <1>1, <1>7, BecomeIs
  <2>2. phase'[w] \notin ZonePhases
    BY <2>1 DEF ZonePhases
  <2> QED
    BY Zenon, <2>1, <2>2, HandQuiet
<1>8. fileZones = zoneOf /\ OneZone /\ (\A t \in Tunnel : EntryIs(t)) /\ \A v \in Worker : HandIs(v)
  BY Zenon DEF ZoneOk
<1>9. CASE Zoneless(w) /\ UNCHANGED <<zones, zonePols>>
  <2>1. HandIs(w)'
    BY Zenon, <1>9, HandQuiet DEF Zoneless
  <2>2. \A v \in Worker \ {w} : HandIs(v)'
    BY Zenon, <1>2, <1>8, <1>9, HandSame DEF Zoneless, Alone
  <2>3. \A t \in Tunnel : EntryIs(t)'
    BY Zenon, <1>8, <1>9 DEF Zoneless, EntryIs
  <2>4. fileZones' = zoneOf' /\ OneZone'
    BY Zenon, <1>8, <1>9 DEF Zoneless, OneZone
  <2> QED
    BY Zenon, <2>1, <2>2, <2>3, <2>4 DEF ZoneOk
<1>10. CASE zoneJoin(w)
  <2>1. PICK u \in Tunnel : /\ zoneOf[u].zone = task(w).x
                            /\ zoneOf' = [zoneOf EXCEPT ![tn(w)] = zoneOf[u]]
    BY Zenon, <1>10 DEF zoneJoin
  <2>2. task(w).op = "zone" /\ tn(w) \in Tunnel
    BY <1>3, <1>10 DEF zoneJoin, doing
  <2>3. UNCHANGED <<zones, zonePols>> /\ fileZones' = zoneOf' /\ HandIs(w)'
    BY Zenon, <1>5, <1>6, <1>7, <1>10 DEF zoneJoin, done, controllerSide
  <2>4. \A t \in Tunnel : \E y \in Tunnel : zoneOf'[t] = zoneOf[y]
    BY <2>1, <2>2 DEF ZoneShape
  <2>5. \A t \in Tunnel : EntryIs(t)'
    BY Zenon, <1>8, <2>3, <2>4 DEF EntryIs
  <2>6. \A v \in Worker \ {w} : HandIs(v)'
    BY Zenon, <1>4, <2>2
  <2> QED
    BY Zenon, <1>8, <2>3, <2>5, <2>6 DEF ZoneOk, OneZone
<1>11. ASSUME task(w).op \in {"zone", "unzone"}, UNCHANGED <<zoneOf, fileZones>>, OneZone', HandIs(w)',
              \A t \in Tunnel : EntryIs(t)'
       PROVE  ZoneOk'
  <2>1. \A v \in Worker \ {w} : HandIs(v)'
    BY Zenon, <1>4, <1>11
  <2> QED
    BY Zenon, <1>8, <1>11, <2>1 DEF ZoneOk
<1>12. ASSUME UNCHANGED <<zoneOf, zones, zonePols>> PROVE OneZone' /\ \A t \in Tunnel : EntryIs(t)'
  BY Zenon, <1>8, <1>12 DEF OneZone, EntryIs
<1>inZone. ASSUME NEW p, NEW z, NEW S, follow(w, p, inZone(z, S))
           PROVE  phase'[w] = p /\ hand'[w].zone = z /\ hand'[w].pols = S
  <2>1. phase'[w] = p /\ hand'[w] = inZone(z, S)
    BY Zenon, <1>1, <1>inZone, FollowIs
  <2> QED
    BY <2>1 DEF inZone
<1>13. CASE zoneByName(w)
  <2>1. UNCHANGED <<zoneOf, fileZones, zones, zonePols>> /\ task(w).op = "zone"
    BY Zenon, <1>13 DEF zoneByName, doing, manifestSide
  <2>2. CASE done(w)
    BY Zenon, <1>7, <1>11, <1>12, <2>1, <2>2 DEF done
  <2>3. CASE ~done(w)
    <3>1. PICK seen : /\ odd' = odd \cup (IF seen # zones THEN {"old"} ELSE {})
                      /\ \/ \E z \in seen : follow(w, "policies", inZone(z, {}))
                         \/ seen = {} /\ follow(w, "create", NoZone)
      BY Zenon, <1>13, <2>3 DEF zoneByName
    <3>2. seen = zones
      BY <3>1
    <3>3. CASE seen = {} /\ follow(w, "create", NoZone)
      <4>1. phase'[w] = "create" /\ zones' = {}
        BY Zenon, <1>1, <2>1, <3>2, <3>3, FollowIs
      <4>2. HandIs(w)'
        BY <4>1 DEF HandIs
      <4> QED
        BY Zenon, <1>11, <1>12, <2>1, <4>2
    <3>4. ASSUME NEW z \in seen, follow(w, "policies", inZone(z, {})) PROVE ZoneOk'
      <4>1. phase'[w] = "policies" /\ hand'[w].zone = z /\ z \in zones'
        BY Zenon, <1>inZone, <2>1, <3>2, <3>4
      <4>2. HandIs(w)'
        BY <4>1 DEF HandIs
      <4> QED
        BY Zenon, <1>11, <1>12, <2>1, <4>2
    <3> QED
      BY Zenon, <3>1, <3>3, <3>4
  <2> QED
    BY Zenon, <2>2, <2>3
<1>14. CASE CreateZone(w)
  <2>1. UNCHANGED <<zoneOf, fileZones, zonePols>> /\ task(w).op = "zone" /\ phase[w] = "create"
    BY Zenon, <1>14 DEF CreateZone, doing, manifestSide
  <2>2. zones = {}
    BY Zenon, <1>8, <2>1 DEF HandIs
  <2>3. CASE done(w) /\ UNCHANGED zones
    BY Zenon, <1>7, <1>11, <1>12, <2>1, <2>3 DEF done
  <2>4. CASE zones' = zones \cup {lastZone'} /\ follow(w, "policies", inZone(lastZone', {}))
    <3>1. phase'[w] = "policies" /\ hand'[w].zone = lastZone'
      BY Zenon, <1>inZone, <2>4
    <3>2. OneZone' /\ lastZone' \in zones'
      BY Zenon, <2>2, <2>4 DEF OneZone
    <3>3. HandIs(w)'
      BY <3>1, <3>2 DEF HandIs
    <3>4. \A t \in Tunnel : EntryIs(t)'
      BY Zenon, <1>8, <2>1, <2>2 DEF EntryIs
    <3> QED
      BY Zenon, <1>11, <2>1, <3>2, <3>3, <3>4
  <2> QED
    BY Zenon, <1>14, <2>3, <2>4 DEF CreateZone
<1>15. CASE EnsurePolicies(w)
  <2>1. UNCHANGED <<zoneOf, fileZones, zones>> /\ task(w).op = "zone" /\ phase[w] = "policies"
        /\ zonePols \subseteq zonePols'
    BY <1>15 DEF EnsurePolicies, doing, manifestSide
  <2>2. PICK z : z = hand[w].zone
    BY Zenon
  <2>3. z \in zones
    BY <1>8, <2>1, <2>2 DEF HandIs
  <2>4. zonePols' \subseteq zones \X {1, 2}
    BY <1>15 DEF EnsurePolicies, CtlInv
  <2>5. zonePols' \subseteq own(z)
    BY <1>8, <2>3, <2>4 DEF OneZone, own
  <2>6. OneZone' /\ \A t \in Tunnel : EntryIs(t)'
    BY Zenon, <1>8, <2>1 DEF OneZone, EntryIs
  <2>7. CASE \E pols : /\ pols \subseteq zonePols' /\ {p[2] : p \in pols} = {1, 2}
                       /\ follow(w, "save", inZone(z, pols))
    <3>1. PICK pols : /\ pols \subseteq zonePols' /\ {p[2] : p \in pols} = {1, 2}
                      /\ follow(w, "save", inZone(z, pols))
      BY Zenon, <2>7
    <3>2. pols \subseteq own(z)
      BY Zenon, <2>5, <3>1
    <3>3. \A p \in own(z) : (p[2] = 1 => p = <<z, 1>>) /\ (p[2] = 2 => p = <<z, 2>>)
      BY DEF own
    <3>4. <<z, 1>> \in pols /\ <<z, 2>> \in pols
      <4>1. 1 \in {p[2] : p \in pols} /\ 2 \in {p[2] : p \in pols}
        BY <3>1
      <4> QED
        BY Zenon, <3>2, <3>3, <4>1
    <3>5. pols = own(z)
      BY Zenon, <3>2, <3>4 DEF own
    <3>6. phase'[w] = "save" /\ hand'[w].zone = z /\ hand'[w].pols = pols
      BY ZenonT(60), <1>inZone, <3>1
    <3>7. HandIs(w)'
      BY <2>1, <2>3, <3>1, <3>5, <3>6 DEF HandIs
    <3> QED
      BY Zenon, <1>11, <2>1, <2>6, <3>7
  <2>8. CASE follow(w, "dropZone", hand[w])
    <3>1. phase'[w] = "dropZone" /\ hand'[w] = hand[w]
      BY ZenonT(60), <1>1, <2>8, FollowIs
    <3>2. HandIs(w)'
      BY <2>1, <2>2, <2>3, <3>1 DEF HandIs
    <3> QED
      BY Zenon, <1>11, <2>1, <2>6, <3>2
  <2>9. \/ follow(w, "dropZone", hand[w])
        \/ \E pols : /\ pols \subseteq zonePols' /\ {p[2] : p \in pols} = {1, 2}
                     /\ follow(w, "save", inZone(z, pols))
    BY <1>15, <2>2 DEF EnsurePolicies
  <2> QED
    BY Zenon, <2>7, <2>8, <2>9

<1>16. CASE saveZone(w)
  <2>1. PICK h : h = hand[w]
    BY Zenon
  <2>2. PICK e : e = [h EXCEPT !.prefix = discovered(h.zone)]
    BY Zenon
  <2>3. e.zone = h.zone /\ e.pols = h.pols
    <3>1. IsEntry(h)
      BY Zenon, <2>1 DEF ZoneShape
    <3> QED
      BY <2>2, <3>1, EntryFacts
  <2>4. phase[w] = "save" /\ task(w).op = "zone" /\ tn(w) \in Tunnel
    BY <1>3, <1>16 DEF saveZone, doing
  <2>5. zoneOf' = [zoneOf EXCEPT ![tn(w)] = e] /\ UNCHANGED <<zones, zonePols>>
    BY Zenon, <1>16, <2>1, <2>2 DEF saveZone, controllerSide
  <2>6. fileZones' = zoneOf' /\ HandIs(w)'
    BY Zenon, <1>5, <1>6, <1>7, <1>16 DEF saveZone, done
  <2>7. e.zone \in zones /\ e.pols = own(e.zone) /\ e.pols \subseteq zonePols
    BY ZenonT(30), <1>8, <2>1, <2>3, <2>4 DEF HandIs
  <2>8. \A t \in Tunnel : zoneOf'[t] = e \/ zoneOf'[t] = zoneOf[t]
    BY <2>4, <2>5 DEF ZoneShape
  <2>9. \A t \in Tunnel : EntryIs(t)'
    <3> SUFFICES ASSUME NEW t \in Tunnel PROVE EntryIs(t)'
      BY Zenon
    <3>1. CASE zoneOf'[t] = e
      BY SMTT(60), <2>5, <2>7, <3>1 DEF EntryIs
    <3>2. CASE zoneOf'[t] = zoneOf[t]
      BY <1>8, <2>5, <3>2 DEF EntryIs
    <3> QED
      BY Zenon, <2>8, <3>1, <3>2
  <2>10. \A v \in Worker \ {w} : HandIs(v)'
    BY Zenon, <1>4, <2>4
  <2> QED
    BY Zenon, <1>8, <2>5, <2>6, <2>9, <2>10 DEF ZoneOk, OneZone
<1>17. CASE teardownEntry(w)
  <2>1. task(w).op = "unzone" /\ tn(w) \in Tunnel
    BY <1>3, <1>17 DEF teardownEntry, doing
  <2>2. zoneOf' = [zoneOf EXCEPT ![tn(w)] = NoZone] /\ UNCHANGED <<zones, zonePols>>
    BY Zenon, <1>17 DEF teardownEntry, controllerSide
  <2>3. PICK zm : zm = zoneOf[tn(w)]
    BY Zenon
  <2>4. /\ fileZones' = zoneOf'
        /\ \/ done(w)
           \/ /\ follow(w, "dropPolicies", zm) /\ zm.zone # 0
              /\ \A u \in Tunnel : zoneOf'[u].zone # zm.zone
    BY Zenon, <1>5, <1>6, <1>17, <2>3 DEF teardownEntry
  <2>5. \A t \in Tunnel : zoneOf'[t] = NoZone \/ zoneOf'[t] = zoneOf[t]
    BY <2>1, <2>2 DEF ZoneShape
  <2>6. \A t \in Tunnel : EntryIs(t)'
    <3> SUFFICES ASSUME NEW t \in Tunnel PROVE EntryIs(t)'
      BY Zenon
    <3>1. CASE zoneOf'[t] = NoZone
      BY Zenon, <3>1 DEF EntryIs
    <3>2. CASE zoneOf'[t] = zoneOf[t]
      BY <1>8, <2>2, <3>2 DEF EntryIs
    <3> QED
      BY Zenon, <2>5, <3>1, <3>2
  <2>7. HandIs(w)'
    <3>1. CASE done(w)
      BY Zenon, <1>7, <3>1 DEF done
    <3>2. CASE /\ follow(w, "dropPolicies", zm) /\ zm.zone # 0
               /\ \A u \in Tunnel : zoneOf'[u].zone # zm.zone
      <4>1. zm # NoZone
        BY Zenon, <3>2, EntryFacts
      <4>2. zm.zone \in zones' /\ zm.pols = own(zm.zone)
        BY Zenon, <1>8, <2>1, <2>2, <2>3, <4>1 DEF EntryIs
      <4>3. phase'[w] = "dropPolicies" /\ hand'[w] = zm /\ plan' = plan
        BY Zenon, <1>1, <3>2, FollowIs
      <4>4. task(w)'.op = "unzone"
        BY Zenon, <2>1, <4>3 DEF task
      <4> QED
        BY <3>2, <4>2, <4>3, <4>4 DEF HandIs
    <3> QED
      BY Zenon, <2>4, <3>1, <3>2
  <2>8. \A v \in Worker \ {w} : HandIs(v)'
    BY Zenon, <1>4, <2>1
  <2> QED
    BY ZenonT(60), <1>8, <2>2, <2>4, <2>6, <2>7, <2>8 DEF ZoneOk, OneZone
<1>18. CASE dropPolicies(w)
  <2>1. phase[w] = "dropPolicies" /\ task(w).op \in {"zone", "unzone"}
    BY Zenon, <1>18 DEF dropPolicies, dropping, doing
  <2>2. UNCHANGED <<zoneOf, fileZones, zones>> /\ follow(w, "dropZone", hand[w])
    BY Zenon, <1>18 DEF dropPolicies, manifestSide
  <2>3. hand[w].zone \in zones /\ \A t \in Tunnel : zoneOf[t].zone # hand[w].zone
    BY <1>8, <2>1 DEF HandIs
  <2>4. \A t \in Tunnel : zoneOf[t] = NoZone
    BY Zenon, <1>8, <2>3 DEF EntryIs, OneZone
  <2>5. phase'[w] = "dropZone" /\ hand'[w] = hand[w]
    BY Zenon, <1>1, <2>2, FollowIs
  <2>6. HandIs(w)'
    BY <2>2, <2>3, <2>5 DEF HandIs
  <2>7. OneZone' /\ \A t \in Tunnel : EntryIs(t)'
    BY Zenon, <1>8, <2>2, <2>4 DEF OneZone, EntryIs
  <2> QED
    BY Zenon, <1>11, <2>1, <2>2, <2>6, <2>7
<1>19. CASE dropZone(w)
  <2>1. task(w).op \in {"zone", "unzone"}
    BY Zenon, <1>19 DEF dropZone, dropping, doing
  <2>2. UNCHANGED <<zoneOf, fileZones, zonePols>> /\ done(w)
    BY Zenon, <1>19 DEF dropZone, manifestSide
  <2>3. PICK z : z = hand[w].zone
    BY Zenon
  <2>4. zones' = zones \/ (zones' = zones \ {z} /\ \A p \in zonePols : p[1] # z)
    BY Zenon, <1>19, <2>3 DEF dropZone
  <2>5. ASSUME NEW t \in Tunnel PROVE EntryIs(t)'
    <3>1. CASE zoneOf[t] = NoZone
      BY Zenon, <2>2, <3>1 DEF EntryIs
    <3>2. CASE zoneOf[t] # NoZone
      <4>1. /\ zoneOf[t].zone \in zones /\ zoneOf[t].pols = own(zoneOf[t].zone)
            /\ zoneOf[t].pols \subseteq zonePols
        BY Zenon, <1>8, <3>2 DEF EntryIs
      <4>2. <<zoneOf[t].zone, 1>> \in zonePols
        BY Zenon, <4>1 DEF own
      <4>3. zoneOf[t].zone \in zones'
        BY <2>4, <4>1, <4>2
      <4> QED
        BY Zenon, <2>2, <4>1, <4>3 DEF EntryIs
    <3> QED
      BY <3>1, <3>2
  <2>6. OneZone' /\ HandIs(w)'
    BY Zenon, <1>7, <1>8, <2>2, <2>4 DEF OneZone, done
  <2> QED
    BY Zenon, <1>11, <2>1, <2>2, <2>5, <2>6
<1>20. CASE rediscoverAndSaveWgS2s(w)
  <2>1. tn(w) \in Tunnel
    BY <1>3, <1>20 DEF rediscoverAndSaveWgS2s, doing
  <2>2. UNCHANGED <<zones, zonePols>>
    BY Zenon, <1>20 DEF rediscoverAndSaveWgS2s, controllerSide
  <2>3. phase'[w] \notin ZonePhases
    <3>1. phase'[w] = "rules"
      BY Zenon, <1>1, <1>20, FollowIs DEF rediscoverAndSaveWgS2s
    <3> QED
      BY <3>1 DEF ZonePhases
  <2>4. PICK e : e = [zoneOf[tn(w)] EXCEPT !.prefix = zoneOf[tn(w)].zone]
    BY Zenon
  <2>5. e.zone = zoneOf[tn(w)].zone /\ e.pols = zoneOf[tn(w)].pols
    BY Zenon, <2>1, <2>4, EntryFacts DEF ZoneShape
  <2>6. CASE UNCHANGED manifestSide
    <3>1. fileZones' = zoneOf' /\ zoneOf' = zoneOf
      BY Zenon, <1>8, <2>6 DEF manifestSide
    <3>2. \A v \in Worker : HandIs(v)'
      BY Zenon, <1>2, <1>8, <2>2, <2>3, <3>1, HandSame, HandQuiet DEF Alone
    <3> QED
      BY Zenon, <1>12, <2>2, <3>1, <3>2 DEF ZoneOk
  <2>7. CASE /\ zoneOf[tn(w)].zone # 0 /\ zoneOf' = [zoneOf EXCEPT ![tn(w)].prefix = zoneOf[tn(w)].zone]
             /\ zoneSaved \/ unsaved
    <3>1. fileZones' = zoneOf' /\ zoneOf[tn(w)] # NoZone
      BY Zenon, <1>5, <1>6, <2>7, EntryFacts
    <3>2. zoneOf' = [zoneOf EXCEPT ![tn(w)] = e]
      BY <2>4, <2>7
    <3>3. \A t \in Tunnel : zoneOf'[t] = IF t = tn(w) THEN e ELSE zoneOf[t]
      BY <3>2 DEF ZoneShape
    <3>4. \A t \in Tunnel : zoneOf'[t].zone = zoneOf[t].zone
      BY Zenon, <2>5, <3>3
    <3>5. \A v \in Worker : HandIs(v)'
      BY Zenon, <1>2, <1>8, <2>2, <2>3, <3>4, HandSame, HandQuiet DEF Alone
    <3>6. \A t \in Tunnel : EntryIs(t)'
      BY Zenon, <1>8, <2>1, <2>2, <2>5, <3>1, <3>3 DEF EntryIs
    <3> QED
      BY Zenon, <1>8, <2>2, <3>1, <3>5, <3>6 DEF ZoneOk, OneZone
  <2> QED
    BY Zenon, <1>20, <2>6, <2>7 DEF rediscoverAndSaveWgS2s, manifestSide
<1> QED
  BY ZenonT(60), <1>1, <1>9, <1>10, <1>13, <1>14, <1>15, <1>16, <1>17, <1>18, <1>19, <1>20, ZonelessSteps, CtlSame

(* What is not forgotten, for the histories the properties speak of. *)
LEMMA OrderlyBefore ==
    ASSUME Apart, S2sNext \/ UNCHANGED s2sVars, orderly'
    PROVE  orderly /\ ~clash /\ "old" \notin odd' /\ "unsaved" \notin odd'
<1>1. ~clash' /\ "old" \notin odd' /\ "unsaved" \notin odd'
  BY Zenon DEF orderly
<1>2. odd \subseteq odd'
  BY Zenon, OddGrows
<1>3. ~clash
  BY Zenon, <1>1, ApartStep
<1>4. odd \cap {"old", "unsaved"} = {}
  BY Zenon, <1>1, <1>2
<1> QED
  BY Zenon, <1>1, <1>3, <1>4 DEF orderly

\* What a step that is not a call's does to plans and to the manifest.
Replans ==
    /\ UNCHANGED <<zoneOf, fileZones>>
    /\ \A w \in Worker : \/ phase'[w] \notin ZonePhases /\ (phase[w] \in ZonePhases => phase'[w] = phase[w])
                         \/ plan'[w] = plan[w] /\ phase'[w] = phase[w] /\ hand'[w] = hand[w]

(* It does not take zone work away, but for a restart. *)
LEMMA OtherSteps ==
    ASSUME PlanInv, S2sNext \/ UNCHANGED s2sVars, ~work, ~initWgS2s
    PROVE  Replans
<1>1. ASSUME NEW w \in Worker, plan[w] = <<>>, NEW q, become(w, q), UNCHANGED manifestSide PROVE Replans
  <2>1. Alone(w) /\ phase'[w] = "start"
    BY Zenon, <1>1, BecomeIs DEF PlanInv, Workers
  <2>2. phase[w] = "start"
    BY Zenon, <1>1 DEF PlanInv
  <2>3. phase'[w] \notin ZonePhases /\ phase[w] \notin ZonePhases
    BY <2>1, <2>2 DEF ZonePhases
  <2> QED
    BY Zenon, <1>1, <2>1, <2>3 DEF Replans, Alone, manifestSide
<1>2. CASE restoreWgS2sRules
  BY Zenon, <1>1, <1>2 DEF restoreWgS2sRules, Worker
<1>3. CASE userRequest
  <2>1. PICK t \in Tunnel : \E u, q : request(t, u, q)
    BY Zenon, <1>3, RequestOk DEF userRequest
  <2> QED
    BY Zenon, <1>1, <2>1 DEF request, Worker
<1>4. CASE chainsAppear \/ zoneListAges \/ provision \/ keyChanges \/ healthChanges
  BY Zenon, <1>4
     DEF chainsAppear, zoneListAges, provision, keyChanges, healthChanges, idle, manifestSide, Replans
<1>5. CASE UNCHANGED s2sVars
  BY Zenon, <1>5 DEF s2sVars, Replans
<1> QED
  BY Zenon, <1>2, <1>3, <1>4, <1>5 DEF S2sNext, S2sStep

(* The zones stay in order. *)
LEMMA ZoneStep ==
    ASSUME PlanInv, ZoneShape, CtlInv, Apart, ZoneInv, S2sNext \/ UNCHANGED s2sVars
    PROVE  ZoneInv'
<1> SUFFICES ASSUME orderly' PROVE ZoneOk'
  BY Zenon DEF ZoneInv
<1>1. orderly /\ ~clash /\ "old" \notin odd' /\ "unsaved" \notin odd'
  BY Zenon, OrderlyBefore
<1>2. ZoneOk
  BY Zenon, <1>1 DEF ZoneInv
<1>3. CASE work
  BY Zenon, <1>1, <1>2, <1>3, ZoneWork DEF work
<1>4. CASE ~work
  <2>1. UNCHANGED <<zones, zonePols>>
    BY Zenon, <1>4, CtlIdle
  <2>2. zoneOf' = zoneOf /\ fileZones' = fileZones /\ \A w \in Worker : HandIs(w)'
    <3>1. CASE initWgS2s
      <4>1. zoneOf' = fileZones /\ fileZones' = fileZones /\ phase' = [w \in Worker |-> "start"]
        BY Zenon, <3>1 DEF initWgS2s
      <4>2. \A w \in Worker : phase'[w] \notin ZonePhases
        BY <4>1 DEF ZonePhases
      <4> QED
        BY Zenon, <1>2, <4>1, <4>2, HandQuiet DEF ZoneOk
    <3>2. CASE ~initWgS2s
      <4>1. Replans
        BY Zenon, <1>4, <3>2, OtherSteps
      <4>2. zoneOf' = zoneOf /\ fileZones' = fileZones
        BY Zenon, <4>1 DEF Replans
      <4>3. ASSUME NEW w \in Worker PROVE HandIs(w)'
        BY Zenon, <1>2, <2>1, <4>1, <4>2, HandQuiet, HandSame DEF Replans, ZoneOk
      <4> QED
        BY Zenon, <4>2, <4>3
    <3> QED
      BY Zenon, <3>1, <3>2
  <2> QED
    BY Zenon, <1>2, <2>1, <2>2 DEF ZoneOk, OneZone, EntryIs
<1> QED
  BY Zenon, <1>3, <1>4

(* The tunnels that are up at first are all in zone 1. *)
LEMMA ZoneInit ==
    ASSUME S2sInit
    PROVE  ZoneShape /\ CtlInv /\ Apart /\ ZoneInv
<1>1. PICK T \in SUBSET Tunnel :
         LET some(x) == IF T = {} THEN {} ELSE x
             mine == [zone |-> 1, prefix |-> 1, pols |-> {<<1, 1>>, <<1, 2>>}]
         IN  /\ zoneOf = [t \in Tunnel |-> IF t \in T THEN mine ELSE NoZone]
             /\ zones = some({1}) /\ zonePols = some(mine.pols)
             /\ lastZone = IF T = {} THEN 0 ELSE 1
  BY Zenon DEF S2sInit
<1>2. PICK e : e = [zone |-> 1, prefix |-> 1, pols |-> own(1)]
  BY Zenon
<1>3. IsEntry(e) /\ e.zone = 1 /\ e.pols = own(1)
  BY <1>2 DEF IsEntry
<1>4. zoneOf = [t \in Tunnel |-> IF t \in T THEN e ELSE NoZone]
  BY Zenon, <1>1, <1>2 DEF own
<1>5. \/ T = {} /\ zones = {} /\ zonePols = {}
      \/ T # {} /\ zones = {1} /\ zonePols = own(1)
  BY <1>1 DEF own
<1>6. /\ fileZones = zoneOf /\ phase = [w \in Worker |-> "start"] /\ hand = [w \in Worker |-> NoZone]
      /\ plan = [w \in Worker |-> <<>>]
  BY Zenon DEF S2sInit
<1>7. ZoneShape
  BY Zenon, <1>3, <1>4, <1>6, EntryFacts DEF ZoneShape
<1>8. lastZone = IF T = {} THEN 0 ELSE 1
  BY Zenon, <1>1
<1>9. CtlInv
  BY <1>5, <1>8 DEF CtlInv, own
<1>10. Apart
  <2>1. plan["user"] = <<>> /\ plan["watcher"] = <<>>
    BY <1>6 DEF Worker
  <2>2. workingOn("user") = {}
    BY <2>1 DEF workingOn, Range
  <2> QED
    BY Zenon, <2>1, <2>2 DEF Apart, onZones
<1>11. \A t \in Tunnel : EntryIs(t)
  <2> SUFFICES ASSUME NEW t \in Tunnel PROVE EntryIs(t)
    BY Zenon
  <2>1. CASE t \in T
    <3>1. zoneOf[t] = e /\ zones = {1} /\ zonePols = own(1)
      BY <1>4, <1>5, <2>1
    <3> QED
      BY <1>3, <3>1 DEF EntryIs
  <2>2. CASE t \notin T
    BY Zenon, <1>4, <2>2 DEF EntryIs
  <2> QED
    BY Zenon, <2>1, <2>2
<1>12. \A w \in Worker : HandIs(w)
  BY <1>6 DEF HandIs
<1>13. OneZone
  BY Zenon, <1>5 DEF OneZone
<1> QED
  BY Zenon, <1>6, <1>7, <1>9, <1>10, <1>11, <1>12, <1>13 DEF ZoneInv, ZoneOk

S2sInv == PlanInv /\ ZoneShape /\ CtlInv /\ Apart /\ ZoneInv

(* The inductive invariant of the zones. *)
THEOREM ZonesInOrder == S2sSpec => []S2sInv
<1>1. S2sInit => S2sInv
  BY Zenon, PlanInit, ZoneInit DEF S2sInv
<1>2. S2sInv /\ [S2sNext]_s2sVars => S2sInv'
  <2> SUFFICES ASSUME S2sInv, S2sNext \/ UNCHANGED s2sVars PROVE S2sInv'
    BY Zenon
  <2> QED
    BY Zenon, PlanStep, ZoneShapeStep, CtlStep, ApartStep, ZoneStep DEF S2sInv
<1> QED
  BY <1>1, <1>2, PTL DEF S2sSpec

(* ZoneInUseKept for every set of tunnels and every bound: TeardownWgS2sZone *)
(* and the rollback of a set-up that failed take neither the zone nor the    *)
(* policies of another tunnel.                                               *)
THEOREM ZoneInUseIsKept == S2sSpec => []ZoneInUseKept
<1>1. S2sInv => ZoneInUseKept
  <2> SUFFICES ASSUME S2sInv, orderly, NEW t \in Tunnel, zoneOf[t] # NoZone
               PROVE  /\ zoneOf[t].zone \in zones
                      /\ zoneOf[t].pols = {<<zoneOf[t].zone, 1>>, <<zoneOf[t].zone, 2>>}
                      /\ zoneOf[t].pols \subseteq zonePols
    BY Zenon DEF ZoneInUseKept
  <2>1. EntryIs(t)
    BY Zenon DEF S2sInv, ZoneInv, ZoneOk
  <2> QED
    BY Zenon, <2>1 DEF EntryIs, own
<1> QED
  BY <1>1, ZonesInOrder, PTL

-----------------------------------------------------------------------------
(* What a deleted tunnel leaves *)

\* A zone is some tunnel's, or is being set up or taken down.
Holding == {"policies", "save", "dropPolicies", "dropZone"}
Held(z) ==
    \/ \E t \in Tunnel : zoneOf[t].zone = z
    \/ \E w \in Worker : phase[w] \in Holding /\ hand[w].zone = z
LeftOk ==
    /\ \A z \in zones : Held(z)
    /\ \A w \in Worker : phase[w] = "dropZone" => zonePols = {}
LeftInv == orderly /\ "left" \notin odd => LeftOk

(* A call's step with nothing left behind leaves no zone. *)
LEMMA LeftWork ==
    ASSUME PlanInv, ZoneShape, CtlInv, Apart, ~clash, ZoneOk, LeftOk, NEW w \in Worker, workStep(w),
           "old" \notin odd', "unsaved" \notin odd', "left" \notin odd'
    PROVE  LeftOk'
<1>1. Workers
  BY Zenon DEF PlanInv, Workers
<1>2. plan[w] # <<>> /\ Alone(w)
  BY Zenon, <1>1, WorkMoves DEF Moves
<1>3. task(w).op # "check" => tn(w) \in Tunnel
  BY Zenon, <1>2, TaskIs DEF Worker
<1>4. ASSUME task(w).op \in {"zone", "unzone"}, NEW v \in Worker \ {w}
      PROVE  phase[v] \notin ZonePhases /\ phase'[v] \notin ZonePhases
  <2>1. onZones(w)
    BY Zenon, <1>2, <1>4 DEF onZones
  <2>2. ~onZones(v)
    BY <2>1 DEF Apart, Worker
  <2>3. phase[v] \notin ZonePhases
    BY Zenon, <2>2, AtZones
  <2> QED
    BY Zenon, <1>2, <2>3 DEF Alone
<1>5. ASSUME unsaved PROVE FALSE
  BY <1>5 DEF unsaved, refused
<1>6. ASSUME refused({"left"}) PROVE FALSE
  BY <1>6 DEF refused
<1>7. ASSUME NEW q, become(w, q) PROVE phase'[w] = "start"
  BY Zenon, <1>1, <1>7, BecomeIs
<1>8. Holding \subseteq ZonePhases /\ "dropZone" \in ZonePhases /\ "start" \notin ZonePhases
  BY DEF Holding, ZonePhases
<1>9. OneZone /\ (\A t \in Tunnel : EntryIs(t)) /\ (\A v \in Worker : HandIs(v)) /\ \A z \in zones : Held(z)
  BY Zenon DEF ZoneOk, LeftOk
\* Zone work that ends.
<1>10. ASSUME task(w).op \in {"zone", "unzone"}, phase'[w] = "start", \A z \in zones' : Held(z)'
       PROVE  LeftOk'
  <2>1. \A v \in Worker : phase'[v] # "dropZone"
    BY Zenon, <1>4, <1>8, <1>10
  <2> QED
    BY Zenon, <1>10, <2>1 DEF LeftOk
\* Zone work that has its zone in hand.
<1>11. ASSUME task(w).op \in {"zone", "unzone"}, phase'[w] \in Holding, \A z \in zones' : hand'[w].zone = z,
              phase'[w] = "dropZone" => zonePols' = {}
       PROVE  LeftOk'
  <2>1. \A v \in Worker : phase'[v] = "dropZone" => zonePols' = {}
    BY Zenon, <1>4, <1>8, <1>11
  <2>2. \A z \in zones' : Held(z)'
    BY Zenon, <1>11 DEF Held
  <2> QED
    BY Zenon, <2>1, <2>2 DEF LeftOk
<1>12. CASE Zoneless(w) /\ UNCHANGED <<zones, zonePols>>
  <2>1. ASSUME NEW z \in zones PROVE Held(z)'
    <3>1. CASE \E t \in Tunnel : zoneOf[t].zone = z
      BY Zenon, <1>12, <3>1 DEF Held, Zoneless
    <3>2. CASE \E v \in Worker : phase[v] \in Holding /\ hand[v].zone = z
      <4>1. PICK v \in Worker : phase[v] \in Holding /\ hand[v].zone = z
        BY Zenon, <3>2
      <4>2. v # w
        BY Zenon, <1>8, <1>12, <4>1 DEF Zoneless
      <4>3. phase'[v] = phase[v] /\ hand'[v] = hand[v]
        BY Zenon, <1>2, <4>2 DEF Alone
      <4> QED
        BY Zenon, <4>1, <4>3 DEF Held
    <3> QED
      BY Zenon, <1>9, <3>1, <3>2 DEF Held
  <2>2. ASSUME NEW v \in Worker, phase'[v] = "dropZone" PROVE zonePols' = {}
    <3>1. v # w
      BY Zenon, <1>8, <1>12, <2>2 DEF Zoneless
    <3>2. phase[v] = "dropZone"
      BY Zenon, <1>2, <2>2, <3>1 DEF Alone
    <3> QED
      BY Zenon, <1>12, <3>2 DEF LeftOk
  <2> QED
    BY Zenon, <1>12, <2>1, <2>2 DEF LeftOk
<1>13. ASSUME task(w).op \in {"zone", "unzone"}, phase[w] \notin Holding, NEW z \in zones
       PROVE  \E t \in Tunnel : zoneOf[t].zone = z
  BY Zenon, <1>4, <1>8, <1>9, <1>13 DEF Held
<1>14. CASE zoneJoin(w)
  <2>1. PICK u \in Tunnel : /\ zoneOf[u].zone = task(w).x /\ task(w).x # 0
                            /\ zoneOf' = [zoneOf EXCEPT ![tn(w)] = zoneOf[u]]
    BY Zenon, <1>14 DEF zoneJoin
  <2>2. task(w).op = "zone" /\ tn(w) \in Tunnel /\ UNCHANGED zones
    BY <1>3, <1>14 DEF zoneJoin, doing, controllerSide
  <2>3. phase'[w] = "start"
    BY Zenon, <1>7, <1>14 DEF zoneJoin, done
  <2>4. zoneOf[u] # NoZone
    BY Zenon, <2>1, EntryFacts
  <2>5. zoneOf[u].zone \in zones
    BY Zenon, <1>9, <2>4 DEF EntryIs
  <2>6. zoneOf'[tn(w)].zone = zoneOf[u].zone
    BY <2>1, <2>2 DEF ZoneShape
  <2>7. \A z \in zones' : Held(z)'
    BY ZenonT(60), <1>9, <2>2, <2>5, <2>6 DEF Held, OneZone
  <2> QED
    BY Zenon, <1>10, <2>2, <2>3, <2>7
<1>15. CASE zoneByName(w)
  <2>1. UNCHANGED <<zoneOf, zones>> /\ task(w).op = "zone" /\ phase[w] = "start"
    BY Zenon, <1>15 DEF zoneByName, doing, manifestSide
  <2>2. phase[w] \notin Holding
    BY Zenon, <1>8, <2>1
  <2>3. \A z \in zones' : Held(z)'
    BY Zenon, <1>13, <2>1, <2>2 DEF Held
  <2>4. phase'[w] \in {"start", "create", "policies"}
    BY Zenon, <1>1, <1>7, <1>15, FollowIs DEF zoneByName, done
  <2>5. phase'[w] # "dropZone"
    BY <2>4
  <2>6. \A v \in Worker : phase'[v] # "dropZone"
    BY Zenon, <1>4, <1>8, <2>1, <2>5
  <2> QED
    BY Zenon, <2>3, <2>6 DEF LeftOk
<1>16. CASE CreateZone(w)
  <2>1. UNCHANGED zoneOf /\ task(w).op = "zone" /\ phase[w] = "create"
    BY Zenon, <1>16 DEF CreateZone, doing, manifestSide
  <2>2. zones = {}
    BY Zenon, <1>9, <2>1 DEF HandIs
  <2>3. CASE done(w) /\ UNCHANGED zones
    BY Zenon, <1>7, <1>10, <2>1, <2>2, <2>3 DEF done
  <2>4. CASE zones' = zones \cup {lastZone'} /\ follow(w, "policies", inZone(lastZone', {}))
    <3>1. phase'[w] = "policies" /\ hand'[w] = inZone(lastZone', {})
      BY Zenon, <1>1, <2>4, FollowIs
    <3>2. hand'[w].zone = lastZone'
      BY <3>1 DEF inZone
    <3>3. \A z \in zones' : hand'[w].zone = z
      BY Zenon, <2>2, <2>4, <3>2
    <3>4. phase'[w] \in Holding /\ phase'[w] # "dropZone"
      BY <3>1 DEF Holding
    <3> QED
      BY Zenon, <1>11, <2>1, <3>3, <3>4
  <2> QED
    BY Zenon, <1>16, <2>3, <2>4 DEF CreateZone
<1>17. CASE EnsurePolicies(w)
  <2>1. UNCHANGED zones /\ task(w).op = "zone" /\ phase[w] = "policies"
    BY <1>17 DEF EnsurePolicies, doing
  <2>2. PICK z : z = hand[w].zone
    BY Zenon
  <2>3. z \in zones
    BY ZenonT(30), <1>9, <2>1, <2>2 DEF HandIs
  <2>4. \E pols : follow(w, "save", inZone(z, pols))
    BY <1>6, <1>17, <2>2, <2>3 DEF EnsurePolicies
  <2>5. PICK pols : follow(w, "save", inZone(z, pols))
    BY Zenon, <2>4
  <2>6. phase'[w] = "save" /\ hand'[w] = inZone(z, pols)
    BY Zenon, <1>1, <2>5, FollowIs
  <2>7. hand'[w].zone = z /\ phase'[w] \in Holding /\ phase'[w] # "dropZone"
    BY <2>6 DEF inZone, Holding
  <2>8. \A y \in zones' : hand'[w].zone = y
    BY Zenon, <1>9, <2>1, <2>3, <2>7 DEF OneZone
  <2> QED
    BY Zenon, <1>11, <2>1, <2>7, <2>8
<1>18. CASE saveZone(w)
  <2>1. PICK h : h = hand[w]
    BY Zenon
  <2>2. PICK e : e = [h EXCEPT !.prefix = discovered(h.zone)]
    BY Zenon
  <2>3. e.zone = h.zone
    <3>1. IsEntry(h)
      BY Zenon, <2>1 DEF ZoneShape
    <3> QED
      BY <2>2, <3>1, EntryFacts
  <2>4. phase[w] = "save" /\ task(w).op = "zone" /\ tn(w) \in Tunnel
    BY <1>3, <1>18 DEF saveZone, doing
  <2>5. zoneOf' = [zoneOf EXCEPT ![tn(w)] = e] /\ UNCHANGED zones
    BY Zenon, <1>18, <2>1, <2>2 DEF saveZone, controllerSide
  <2>6. phase'[w] = "start"
    BY Zenon, <1>5, <1>7, <1>18 DEF saveZone, done
  <2>7. h.zone \in zones
    BY ZenonT(30), <1>9, <2>1, <2>4 DEF HandIs
  <2>8. zoneOf'[tn(w)].zone = h.zone
    BY <2>3, <2>4, <2>5 DEF ZoneShape
  <2>9. \A z \in zones' : Held(z)'
    BY ZenonT(60), <1>9, <2>4, <2>5, <2>7, <2>8 DEF Held, OneZone
  <2> QED
    BY Zenon, <1>10, <2>4, <2>6, <2>9
<1>19. CASE teardownEntry(w)
  <2>1. task(w).op = "unzone" /\ tn(w) \in Tunnel /\ phase[w] = "start"
    BY <1>3, <1>19 DEF teardownEntry, doing
  <2>2. zoneOf' = [zoneOf EXCEPT ![tn(w)] = NoZone] /\ UNCHANGED zones
    BY Zenon, <1>19 DEF teardownEntry, controllerSide
  <2>3. PICK zm : zm = zoneOf[tn(w)]
    BY Zenon
  <2>4. PICK last \in BOOLEAN : last <=> (zm.zone # 0 /\ \A u \in Tunnel : zoneOf'[u].zone # zm.zone)
    BY Zenon
  <2>5. \/ ~last /\ done(w)
        \/ last /\ follow(w, "dropPolicies", zm)
        \/ odd' = odd \cup {"left"}
    BY Zenon, <1>19, <2>3, <2>4 DEF teardownEntry
  <2>6. odd' # odd \cup {"left"}
    BY Zenon
  <2>7. phase[w] \notin Holding
    BY Zenon, <1>8, <2>1
  <2>8. CASE ~last /\ done(w)
    <3>1. ASSUME NEW z \in zones PROVE \E t \in Tunnel : zoneOf'[t].zone = z
      <4>1. PICK t \in Tunnel : zoneOf[t].zone = z
        BY Zenon, <1>13, <2>1, <2>7
      <4>2. CASE t = tn(w)
        <5>1. zm.zone = z /\ z # 0
          BY SMTT(60), <2>3, <4>1, <4>2 DEF CtlInv
        <5> QED
          BY Zenon, <2>4, <2>8, <5>1
      <4>3. CASE t # tn(w)
        BY <2>2, <4>1, <4>3 DEF ZoneShape
      <4> QED
        BY Zenon, <4>2, <4>3
    <3>2. \A z \in zones' : Held(z)'
      BY Zenon, <2>2, <3>1 DEF Held
    <3>3. phase'[w] = "start"
      BY Zenon, <1>7, <2>8 DEF done
    <3> QED
      BY Zenon, <1>10, <2>1, <3>2, <3>3
  <2>9. CASE last /\ follow(w, "dropPolicies", zm)
    <3>1. zm # NoZone
      BY Zenon, <2>4, <2>9, EntryFacts
    <3>2. zm.zone \in zones
      BY Zenon, <1>9, <2>1, <2>3, <3>1 DEF EntryIs
    <3>3. phase'[w] = "dropPolicies" /\ hand'[w] = zm
      BY ZenonT(60), <1>1, <2>9, FollowIs
    <3>4. phase'[w] \in Holding /\ phase'[w] # "dropZone"
      BY <3>3 DEF Holding
    <3>5. \A z \in zones' : hand'[w].zone = z
      BY Zenon, <1>9, <2>2, <3>2, <3>3 DEF OneZone
    <3> QED
      BY Zenon, <1>11, <2>1, <3>4, <3>5
  <2> QED
    BY Zenon, <2>5, <2>6, <2>8, <2>9
<1>20. CASE dropPolicies(w)
  <2>1. phase[w] = "dropPolicies" /\ task(w).op \in {"zone", "unzone"}
    BY Zenon, <1>20 DEF dropPolicies, dropping, doing
  <2>2. UNCHANGED zones /\ follow(w, "dropZone", hand[w]) /\ zonePols' = zonePols \ hand[w].pols
    BY ZenonT(60), <1>6, <1>20 DEF dropPolicies
  <2>3. hand[w].zone \in zones /\ hand[w].pols = own(hand[w].zone)
    BY <1>9, <2>1 DEF HandIs
  <2>4. phase'[w] = "dropZone" /\ hand'[w] = hand[w]
    BY Zenon, <1>1, <2>2, FollowIs
  <2>5. zonePols' = {}
    BY <1>9, <2>2, <2>3 DEF CtlInv, OneZone, own
  <2>6. phase'[w] \in Holding
    BY <2>4 DEF Holding
  <2>7. \A z \in zones' : hand'[w].zone = z
    BY Zenon, <1>9, <2>2, <2>3, <2>4 DEF OneZone
  <2> QED
    BY Zenon, <1>11, <2>1, <2>5, <2>6, <2>7
<1>21. CASE dropZone(w)
  <2>1. task(w).op \in {"zone", "unzone"} /\ phase[w] = "dropZone"
    BY Zenon, <1>21 DEF dropZone, dropping, doing
  <2>2. hand[w].zone \in zones /\ zonePols = {}
    BY <1>9, <2>1 DEF HandIs, LeftOk
  <2>3. zones' = zones \ {hand[w].zone} /\ phase'[w] = "start"
    BY Zenon, <1>6, <1>7, <1>21, <2>2 DEF dropZone, done
  <2>4. zones' = {}
    BY Zenon, <1>9, <2>2, <2>3 DEF OneZone
  <2> QED
    BY Zenon, <1>10, <2>1, <2>3, <2>4
<1>22. CASE rediscoverAndSaveWgS2s(w)
  <2>1. tn(w) \in Tunnel /\ phase[w] = "start"
    BY <1>3, <1>22 DEF rediscoverAndSaveWgS2s, doing
  <2>2. UNCHANGED <<zones, zonePols>>
    BY Zenon, <1>22 DEF rediscoverAndSaveWgS2s, controllerSide
  <2>3. phase'[w] = "rules"
    BY Zenon, <1>1, <1>22, FollowIs DEF rediscoverAndSaveWgS2s
  <2>4. phase'[w] \notin ZonePhases /\ phase[w] \notin ZonePhases
    BY <2>1, <2>3 DEF ZonePhases
  <2>5. ASSUME NEW t \in Tunnel PROVE zoneOf'[t].zone = zoneOf[t].zone
    <3>1. CASE UNCHANGED zoneOf
      BY Zenon, <3>1
    <3>2. CASE zoneOf' = [zoneOf EXCEPT ![tn(w)].prefix = zoneOf[tn(w)].zone]
      <4>1. PICK e : e = [zoneOf[tn(w)] EXCEPT !.prefix = zoneOf[tn(w)].zone]
        BY Zenon
      <4>2. e.zone = zoneOf[tn(w)].zone
        BY Zenon, <2>1, <4>1, EntryFacts DEF ZoneShape
      <4>3. zoneOf'[t] = IF t = tn(w) THEN e ELSE zoneOf[t]
        BY <3>2, <4>1 DEF ZoneShape
      <4> QED
        BY Zenon, <4>2, <4>3
    <3> QED
      BY Zenon, <1>22, <3>1, <3>2 DEF rediscoverAndSaveWgS2s, manifestSide
  <2>6. ASSUME NEW z \in zones PROVE Held(z)'
    <3>1. CASE \E t \in Tunnel : zoneOf[t].zone = z
      BY Zenon, <2>5, <3>1 DEF Held
    <3>2. CASE \E v \in Worker : phase[v] \in Holding /\ hand[v].zone = z
      <4>1. PICK v \in Worker : phase[v] \in Holding /\ hand[v].zone = z
        BY Zenon, <3>2
      <4>2. v # w
        BY Zenon, <1>8, <2>4, <4>1
      <4>3. phase'[v] = phase[v] /\ hand'[v] = hand[v]
        BY Zenon, <1>2, <4>2 DEF Alone
      <4> QED
        BY Zenon, <4>1, <4>3 DEF Held
    <3> QED
      BY Zenon, <1>9, <3>1, <3>2 DEF Held
  <2>7. ASSUME NEW v \in Worker, phase'[v] = "dropZone" PROVE zonePols' = {}
    <3>1. v # w
      BY Zenon, <1>8, <2>4, <2>7
    <3>2. phase[v] = "dropZone"
      BY Zenon, <1>2, <2>7, <3>1 DEF Alone
    <3> QED
      BY Zenon, <2>2, <3>2 DEF LeftOk
  <2> QED
    BY Zenon, <2>2, <2>6, <2>7 DEF LeftOk
<1> QED
  BY Zenon, <1>1, <1>12, <1>14, <1>15, <1>16, <1>17, <1>18, <1>19, <1>20, <1>21, <1>22, ZonelessSteps, CtlSame

(* No step leaves a zone behind. *)
LEMMA LeftStep ==
    ASSUME S2sInv, LeftInv, S2sNext \/ UNCHANGED s2sVars
    PROVE  LeftInv'
<1> SUFFICES ASSUME orderly', "left" \notin odd' PROVE LeftOk'
  BY Zenon DEF LeftInv
<1>1. PlanInv /\ ZoneShape /\ CtlInv /\ Apart /\ ZoneInv
  BY Zenon DEF S2sInv
<1>2. orderly /\ ~clash /\ "old" \notin odd' /\ "unsaved" \notin odd'
  BY Zenon, <1>1, OrderlyBefore
<1>3. "left" \notin odd
  BY Zenon, OddGrows
<1>4. ZoneOk /\ LeftOk
  BY Zenon, <1>1, <1>2, <1>3 DEF ZoneInv, LeftInv
<1>5. CASE work
  BY Zenon, <1>1, <1>2, <1>4, <1>5, LeftWork DEF work
<1>6. CASE ~work /\ ~initWgS2s
  <2>1. UNCHANGED <<zones, zonePols>>
    BY Zenon, <1>6, CtlIdle
  <2>2. Replans
    BY Zenon, <1>1, <1>6, OtherSteps
  <2>3. Holding \subseteq ZonePhases /\ "dropZone" \in ZonePhases
    BY DEF Holding, ZonePhases
  <2>4. ASSUME NEW w \in Worker, phase[w] \in ZonePhases PROVE phase'[w] = phase[w] /\ hand'[w] = hand[w]
    BY Zenon, <2>2, <2>4 DEF Replans
  <2>5. \A z \in zones : Held(z)'
    BY ZenonT(60), <1>4, <2>2, <2>3, <2>4 DEF LeftOk, Held, Replans
  <2>6. ASSUME NEW w \in Worker, phase'[w] = "dropZone" PROVE zonePols' = {}
    <3>1. phase[w] = "dropZone"
      BY Zenon, <2>2, <2>3, <2>6 DEF Replans
    <3> QED
      BY Zenon, <1>4, <2>1, <3>1 DEF LeftOk
  <2> QED
    BY Zenon, <2>1, <2>5, <2>6 DEF LeftOk
<1>7. CASE initWgS2s
  <2>1. refused(IF plan["user"] \o plan["watcher"] # <<>> THEN {"left"} ELSE {})
    BY Zenon, <1>7 DEF initWgS2s
  <2>2. plan["user"] \o plan["watcher"] = <<>>
    BY Zenon, <2>1 DEF refused
  <2>3. PICK p, q : p = plan["user"] /\ q = plan["watcher"]
    BY Zenon
  <2>4. IsSeq(p) /\ IsSeq(q)
    BY Zenon, <1>1, <2>3 DEF PlanInv, OkUser, OkWatcher
  <2>5. p = <<>> /\ q = <<>>
    BY <2>2, <2>3, <2>4 DEF IsSeq
  <2>6. phase["user"] = "start" /\ phase["watcher"] = "start"
    BY ZenonT(60), <1>1, <2>3, <2>5 DEF PlanInv, Worker
  <2>7. \A w \in Worker : phase[w] \notin Holding
    BY <2>6 DEF Worker, Holding
  <2>8. /\ zoneOf' = zoneOf /\ UNCHANGED <<zones, zonePols>>
        /\ phase' = [w \in Worker |-> "start"]
    BY Zenon, <1>4, <1>7 DEF initWgS2s, ZoneOk
  <2>9. \A z \in zones : Held(z)'
    BY Zenon, <1>4, <2>7, <2>8 DEF LeftOk, Held
  <2>10. \A w \in Worker : phase'[w] # "dropZone"
    BY <2>8
  <2> QED
    BY Zenon, <2>8, <2>9, <2>10 DEF LeftOk
<1> QED
  BY Zenon, <1>5, <1>6, <1>7 DEF work

(* At first a zone is there for the tunnels that are up. *)
LEMMA LeftInit ==
    ASSUME S2sInit
    PROVE  LeftInv
<1>1. PICK T \in SUBSET Tunnel :
         LET some(x) == IF T = {} THEN {} ELSE x
             mine == [zone |-> 1, prefix |-> 1, pols |-> {<<1, 1>>, <<1, 2>>}]
         IN  /\ zoneOf = [t \in Tunnel |-> IF t \in T THEN mine ELSE NoZone]
             /\ zones = some({1})
  BY Zenon DEF S2sInit
<1>2. \A z \in zones : \E t \in Tunnel : zoneOf[t].zone = z
  BY <1>1
<1>3. phase = [w \in Worker |-> "start"]
  BY Zenon DEF S2sInit
<1>4. \A w \in Worker : phase[w] # "dropZone"
  BY <1>3
<1> QED
  BY Zenon, <1>2, <1>4 DEF LeftInv, LeftOk, Held

(* NoZoneLeft for every set of tunnels and every bound: with no call refused *)
(* on the way, DeleteTunnel and a failed set-up leave neither a zone nor a   *)
(* policy that no tunnel of the manifest has.                                *)
THEOREM NoZoneIsLeft == S2sSpec => []NoZoneLeft
<1>1. S2sInit => LeftInv
  BY Zenon, LeftInit
<1>2. S2sInv /\ LeftInv /\ [S2sNext]_s2sVars => LeftInv'
  <2> SUFFICES ASSUME S2sInv, LeftInv, S2sNext \/ UNCHANGED s2sVars PROVE LeftInv'
    BY Zenon
  <2> QED
    BY Zenon, LeftStep
<1>3. S2sInv /\ LeftInv => NoZoneLeft
  <2> SUFFICES ASSUME S2sInv, LeftInv, orderly, "left" \notin odd, atRest,
                      NEW z \in zones \cup {p[1] : p \in zonePols}
               PROVE  \E t \in Tunnel : zoneOf[t].zone = z
    BY Zenon DEF NoZoneLeft
  <2>1. z \in zones
    BY DEF S2sInv, CtlInv
  <2>2. Held(z)
    BY Zenon, <2>1 DEF LeftInv, LeftOk
  <2>3. \A w \in Worker : phase[w] = "start"
    BY DEF S2sInv, PlanInv, atRest, Worker
  <2>4. \A w \in Worker : phase[w] \notin Holding
    BY <2>3 DEF Holding
  <2> QED
    BY Zenon, <2>2, <2>4 DEF Held
<1> QED
  BY <1>1, <1>2, <1>3, ZonesInOrder, PTL DEF S2sSpec

-----------------------------------------------------------------------------
(* What a tunnel that is down has on the device *)

IsTunnel(u) == \E x, y, z : u = [state |-> x, cidr |-> y, port |-> z]

DeviceShape ==
    /\ DOMAIN tunnels = Tunnel /\ \A t \in Tunnel : IsTunnel(tunnels[t])
    /\ DOMAIN rules = Tunnel /\ DOMAIN wan = Tunnel

\* The request under way still has a call to do for the tunnel.
pending(op, t) == \E c \in Range(plan["user"]) : c.op = op /\ c.t = t

\* Nothing is set up for a tunnel that is down; what it has is about to go.
SetUpForUp ==
    \A w \in Worker : \A c \in Range(plan[w]) : c.op \in {"fw", "open"} =>
        tunnels[c.t].state = "up" /\ (c.op = "open" => c.x = tunnels[c.t].port)
ShutFor(t) ==
    tunnels[t].state # "up" \/ pending("wgDelete", t) =>
        (rules[t] = noRules \/ pending("unfw", t)) /\ (wan[t] = 0 \/ pending("close", t))
PortOf(t) == wan[t] \in {0, tunnels[t].port} \/ pending("close", t)
ClosedOk == SetUpForUp /\ \A t \in Tunnel : ShutFor(t) /\ PortOf(t)
ClosedInv == ~clash /\ odd \cap {"left", "revived"} = {} => ClosedOk

(* The calls a step of a call takes away or adds. *)
LEMMA CallsMove ==
    ASSUME PlanInv, NEW w \in Worker, workStep(w)
    PROVE  /\ \A t : pending("wgDelete", t)' => pending("wgDelete", t)
           /\ \A op \in {"unfw", "close"}, t \in Tunnel : pending(op, t) =>
                 \/ pending(op, t)'
                 \/ w = "user" /\ task(w).op = op /\ tn(w) = t
                 \/ w = "user" /\ task(w).op = "wgDelete"
           /\ \A v \in Worker : \A c \in Range(plan'[v]) : c.op \in {"fw", "open"} =>
                 \/ c \in Range(plan[v])
                 \/ \E t \in Tunnel : tunnels[t].state = "up" /\ c = todo("fw", t, tunnels[t].cidr)
                 \/ /\ w = "user" /\ task(w).op = "wgDelete"
                    /\ \/ c = todo("fw", tn(w), tunnels[tn(w)].cidr)
                       \/ c = todo("open", tn(w), tunnels[tn(w)].port)
<1>1. Moves(w)
  BY Zenon, WorkMoves DEF PlanInv, Workers
<1>2. plan[w] # <<>> /\ Alone(w)
  BY Zenon, <1>1 DEF Moves
<1>3. PICK q, r, n : q = plan[w] /\ r = Tail(q) /\ n = plan'[w]
  BY Zenon
<1>4. /\ IsSeq(q)
      /\ w = "user" => task(w).op \in UserOps /\ tn(w) \in Tunnel
      /\ w = "watcher" => task(w).op \in WatcherOps
  BY Zenon, <1>2, <1>3, TaskIs
<1>5. IsSeq(r) /\ Range(q) = {task(w)} \cup Range(r)
  BY Zenon, <1>2, <1>3, <1>4, TailIs DEF task
<1>6. \A op, x, t : todo(op, t, x).op = op /\ todo(op, t, x).t = t
  BY DEF todo
\* What is kept of the plan, and what is new in it.
<1>7. /\ \A c \in Range(q) : c = task(w) \/ c \in Range(n) \/ c.op = "reconcile" \/ task(w).op \in {"wgDelete", "check"}
      /\ \A c \in Range(n) :
            \/ c \in Range(q) \/ c.op \in {"unset", "zone"}
            \/ \E t \in Tunnel : tunnels[t].state = "up" /\ c = todo("fw", t, tunnels[t].cidr)
            \/ /\ task(w).op = "wgDelete"
               /\ \/ c = todo("fw", tn(w), tunnels[tn(w)].cidr)
                  \/ c = todo("open", tn(w), tunnels[tn(w)].port)
  <2>1. CASE GoesOn(w)
    BY Zenon, <1>3, <2>1 DEF GoesOn
  <2>2. CASE Ends(w)
    BY Zenon, <1>3, <1>5, <2>2 DEF Ends
  <2>3. CASE Skips(w)
    <3>1. n \in afterReconcile(r)
      BY Zenon, <1>3, <2>3 DEF Skips
    <3>2. Range(n) \subseteq Range(r) /\ \A c \in Range(r) : c.op # "reconcile" => c \in Range(n)
      BY Zenon, <1>5, <3>1, SkipIs
    <3> QED
      BY Zenon, <1>5, <3>2
  <2>4. ASSUME NEW c, c.op \in {"unset", "zone"}, n = <<c>> \o r
        PROVE  /\ \A d \in Range(q) : d = task(w) \/ d \in Range(n)
               /\ \A d \in Range(n) : d \in Range(q) \/ d.op \in {"unset", "zone"}
    <3>1. PICK d : d = <<c>>
      BY Zenon
    <3>2. IsSeq(d) /\ Range(d) = {c}
      BY ZenonT(60), <3>1, FewIs
    <3>3. Range(d \o r) = Range(d) \cup Range(r)
      BY <1>5, <3>2, ConcatIs
    <3> QED
      BY Zenon, <1>5, <2>4, <3>1, <3>2, <3>3
  <2>5. CASE \E x : n = <<todo("unset", tn(w), x)>> \o r \/ n = <<todo("zone", tn(w), x)>> \o r
    <3>1. PICK x : n = <<todo("unset", tn(w), x)>> \o r \/ n = <<todo("zone", tn(w), x)>> \o r
      BY Zenon, <2>5
    <3>2. PICK a, b : a = todo("unset", tn(w), x) /\ b = todo("zone", tn(w), x)
      BY Zenon
    <3>3. a.op \in {"unset", "zone"} /\ b.op \in {"unset", "zone"}
      BY <1>6, <3>2
    <3>4. /\ \A d \in Range(q) : d = task(w) \/ d \in Range(n)
          /\ \A d \in Range(n) : d \in Range(q) \/ d.op \in {"unset", "zone"}
      <4>1. CASE n = <<a>> \o r
        BY <2>4, <3>3, <4>1
      <4>2. CASE n = <<b>> \o r
        BY <2>4, <3>3, <4>2
      <4> QED
        BY Zenon, <3>1, <3>2, <4>1, <4>2
    <3> QED
      BY Zenon, <3>4
  <2>6. CASE /\ task(w).op = "wgDelete"
             /\ n = <<todo("fw", tn(w), tunnels[tn(w)].cidr), todo("open", tn(w), tunnels[tn(w)].port)>>
    <3>1. PICK a, b : a = todo("fw", tn(w), tunnels[tn(w)].cidr) /\ b = todo("open", tn(w), tunnels[tn(w)].port)
      BY Zenon
    <3>2. Range(n) = {a, b}
      BY Zenon, <2>6, <3>1, FewIs
    <3> QED
      BY Zenon, <2>6, <3>1, <3>2
  <2>7. CASE task(w).op = "check" /\ n \in setUpAll({t \in Tunnel : ~present(t)})
    <3>1. PICK T : T = {t \in Tunnel : ~present(t)}
      BY Zenon
    <3>2. T \subseteq Tunnel /\ n \in setUpAll(T)
      BY Zenon, <2>7, <3>1
    <3>3. \A c \in Range(n) : \E t \in Tunnel : tunnels[t].state = "up" /\ c = todo("fw", t, tunnels[t].cidr)
      BY Zenon, <3>2, SetUpIs
    <3> QED
      BY Zenon, <2>7, <3>3
  <2> QED
    BY ZenonT(60), <1>1, <1>3, <2>1, <2>2, <2>3, <2>5, <2>6, <2>7 DEF Moves, Replaces
<1>8. CASE w = "watcher"
  <2>1. plan'["user"] = plan["user"]
    BY <1>2, <1>8 DEF Alone, Worker
  <2>2. task(w).op # "wgDelete"
    BY <1>4, <1>8 DEF WatcherOps
  <2>3. ASSUME NEW v \in Worker, NEW c \in Range(plan'[v]), c.op \in {"fw", "open"}
        PROVE  \/ c \in Range(plan[v])
               \/ \E t \in Tunnel : tunnels[t].state = "up" /\ c = todo("fw", t, tunnels[t].cidr)
    <3>1. CASE v = w
      <4>1. c.op \notin {"unset", "zone"}
        BY <2>3
      <4> QED
        BY Zenon, <1>3, <1>7, <2>2, <2>3, <3>1, <4>1
    <3>2. CASE v # w
      BY Zenon, <1>2, <2>3, <3>2 DEF Alone
    <3> QED
      BY Zenon, <3>1, <3>2
  <2> QED
    BY Zenon, <2>1, <2>3 DEF pending
<1>9. CASE w = "user"
  <2>1. \A c \in Range(q) : c.op \in UserOps
    BY Zenon, <1>3, <1>9 DEF PlanInv, OkUser
  <2>2. \A c \in Range(q) : c.op # "reconcile"
    BY <2>1 DEF UserOps
  <2>3. task(w).op # "check"
    BY <1>4, <1>9 DEF UserOps
  <2>4. ASSUME NEW t, pending("wgDelete", t)' PROVE pending("wgDelete", t)
    <3>1. PICK c \in Range(n) : c.op = "wgDelete" /\ c.t = t
      BY ZenonT(60), <1>3, <1>9, <2>4 DEF pending
    <3>2. c \in Range(q)
      BY <1>6, <1>7, <3>1
    <3> QED
      BY Zenon, <1>3, <1>9, <3>1, <3>2 DEF pending
  <2>5. ASSUME NEW op \in {"unfw", "close"}, NEW t \in Tunnel, pending(op, t)
        PROVE  pending(op, t)' \/ (task(w).op = op /\ tn(w) = t) \/ task(w).op = "wgDelete"
    <3>1. PICK c \in Range(q) : c.op = op /\ c.t = t
      BY Zenon, <1>3, <1>9, <2>5 DEF pending
    <3>2. c = task(w) \/ c \in Range(n) \/ task(w).op = "wgDelete"
      BY Zenon, <1>7, <2>2, <2>3
    <3> QED
      BY Zenon, <1>3, <1>9, <3>1, <3>2 DEF pending, tn
  <2>6. ASSUME NEW v \in Worker, NEW c \in Range(plan'[v]), c.op \in {"fw", "open"}
        PROVE  \/ c \in Range(plan[v])
               \/ \E t \in Tunnel : tunnels[t].state = "up" /\ c = todo("fw", t, tunnels[t].cidr)
               \/ /\ task(w).op = "wgDelete"
                  /\ \/ c = todo("fw", tn(w), tunnels[tn(w)].cidr)
                     \/ c = todo("open", tn(w), tunnels[tn(w)].port)
    <3>1. CASE v = w
      <4>1. c.op \notin {"unset", "zone"}
        BY <2>6
      <4> QED
        BY Zenon, <1>3, <1>7, <2>6, <3>1, <4>1
    <3>2. CASE v # w
      BY Zenon, <1>2, <2>6, <3>2 DEF Alone
    <3> QED
      BY Zenon, <3>1, <3>2
  <2> QED
    BY Zenon, <1>9, <2>4, <2>5, <2>6
<1> QED
  BY Zenon, <1>8, <1>9 DEF Worker

(* A tunnel, and one with another state. *)
LEMMA TunnelFacts ==
    /\ IsTunnel(NoTunnel) /\ NoTunnel.state = "none" /\ NoTunnel.port = 0
    /\ \A t : IsTunnel(newTunnel(t)) /\ newTunnel(t).state = "up"
    /\ \A u, x : IsTunnel(u) => /\ IsTunnel([u EXCEPT !.state = x])
                                /\ [u EXCEPT !.state = x].state = x
                                /\ [u EXCEPT !.state = x].port = u.port
<1>1. IsTunnel(NoTunnel) /\ NoTunnel.state = "none" /\ NoTunnel.port = 0
  <2>1. IsTunnel(NoTunnel)
    BY Zenon DEF IsTunnel, NoTunnel
  <2> QED
    BY <2>1 DEF NoTunnel
<1>2. \A t : IsTunnel(newTunnel(t)) /\ newTunnel(t).state = "up"
  <2>1. \A t : IsTunnel(newTunnel(t))
    BY Zenon DEF IsTunnel, newTunnel
  <2> QED
    BY <2>1 DEF newTunnel
<1>3. ASSUME NEW u, IsTunnel(u), NEW x
      PROVE  /\ IsTunnel([u EXCEPT !.state = x])
             /\ [u EXCEPT !.state = x].state = x
             /\ [u EXCEPT !.state = x].port = u.port
  <2>1. PICK a, b, c : u = [state |-> a, cidr |-> b, port |-> c]
    BY Zenon, <1>3 DEF IsTunnel
  <2>2. [u EXCEPT !.state = x] = [state |-> x, cidr |-> b, port |-> c]
    BY <2>1
  <2>3. IsTunnel([u EXCEPT !.state = x])
    BY Zenon, <2>2 DEF IsTunnel
  <2> QED
    BY <2>1, <2>2, <2>3
<1> QED
  BY Zenon, <1>1, <1>2, <1>3

\* What a request does: its calls are its tunnel's, it sets up what is up,
\* and it closes what it takes down, deletes or moves to another port.
Requested(t, u, q) ==
    /\ IsTunnel(u)
    /\ \A c \in Range(q) : /\ c.t = t
                           /\ c.op \in {"fw", "open"} => u.state = "up"
                           /\ c.op = "open" => c.x = u.port
    /\ u.state # "up" \/ (\E c \in Range(q) : c.op = "wgDelete") =>
          \/ tunnels[t].state # "up" /\ \A c \in Range(q) : c.op # "wgDelete"
          \/ (\E c \in Range(q) : c.op = "unfw") /\ (\E c \in Range(q) : c.op = "close")
    /\ tunnels[t].state # "up" \/ u.port = tunnels[t].port \/ \E c \in Range(q) : c.op = "close"
    /\ Range(q) = {} => u.state = tunnels[t].state

(* Every request does. *)
LEMMA RequestKinds ==
    ASSUME DeviceShape, NEW t \in Tunnel,
           \/ CreateTunnel(t) \/ UpdateTunnel(t) \/ DeleteTunnel(t)
           \/ EnableTunnel(t) \/ DisableTunnel(t) \/ SetupZoneForTunnel(t)
    PROVE  \E u, q : request(t, u, q) /\ Requested(t, u, q)
<1>1. \A op, x : todo(op, t, x).op = op /\ todo(op, t, x).t = t /\ todo(op, t, x).x = x
  BY DEF todo
<1>2. PICK old : old = tunnels[t]
  BY Zenon
<1>3. IsTunnel(old)
  BY Zenon, <1>2 DEF DeviceShape
<1>4. CASE CreateTunnel(t)
  <2>1. PICK u : u = newTunnel(t)
    BY Zenon
  <2>2. IsTunnel(u) /\ u.state = "up" /\ tunnels[t].state # "up"
    BY ZenonT(30), <1>4, <2>1, TunnelFacts DEF CreateTunnel
  <2>3. ASSUME NEW q, NEW z, Range(q) \subseteq {todo("zone", t, z), todo("fw", t, u.cidr), todo("open", t, u.port)},
               Range(q) # {}
        PROVE  Requested(t, u, q)
    BY <1>1, <2>2, <2>3 DEF Requested
  <2>4. CASE request(t, u, setUp(t, u))
    <3>1. PICK q : q = setUp(t, u)
      BY Zenon
    <3>2. Range(q) = {todo("fw", t, u.cidr), todo("open", t, u.port)}
      BY ZenonT(60), <3>1, SetUpCalls
    <3>3. Requested(t, u, q)
      BY <2>3, <3>2
    <3> QED
      BY Zenon, <2>4, <3>1, <3>3
  <2>5. CASE \E z : request(t, u, <<todo("zone", t, z)>> \o setUp(t, u))
    <3>1. PICK z : request(t, u, <<todo("zone", t, z)>> \o setUp(t, u))
      BY Zenon, <2>5
    <3>2. PICK c, q : c = todo("zone", t, z) /\ q = <<c>> \o setUp(t, u)
      BY Zenon
    <3>3. Range(q) = {c, todo("fw", t, u.cidr), todo("open", t, u.port)}
      BY Zenon, <3>2, SetUpCalls
    <3>4. Requested(t, u, q)
      BY ZenonT(30), <2>3, <3>2, <3>3
    <3> QED
      BY Zenon, <3>1, <3>2, <3>4
  <2> QED
    BY Zenon, <1>4, <2>1, <2>4, <2>5 DEF CreateTunnel
<1>5. CASE EnableTunnel(t)
  <2>1. PICK u, q : u = [old EXCEPT !.state = "up"] /\ q = setUp(t, u)
    BY Zenon
  <2>2. IsTunnel(u) /\ u.state = "up" /\ u.port = old.port
    BY <1>3, <2>1, TunnelFacts
  <2>3. Range(q) = {todo("fw", t, u.cidr), todo("open", t, u.port)}
    BY ZenonT(60), <2>1, SetUpCalls
  <2>4. Requested(t, u, q)
    BY <1>1, <1>2, <2>2, <2>3 DEF Requested
  <2> QED
    BY Zenon, <1>2, <1>5, <2>1, <2>4 DEF EnableTunnel
<1>6. CASE DisableTunnel(t)
  <2>1. PICK u, q : u = [old EXCEPT !.state = "down"] /\ q = tearDown(t)
    BY Zenon
  <2>2. IsTunnel(u) /\ u.state = "down" /\ u.port = old.port
    BY <1>3, <2>1, TunnelFacts
  <2>3. Range(q) = {todo("unfw", t, old.cidr), todo("close", t, 0)}
    BY ZenonT(60), <1>2, <2>1, DeletionCalls
  <2>4. Requested(t, u, q)
    BY <1>1, <1>2, <2>2, <2>3 DEF Requested
  <2> QED
    BY Zenon, <1>2, <1>6, <2>1, <2>4 DEF DisableTunnel
<1>7. CASE DeleteTunnel(t)
  <2>1. PICK q : q = deletion(t)
    BY Zenon
  <2>2. Range(q) = {todo("unfw", t, old.cidr), todo("close", t, 0), todo("unzone", t, 0), todo("wgDelete", t, 0)}
    BY ZenonT(60), <1>2, <2>1, DeletionCalls
  <2>3. Requested(t, old, q)
    BY <1>1, <1>2, <1>3, <2>2 DEF Requested
  <2> QED
    BY Zenon, <1>2, <1>7, <2>1, <2>3 DEF DeleteTunnel, deletion
<1>8. CASE SetupZoneForTunnel(t)
  <2>1. PICK z : request(t, tunnels[t], <<todo("zone", t, z)>>)
    BY Zenon, <1>8 DEF SetupZoneForTunnel, zoneCall
  <2>2. PICK c, q : c = todo("zone", t, z) /\ q = <<c>>
    BY Zenon
  <2>3. Range(q) = {c}
    BY ZenonT(60), <2>2, FewIs
  <2>4. Requested(t, old, q)
    BY <1>1, <1>2, <1>3, <2>2, <2>3 DEF Requested
  <2> QED
    BY Zenon, <1>2, <2>1, <2>2, <2>4
<1>9. CASE UpdateTunnel(t)
  <2>1. PICK c \in Config, given \in BOOLEAN :
           LET before == tunnels[t]
               new == [before EXCEPT !.port = c.port, !.cidr = IF given THEN c.cidr ELSE @]
               networks == <<todo("unset", t, before.cidr), todo("fw", t, new.cidr)>>
               port == <<todo("close", t, 0), todo("open", t, new.port)>>
           IN  request(t, new, IF before.state # "up" THEN <<>> ELSE
                  (IF given THEN networks ELSE <<>>) \o (IF new.port # before.port THEN port ELSE <<>>))
    BY Zenon, <1>9 DEF UpdateTunnel
  <2>2. PICK new : new = [old EXCEPT !.port = c.port, !.cidr = IF given THEN c.cidr ELSE @]
    BY Zenon
  <2>3. request(t, new, IF old.state # "up" THEN <<>> ELSE updating(t, old, new, given))
    BY SMTT(60), <1>2, <2>1, <2>2 DEF updating
  <2>4. IsTunnel(new) /\ new.state = old.state
    <3>1. PICK x, y, z : old = [state |-> x, cidr |-> y, port |-> z]
      BY Zenon, <1>3 DEF IsTunnel
    <3>2. PICK i : i = IF given THEN c.cidr ELSE y
      BY Zenon
    <3>3. new = [state |-> x, cidr |-> i, port |-> c.port]
      BY ZenonT(60), <2>2, <3>1, <3>2
    <3>4. IsTunnel(new)
      BY Zenon, <3>3 DEF IsTunnel
    <3> QED
      BY <3>1, <3>3, <3>4
  <2>5. CASE old.state # "up"
    <3>1. PICK e : e = <<>>
      BY Zenon
    <3>2. Range(e) = {}
      BY ZenonT(60), <3>1, FewIs
    <3>3. Requested(t, new, e)
      BY <1>2, <2>4, <2>5, <3>2 DEF Requested
    <3> QED
      BY Zenon, <2>3, <2>5, <3>1, <3>3
  <2>6. CASE old.state = "up"
    <3>1. PICK q : q = updating(t, old, new, given)
      BY Zenon
    <3>2. Range(q) = (IF given THEN {todo("unset", t, old.cidr), todo("fw", t, new.cidr)} ELSE {})
                     \cup (IF new.port # old.port THEN {todo("close", t, 0), todo("open", t, new.port)} ELSE {})
      BY SMTT(60), <3>1, UpdateCalls
    <3>3. Requested(t, new, q)
      BY <1>1, <1>2, <2>4, <2>6, <3>2 DEF Requested
    <3> QED
      BY Zenon, <2>3, <2>6, <3>1, <3>3
  <2> QED
    BY Zenon, <2>5, <2>6
<1> QED
  BY ZenonT(60), <1>4, <1>5, <1>6, <1>7, <1>8, <1>9

\* What a step of a call does to the device, with nothing left behind.
DeviceMoves(w) ==
    \/ /\ task(w).op \notin {"unfw", "close", "wgDelete"} /\ UNCHANGED <<tunnels, rules>>
       /\ \A t \in Tunnel : wan'[t] = wan[t]
    \/ task(w).op = "fw" /\ UNCHANGED <<tunnels, wan>> /\ \E r : rules' = [rules EXCEPT ![tn(w)] = r]
    \/ task(w).op = "unfw" /\ UNCHANGED <<tunnels, wan>> /\ rules' = [rules EXCEPT ![tn(w)] = noRules]
    \/ /\ task(w).op = "open" /\ UNCHANGED <<tunnels, rules>>
       /\ \A t \in Tunnel : wan'[t] = IF t = tn(w) THEN task(w).x ELSE wan[t]
    \/ /\ task(w).op = "close" /\ UNCHANGED <<tunnels, rules>>
       /\ \A t \in Tunnel : wan'[t] = IF t = tn(w) THEN 0 ELSE wan[t]
    \/ /\ task(w).op = "wgDelete" /\ UNCHANGED <<rules, wan>>
       /\ \/ tunnels' = [tunnels EXCEPT ![tn(w)] = NoTunnel] /\ plan'[w] = Tail(plan[w])
          \/ tunnels' = tunnels /\ tunnels[tn(w)].state = "up"

(* It does one of these. *)
LEMMA DeviceWork ==
    ASSUME PlanInv, DeviceShape, NEW w \in Worker, workStep(w),
           "left" \notin odd', "revived" \notin odd'
    PROVE  DeviceMoves(w)
<1>1. Workers
  BY Zenon DEF PlanInv, Workers
<1>2. plan[w] # <<>>
  BY Zenon, <1>1, WorkMoves DEF Moves
<1>3. /\ w = "user" => task(w).op \in UserOps /\ tn(w) \in Tunnel
      /\ w = "watcher" => task(w).op \in WatcherOps
  BY ZenonT(60), <1>2, TaskIs
<1>4. CASE zoneRefused(w) \/ zoneJoin(w) \/ zoneByName(w) \/ CreateZone(w) \/ EnsurePolicies(w) \/ saveZone(w)
  <2>1. task(w).op = "zone" /\ UNCHANGED <<tunnels, rules, wan>>
    BY SMTT(60), <1>4 DEF zoneRefused, zoneJoin, zoneByName, CreateZone, EnsurePolicies, saveZone, doing, stays, deviceSide
  <2> QED
    BY <2>1 DEF DeviceMoves
<1>5. CASE teardownEntry(w) \/ dropPolicies(w) \/ dropZone(w)
  <2>1. task(w).op \in {"zone", "unzone"} /\ UNCHANGED <<tunnels, rules, wan>>
    BY ZenonT(30), <1>5 DEF teardownEntry, dropPolicies, dropZone, dropping, doing, stays, deviceSide
  <2> QED
    BY ZenonT(60), <2>1 DEF DeviceMoves
<1>6. CASE rediscoverAndSaveWgS2s(w) \/ ensureZoneSubnets(w) \/ RemoveWgS2sIPSetEntries(w)
  <2>1. task(w).op \in {"fw", "unset"} /\ UNCHANGED <<tunnels, rules, wan>>
    BY ZenonT(30), <1>6 DEF rediscoverAndSaveWgS2s, ensureZoneSubnets, RemoveWgS2sIPSetEntries, doing, stays, deviceSide
  <2> QED
    BY <2>1 DEF DeviceMoves
<1>7. CASE ReconcileZones(w) \/ checkRules(w)
  <2>1. task(w).op \in {"reconcile", "check"} /\ UNCHANGED <<tunnels, rules, wan>>
    BY ZenonT(60), <1>7 DEF ReconcileZones, checkRules, doing, stays, deviceSide
  <2> QED
    BY ZenonT(60), <2>1 DEF DeviceMoves
<1>8. CASE addInterfaceRules(w)
  <2>1. task(w).op = "fw" /\ UNCHANGED <<tunnels, wan>>
    BY Zenon, <1>8 DEF addInterfaceRules, doing, stays
  <2>2. \E C, p : rules' = [rules EXCEPT ![tn(w)] = [c \in Chain |-> IF c \in C THEN p ELSE @[c]]]
    BY ZenonT(60), <1>8 DEF addInterfaceRules
  <2>3. \E r : rules' = [rules EXCEPT ![tn(w)] = r]
    <3>1. PICK C, p : rules' = [rules EXCEPT ![tn(w)] = [c \in Chain |-> IF c \in C THEN p ELSE @[c]]]
      BY Zenon, <2>2
    <3>2. PICK r : r = [c \in Chain |-> IF c \in C THEN p ELSE rules[tn(w)][c]]
      BY Zenon
    <3>3. rules' = [rules EXCEPT ![tn(w)] = r]
      BY <3>1, <3>2
    <3> QED
      BY Zenon, <3>3
  <2> QED
    BY Zenon, <2>1, <2>3 DEF DeviceMoves
<1>9. CASE undoRules(w)
  <2>1. task(w).op = "fw" /\ UNCHANGED <<tunnels, wan>>
    BY Zenon, <1>9 DEF undoRules, doing, stays
  <2>2. \E r : rules' = [rules EXCEPT ![tn(w)] = r]
    BY Zenon, <1>9 DEF undoRules, rulesGo
  <2> QED
    BY Zenon, <2>1, <2>2 DEF DeviceMoves
<1>10. CASE removeInterfaceRules(w)
  <2>1. task(w).op = "unfw" /\ UNCHANGED <<tunnels, wan>>
    BY Zenon, <1>10 DEF removeInterfaceRules, doing, stays
  <2>2. ~refused({"left"})
    BY Zenon DEF refused
  <2>3. rules' = [rules EXCEPT ![tn(w)] = noRules]
    BY Zenon, <1>10, <2>2 DEF removeInterfaceRules, rulesGo
  <2> QED
    BY Zenon, <2>1, <2>3 DEF DeviceMoves
<1>11. CASE openPort(w)
  <2>1. task(w).op = "open" /\ UNCHANGED <<tunnels, rules>>
    BY Zenon, <1>11 DEF openPort, doing, stays
  <2>2. \/ \A t \in Tunnel : wan'[t] = wan[t]
        \/ \A t \in Tunnel : wan'[t] = IF t = tn(w) THEN task(w).x ELSE wan[t]
    <3>1. CASE wan' = wan
      BY ZenonT(60), <3>1
    <3>2. CASE wan' = [wan EXCEPT ![tn(w)] = IF keyed /\ @ = 0 THEN task(w).x ELSE @]
      BY <3>2 DEF DeviceShape
    <3> QED
      BY Zenon, <1>11, <3>1, <3>2 DEF openPort
  <2>3. task(w).op \notin {"unfw", "close", "wgDelete"}
    BY <2>1
  <2> QED
    BY Zenon, <2>1, <2>2, <2>3 DEF DeviceMoves
<1>12. CASE closePort(w)
  <2>1. task(w).op = "close" /\ UNCHANGED <<tunnels, rules>>
    BY Zenon, <1>12 DEF closePort, doing, stays
  <2>2. ~refused({"left"})
    BY Zenon DEF refused
  <2>3. wan' = [wan EXCEPT ![tn(w)] = 0] \/ (wan[tn(w)] = 0 /\ wan' = wan)
    BY Zenon, <1>12, <2>2 DEF closePort
  <2>4. \A t \in Tunnel : wan'[t] = IF t = tn(w) THEN 0 ELSE wan[t]
    BY <2>3 DEF DeviceShape
  <2> QED
    BY Zenon, <2>1, <2>4 DEF DeviceMoves
<1>13. CASE wgDelete(w)
  <2>1. task(w).op = "wgDelete" /\ UNCHANGED <<rules, wan>>
    BY Zenon, <1>13 DEF wgDelete, doing, deviceSide
  <2>2. ~refused({"revived"})
    BY Zenon DEF refused
  <2>3. \/ tunnels' = [tunnels EXCEPT ![tn(w)] = NoTunnel] /\ done(w)
        \/ tunnels' = tunnels /\ tunnels[tn(w)].state = "up"
    BY Zenon, <1>13, <2>2 DEF wgDelete
  <2>4. done(w) => plan'[w] = Tail(plan[w])
    BY Zenon, <1>1, BecomeIs DEF done
  <2> QED
    BY Zenon, <2>1, <2>3, <2>4 DEF DeviceMoves
<1> QED
  BY ZenonT(60), <1>4, <1>5, <1>6, <1>7, <1>8, <1>9, <1>10, <1>11, <1>12, <1>13 DEF workStep

(* The tunnel whose firewall is being set up is not being deleted. *)
LEMMA NotDeleted ==
    ASSUME PlanInv, Apart, ~clash, NEW w \in Worker, plan[w] # <<>>, task(w).op \in {"fw", "open"}
    PROVE  tn(w) \in Tunnel /\ ~pending("wgDelete", tn(w))
<1>1. PICK q : q = plan[w]
  BY Zenon
<1>2. /\ IsSeq(q) /\ task(w) \in Range(q)
      /\ w = "user" => tn(w) \in Tunnel
      /\ w = "watcher" => (task(w).op # "check" => tn(w) \in Tunnel)
  BY Zenon, <1>1, TaskIs
<1>3. tn(w) \in Tunnel
  BY <1>2 DEF Worker
<1>4. CASE w = "user"
  <2>1. OkUser(q)
    BY Zenon, <1>1, <1>4 DEF PlanInv
  <2>2. \A c \in Range(q) : \E i \in 1..Len(q) : c = q[i]
    BY <1>2 DEF IsSeq, Range
  <2>3. PICK i \in 1..Len(q) : task(w) = q[i]
    BY Zenon, <1>2, <2>2
  <2>4. \A j \in 1..Len(q) : q[j].op # "wgDelete"
    BY Zenon, <2>1, <2>3 DEF OkUser
  <2>5. \A c \in Range(q) : c.op # "wgDelete"
    BY Zenon, <2>2, <2>4
  <2> QED
    BY Zenon, <1>1, <1>3, <1>4, <2>5 DEF pending
<1>5. CASE w = "watcher"
  <2>1. tn(w) \in workingOn("watcher")
    BY ZenonT(30), <1>1, <1>2, <1>3, <1>5 DEF workingOn, tn
  <2>2. \A c \in Range(plan["user"]) : c.t # tn(w)
    BY <1>3, <2>1 DEF Apart, workingOn
  <2> QED
    BY Zenon, <1>3, <2>2 DEF pending
<1> QED
  BY Zenon, <1>4, <1>5 DEF Worker

(* A call's step with nothing left behind keeps a tunnel that is down shut. *)
LEMMA ClosedWork ==
    ASSUME PlanInv, DeviceShape, Apart, ~clash, ClosedOk, NEW w \in Worker, workStep(w),
           "left" \notin odd', "revived" \notin odd'
    PROVE  ClosedOk'
<1>1. plan[w] # <<>> /\ Alone(w)
  BY Zenon, WorkMoves DEF Moves, PlanInv, Workers
<1>2. /\ IsSeq(plan[w]) /\ task(w) \in Range(plan[w])
      /\ w = "user" => task(w).op \in UserOps /\ tn(w) \in Tunnel
      /\ w = "watcher" => task(w).op \in WatcherOps
  BY Zenon, <1>1, TaskIs
<1>3. task(w).op \in {"unfw", "close", "wgDelete", "open"} => w = "user" /\ tn(w) \in Tunnel
  BY <1>2 DEF Worker, WatcherOps
<1>4. DeviceMoves(w)
  BY Zenon, DeviceWork
<1>5. \A t : pending("wgDelete", t)' => pending("wgDelete", t)
  BY Zenon, CallsMove
<1>6. ASSUME NEW op \in {"unfw", "close"}, NEW t \in Tunnel, pending(op, t),
             task(w).op # "wgDelete", task(w).op # op \/ tn(w) # t
      PROVE  pending(op, t)'
  BY Zenon, <1>6, CallsMove
<1>7. ASSUME task(w).op # "wgDelete", tunnels' = tunnels PROVE SetUpForUp'
  <2> SUFFICES ASSUME NEW v \in Worker, NEW c \in Range(plan'[v]), c.op \in {"fw", "open"}
               PROVE  tunnels[c.t].state = "up" /\ (c.op = "open" => c.x = tunnels[c.t].port)
    BY Zenon, <1>7 DEF SetUpForUp
  <2>1. \/ c \in Range(plan[v])
        \/ \E t \in Tunnel : tunnels[t].state = "up" /\ c = todo("fw", t, tunnels[t].cidr)
    BY ZenonT(60), <1>7, CallsMove
  <2>2. CASE c \in Range(plan[v])
    BY Zenon, <2>2 DEF ClosedOk, SetUpForUp
  <2>3. CASE \E t \in Tunnel : tunnels[t].state = "up" /\ c = todo("fw", t, tunnels[t].cidr)
    BY <2>3 DEF todo
  <2> QED
    BY Zenon, <2>1, <2>2, <2>3
<1>8. CASE /\ task(w).op \notin {"unfw", "close", "wgDelete"} /\ UNCHANGED <<tunnels, rules>>
           /\ \A t \in Tunnel : wan'[t] = wan[t]
  <2>1. ASSUME NEW t \in Tunnel PROVE ShutFor(t)' /\ PortOf(t)'
    <3>1. ShutFor(t) /\ PortOf(t)
      BY Zenon DEF ClosedOk
    <3>2. (pending("unfw", t) => pending("unfw", t)') /\ (pending("close", t) => pending("close", t)')
      BY ZenonT(30), <1>6, <1>8
    <3> QED
      BY Zenon, <1>5, <1>8, <3>1, <3>2 DEF ShutFor, PortOf
  <2>2. SetUpForUp'
    BY ZenonT(30), <1>7, <1>8
  <2> QED
    BY Zenon, <2>1, <2>2 DEF ClosedOk
<1>9. CASE task(w).op = "fw" /\ UNCHANGED <<tunnels, wan>> /\ \E r : rules' = [rules EXCEPT ![tn(w)] = r]
  <2>1. tn(w) \in Tunnel /\ ~pending("wgDelete", tn(w))
    BY ZenonT(30), <1>1, <1>9, NotDeleted
  <2>2. tunnels[tn(w)].state = "up"
    BY <1>2, <1>9 DEF ClosedOk, SetUpForUp, tn
  <2>3. ASSUME NEW t \in Tunnel PROVE ShutFor(t)' /\ PortOf(t)'
    <3>1. ShutFor(t) /\ PortOf(t)
      BY Zenon DEF ClosedOk
    <3>2. (pending("unfw", t) => pending("unfw", t)') /\ (pending("close", t) => pending("close", t)')
      BY <1>6, <1>9
    <3>3. PortOf(t)'
      BY Zenon, <1>9, <3>1, <3>2 DEF PortOf
    <3>4. CASE t = tn(w)
      BY Zenon, <1>5, <1>9, <2>1, <2>2, <3>3, <3>4 DEF ShutFor
    <3>5. CASE t # tn(w)
      <4>1. rules'[t] = rules[t]
        BY ZenonT(30), <1>9, <2>1, <3>5 DEF DeviceShape
      <4> QED
        BY Zenon, <1>5, <1>9, <3>1, <3>2, <3>3, <4>1 DEF ShutFor
    <3> QED
      BY Zenon, <3>4, <3>5
  <2>4. SetUpForUp'
    BY <1>7, <1>9
  <2> QED
    BY Zenon, <2>3, <2>4 DEF ClosedOk
<1>10. CASE /\ task(w).op = "unfw" /\ UNCHANGED <<tunnels, wan>>
            /\ rules' = [rules EXCEPT ![tn(w)] = noRules]
  <2>1. ASSUME NEW t \in Tunnel PROVE ShutFor(t)' /\ PortOf(t)'
    <3>1. ShutFor(t) /\ PortOf(t)
      BY Zenon DEF ClosedOk
    <3>2. pending("close", t) => pending("close", t)'
      BY ZenonT(30), <1>6, <1>10
    <3>3. rules'[t] = noRules \/ (rules'[t] = rules[t] /\ (pending("unfw", t) => pending("unfw", t)'))
      BY <1>6, <1>10 DEF DeviceShape
    <3> QED
      BY Zenon, <1>5, <1>10, <3>1, <3>2, <3>3 DEF ShutFor, PortOf
  <2>2. SetUpForUp'
    BY ZenonT(30), <1>7, <1>10
  <2> QED
    BY Zenon, <2>1, <2>2 DEF ClosedOk
<1>11. CASE /\ task(w).op = "open" /\ UNCHANGED <<tunnels, rules>>
            /\ \A t \in Tunnel : wan'[t] = IF t = tn(w) THEN task(w).x ELSE wan[t]
  <2>1. tn(w) \in Tunnel /\ ~pending("wgDelete", tn(w))
    BY ZenonT(60), <1>1, <1>11, NotDeleted
  <2>2. tunnels[tn(w)].state = "up" /\ task(w).x = tunnels[tn(w)].port
    BY ZenonT(60), <1>2, <1>11 DEF ClosedOk, SetUpForUp, tn
  <2>3. ASSUME NEW t \in Tunnel PROVE ShutFor(t)' /\ PortOf(t)'
    <3>1. ShutFor(t) /\ PortOf(t)
      BY Zenon DEF ClosedOk
    <3>2. (pending("unfw", t) => pending("unfw", t)') /\ (pending("close", t) => pending("close", t)')
      BY <1>6, <1>11
    <3>3. CASE t = tn(w)
      <4>1. wan'[t] = tunnels'[t].port
        BY Zenon, <1>11, <2>2, <3>3
      <4> QED
        BY Zenon, <1>5, <1>11, <2>1, <2>2, <3>3, <4>1 DEF ShutFor, PortOf
    <3>4. CASE t # tn(w)
      <4>1. wan'[t] = wan[t]
        BY Zenon, <1>11, <3>4
      <4> QED
        BY Zenon, <1>5, <1>11, <3>1, <3>2, <4>1 DEF ShutFor, PortOf
    <3> QED
      BY Zenon, <3>3, <3>4
  <2>4. SetUpForUp'
    BY ZenonT(30), <1>7, <1>11
  <2> QED
    BY Zenon, <2>3, <2>4 DEF ClosedOk
<1>12. CASE /\ task(w).op = "close" /\ UNCHANGED <<tunnels, rules>>
            /\ \A t \in Tunnel : wan'[t] = IF t = tn(w) THEN 0 ELSE wan[t]
  <2>1. ASSUME NEW t \in Tunnel PROVE ShutFor(t)' /\ PortOf(t)'
    <3>1. ShutFor(t) /\ PortOf(t)
      BY Zenon DEF ClosedOk
    <3>2. pending("unfw", t) => pending("unfw", t)'
      BY ZenonT(30), <1>6, <1>12
    <3>3. wan'[t] = 0 \/ (wan'[t] = wan[t] /\ (pending("close", t) => pending("close", t)'))
      BY ZenonT(30), <1>6, <1>12
    <3> QED
      BY Zenon, <1>5, <1>12, <3>1, <3>2, <3>3 DEF ShutFor, PortOf
  <2>2. SetUpForUp'
    BY ZenonT(30), <1>7, <1>12
  <2> QED
    BY Zenon, <2>1, <2>2 DEF ClosedOk
<1>13. CASE /\ task(w).op = "wgDelete" /\ UNCHANGED <<rules, wan>>
            /\ \/ tunnels' = [tunnels EXCEPT ![tn(w)] = NoTunnel] /\ plan'[w] = Tail(plan[w])
               \/ tunnels' = tunnels /\ tunnels[tn(w)].state = "up"
  <2>1. w = "user" /\ tn(w) \in Tunnel
    BY <1>3, <1>13
  <2>2. PICK q : q = plan["user"]
    BY Zenon
  \* The deletion is the last call of its plan.
  <2>3. Range(q) = {task(w)} /\ Range(Tail(q)) = {}
    <3>1. IsSeq(q) /\ OkUser(q) /\ q # <<>> /\ task(w) = Head(q)
      BY Zenon, <1>1, <1>2, <2>1, <2>2 DEF PlanInv, task
    <3>2. 1 \in 1..Len(q) /\ q[1] = task(w)
      BY <3>1 DEF IsSeq
    <3>3. Len(q) = 1
      BY Zenon, <1>13, <3>1, <3>2 DEF OkUser
    <3>4. PICK r : r = Tail(q)
      BY Zenon
    <3>5. IsSeq(r) /\ Range(q) = {task(w)} \cup Range(r) /\ Len(r) = Len(q) - 1
      BY Zenon, <3>1, <3>4, TailIs
    <3>6. r = <<>>
      BY <3>3, <3>5 DEF IsSeq
    <3>7. Range(r) = {}
      BY Zenon, <3>6, FewIs
    <3> QED
      BY Zenon, <3>4, <3>5, <3>7
  <2>4. \A t \in Tunnel : ~pending("unfw", t) /\ ~pending("close", t)
    BY <1>13, <2>2, <2>3 DEF pending
  <2>5. pending("wgDelete", tn(w))
    BY Zenon, <1>13, <2>2, <2>3 DEF pending, tn
  <2>6. rules[tn(w)] = noRules /\ wan[tn(w)] = 0
    BY Zenon, <2>1, <2>4, <2>5 DEF ClosedOk, ShutFor
  <2>7. ASSUME NEW t \in Tunnel PROVE ShutFor(t)' /\ PortOf(t)'
    <3>1. CASE t = tn(w)
      <4>1. rules'[t] = noRules /\ wan'[t] = 0
        BY Zenon, <1>13, <2>6, <3>1
      <4> QED
        BY Zenon, <4>1 DEF ShutFor, PortOf
    <3>2. CASE t # tn(w)
      <4>1. tunnels'[t] = tunnels[t]
        BY <1>13, <3>2 DEF DeviceShape
      <4>2. ShutFor(t) /\ PortOf(t)
        BY Zenon DEF ClosedOk
      <4> QED
        BY ZenonT(60), <1>5, <1>13, <2>4, <4>1, <4>2 DEF ShutFor, PortOf
    <3> QED
      BY Zenon, <3>1, <3>2
  <2>8. SetUpForUp'
    <3> SUFFICES ASSUME NEW v \in Worker, NEW c \in Range(plan'[v]), c.op \in {"fw", "open"}
                 PROVE  tunnels'[c.t].state = "up" /\ (c.op = "open" => c.x = tunnels'[c.t].port)
      BY Zenon DEF SetUpForUp
    <3>1. CASE tunnels' = [tunnels EXCEPT ![tn(w)] = NoTunnel] /\ plan'[w] = Tail(plan[w])
      <4>1. v = "watcher"
        BY ZenonT(60), <2>1, <2>2, <2>3, <3>1 DEF Worker
      <4>2. c \in Range(plan["watcher"])
        BY <1>1, <2>1, <4>1 DEF Alone, Worker
      <4>3. tn(w) \in workingOn("user")
        BY Zenon, <1>2, <2>1 DEF workingOn, tn
      <4>4. c.t # tn(w)
        BY ZenonT(30), <2>1, <4>2, <4>3 DEF Apart, workingOn
      <4>5. tunnels'[c.t] = tunnels[c.t]
        <5>1. c.t \in Tunnel
          BY Zenon, <4>2 DEF PlanInv, OkWatcher
        <5> QED
          BY <3>1, <4>4, <5>1 DEF DeviceShape
      <4> QED
        BY <4>1, <4>2, <4>5 DEF ClosedOk, SetUpForUp, Worker
    <3>2. CASE tunnels' = tunnels /\ tunnels[tn(w)].state = "up"
      <4>1. \/ c \in Range(plan[v])
            \/ \E t \in Tunnel : tunnels[t].state = "up" /\ c = todo("fw", t, tunnels[t].cidr)
            \/ c = todo("fw", tn(w), tunnels[tn(w)].cidr)
            \/ c = todo("open", tn(w), tunnels[tn(w)].port)
        BY ZenonT(60), CallsMove
      <4>2. CASE c \in Range(plan[v])
        BY Zenon, <3>2, <4>2 DEF ClosedOk, SetUpForUp
      <4>3. CASE c \notin Range(plan[v])
        BY <3>2, <4>1, <4>3 DEF todo
      <4> QED
        BY Zenon, <4>2, <4>3
    <3> QED
      BY Zenon, <1>13, <3>1, <3>2
  <2> QED
    BY Zenon, <2>7, <2>8 DEF ClosedOk
<1> QED
  BY Zenon, <1>4, <1>8, <1>9, <1>10, <1>11, <1>12, <1>13 DEF DeviceMoves

(* The device's state keeps its shape. *)
LEMMA DeviceShapeStep ==
    ASSUME PlanInv, DeviceShape, S2sNext \/ UNCHANGED s2sVars
    PROVE  DeviceShape'
<1>1. ASSUME UNCHANGED <<tunnels, rules, wan>> PROVE DeviceShape'
  BY Zenon, <1>1 DEF DeviceShape
<1>2. ASSUME NEW w \in Worker, workStep(w) PROVE DeviceShape'
  <2>1. CASE \/ zoneRefused(w) \/ zoneJoin(w) \/ zoneByName(w) \/ CreateZone(w) \/ EnsurePolicies(w)
             \/ saveZone(w) \/ teardownEntry(w) \/ dropPolicies(w) \/ dropZone(w)
    <3>1. UNCHANGED <<tunnels, rules, wan>>
      BY <2>1 DEF zoneRefused, zoneJoin, zoneByName, CreateZone, EnsurePolicies, saveZone, teardownEntry,
                  dropPolicies, dropZone, stays, deviceSide
    <3> QED
      BY Zenon, <1>1, <3>1
  <2>2. CASE \/ rediscoverAndSaveWgS2s(w) \/ ensureZoneSubnets(w) \/ RemoveWgS2sIPSetEntries(w)
             \/ ReconcileZones(w) \/ checkRules(w)
    <3>1. UNCHANGED <<tunnels, rules, wan>>
      BY <2>2 DEF rediscoverAndSaveWgS2s, ensureZoneSubnets, RemoveWgS2sIPSetEntries, ReconcileZones,
                  checkRules, stays, deviceSide
    <3> QED
      BY Zenon, <1>1, <3>1
  <2>3. CASE addInterfaceRules(w) \/ undoRules(w) \/ removeInterfaceRules(w)
    <3>1. UNCHANGED <<tunnels, wan>>
      BY Zenon, <2>3 DEF addInterfaceRules, undoRules, removeInterfaceRules, stays
    <3>2. DOMAIN rules' = DOMAIN rules
      BY <2>3 DEF addInterfaceRules, undoRules, removeInterfaceRules, rulesGo
    <3> QED
      BY Zenon, <3>1, <3>2 DEF DeviceShape
  <2>4. CASE openPort(w) \/ closePort(w)
    <3>1. UNCHANGED <<tunnels, rules>>
      BY Zenon, <2>4 DEF openPort, closePort, stays
    <3>2. DOMAIN wan' = DOMAIN wan
      BY <2>4 DEF openPort, closePort
    <3> QED
      BY Zenon, <3>1, <3>2 DEF DeviceShape
  <2>5. CASE wgDelete(w)
    <3>1. UNCHANGED <<rules, wan>>
      BY Zenon, <2>5 DEF wgDelete, deviceSide
    <3>2. tunnels' = tunnels \/ tunnels' = [tunnels EXCEPT ![tn(w)] = NoTunnel]
      BY Zenon, <2>5 DEF wgDelete
    <3>3. DOMAIN tunnels' = Tunnel /\ \A t \in Tunnel : tunnels'[t] \in {tunnels[t], NoTunnel}
      BY <3>2 DEF DeviceShape
    <3> QED
      BY Zenon, <3>1, <3>3, TunnelFacts DEF DeviceShape
  <2> QED
    BY Zenon, <1>2, <2>1, <2>2, <2>3, <2>4, <2>5 DEF workStep
<1>3. CASE restoreWgS2sRules
  BY Zenon, <1>1, <1>3 DEF restoreWgS2sRules, stays, deviceSide
<1>4. CASE userRequest
  <2>1. PICK t \in Tunnel : \E x, p : request(t, x, p) /\ IsTunnel(x)
    BY Zenon, <1>4, RequestKinds DEF userRequest, Requested
  <2>2. PICK u, q : request(t, u, q) /\ IsTunnel(u)
    BY Zenon, <2>1
  <2>3. tunnels' = [tunnels EXCEPT ![t] = u] /\ UNCHANGED <<rules, wan>>
    BY Zenon, <2>2 DEF request, deviceSide
  <2>4. DOMAIN tunnels' = Tunnel /\ \A s \in Tunnel : tunnels'[s] \in {tunnels[s], u}
    BY <2>3 DEF DeviceShape
  <2> QED
    BY Zenon, <2>2, <2>3, <2>4 DEF DeviceShape
<1>5. CASE chainsAppear \/ zoneListAges \/ keyChanges \/ healthChanges \/ initWgS2s
  BY Zenon, <1>1, <1>5 DEF chainsAppear, zoneListAges, keyChanges, healthChanges, initWgS2s, idle, deviceSide
<1>6. CASE provision
  <2>1. rules' = [t \in Tunnel |-> noRules] /\ UNCHANGED <<tunnels, wan>>
    BY Zenon, <1>6 DEF provision, idle
  <2> QED
    BY Zenon, <2>1 DEF DeviceShape
<1>7. CASE UNCHANGED s2sVars
  BY Zenon, <1>1, <1>7 DEF s2sVars
<1> QED
  BY Zenon, <1>2, <1>3, <1>4, <1>5, <1>6, <1>7 DEF S2sNext, S2sStep, work

(* A request leaves nothing open that it does not close. *)
LEMMA ClosedRequest ==
    ASSUME PlanInv, DeviceShape, Apart', ~clash', ClosedOk, NEW t \in Tunnel, NEW u, NEW q,
           request(t, u, q), Requested(t, u, q)
    PROVE  ClosedOk'
<1>1. Workers
  BY Zenon DEF PlanInv, Workers
<1>2. /\ plan["user"] = <<>> /\ tunnels' = [tunnels EXCEPT ![t] = u]
      /\ become("user", q) /\ UNCHANGED <<rules, wan>>
  BY Zenon DEF request, deviceSide
<1>3. plan'["user"] = q /\ plan'["watcher"] = plan["watcher"]
  BY ZenonT(60), <1>1, <1>2, BecomeIs DEF Alone, Worker
<1>4. tunnels'[t] = u /\ \A s \in Tunnel \ {t} : tunnels'[s] = tunnels[s]
  BY <1>2 DEF DeviceShape
<1>5. \A op, s : ~pending(op, s)
  BY ZenonT(60), <1>2, FewIs DEF pending
<1>6. \A op, s : pending(op, s)' <=> s = t /\ \E c \in Range(q) : c.op = op
  BY <1>3 DEF pending, Requested
<1>7. ASSUME NEW s \in Tunnel PROVE ShutFor(s)' /\ PortOf(s)'
  <2>1. /\ tunnels[s].state # "up" => rules[s] = noRules /\ wan[s] = 0
        /\ wan[s] \in {0, tunnels[s].port}
    BY Zenon, <1>5 DEF ClosedOk, ShutFor, PortOf
  <2>2. CASE s # t
    BY Zenon, <1>2, <1>4, <1>6, <2>1, <2>2 DEF ShutFor, PortOf
  <2>3. CASE s = t
    <3>1. PortOf(s)'
      BY ZenonT(60), <1>2, <1>4, <1>6, <2>1, <2>3 DEF PortOf, Requested
    <3>2. ASSUME u.state # "up" \/ pending("wgDelete", s)'
          PROVE  (rules[s] = noRules \/ pending("unfw", s)') /\ (wan[s] = 0 \/ pending("close", s)')
      BY ZenonT(30), <1>6, <2>1, <2>3, <3>2 DEF Requested
    <3> QED
      BY ZenonT(60), <1>2, <1>4, <2>3, <3>1, <3>2 DEF ShutFor
  <2> QED
    BY Zenon, <2>2, <2>3
<1>8. SetUpForUp'
  <2> SUFFICES ASSUME NEW w \in Worker, NEW c \in Range(plan'[w]), c.op \in {"fw", "open"}
               PROVE  tunnels'[c.t].state = "up" /\ (c.op = "open" => c.x = tunnels'[c.t].port)
    BY ZenonT(60) DEF SetUpForUp
  <2>1. CASE w = "user"
    BY <1>3, <1>4, <2>1 DEF Requested
  <2>2. CASE w = "watcher"
    <3>1. c \in Range(plan["watcher"])
      BY Zenon, <1>3, <2>2
    <3>2. c.t \in Tunnel /\ c.op # "open"
      <4>1. c.op \in WatcherOps /\ (c.op # "check" => c.t \in Tunnel)
        BY ZenonT(60), <3>1 DEF PlanInv, OkWatcher
      <4> QED
        BY <4>1 DEF WatcherOps
    <3>3. tunnels[c.t].state = "up"
      BY ZenonT(60), <2>2, <3>1 DEF ClosedOk, SetUpForUp
    <3>4. CASE c.t # t
      BY SMTT(60), <1>4, <3>2, <3>3, <3>4
    \* With calls of its own the request would meet the watcher.
    <3>5. CASE c.t = t
      <4>1. Range(q) = {}
        <5> SUFFICES ASSUME NEW d \in Range(q) PROVE FALSE
          BY ZenonT(60)
        <5>1. t \in workingOn("user")'
          BY ZenonT(30), <1>3 DEF workingOn, Requested
        <5>2. t \in workingOn("watcher")'
          BY <2>2, <3>5 DEF workingOn
        <5> QED
          BY <5>1, <5>2 DEF Apart
      <4> QED
        BY ZenonT(30), <1>4, <3>2, <3>3, <3>5, <4>1 DEF Requested
    <3> QED
      BY Zenon, <3>4, <3>5
  <2> QED
    BY Zenon, <2>1, <2>2 DEF Worker
<1> QED
  BY Zenon, <1>7, <1>8 DEF ClosedOk

(* Every step keeps a tunnel that is down shut. *)
LEMMA ClosedStep ==
    ASSUME S2sInv, DeviceShape, ClosedInv, S2sNext \/ UNCHANGED s2sVars
    PROVE  ClosedInv'
<1> SUFFICES ASSUME ~clash', odd' \cap {"left", "revived"} = {} PROVE ClosedOk'
  BY Zenon DEF ClosedInv
<1>1. PlanInv /\ Apart
  BY Zenon DEF S2sInv
<1>2. ~clash /\ Apart'
  BY Zenon, <1>1, ApartStep
<1>3. "left" \notin odd' /\ "revived" \notin odd'
  BY Zenon
<1>4. ClosedOk
  <2>1. odd \cap {"left", "revived"} = {}
    BY Zenon, <1>3, OddGrows
  <2> QED
    BY Zenon, <1>2, <2>1 DEF ClosedInv
<1>5. CASE work
  BY Zenon, <1>1, <1>2, <1>3, <1>4, <1>5, ClosedWork DEF work
<1>6. CASE userRequest
  <2>1. PICK t \in Tunnel : \E x, p : request(t, x, p) /\ Requested(t, x, p)
    BY Zenon, <1>6, RequestKinds DEF userRequest
  <2>2. PICK u, q : request(t, u, q) /\ Requested(t, u, q)
    BY Zenon, <2>1
  <2> QED
    BY Zenon, <1>1, <1>2, <1>4, <2>2, ClosedRequest
<1>7. CASE restoreWgS2sRules
  <2>1. UNCHANGED <<tunnels, rules, wan>>
    BY Zenon, <1>7 DEF restoreWgS2sRules, stays, deviceSide
  <2>2. PICK q \in reconcileAll : become("watcher", reconcileFirst(q) \o <<todo("check", 0, 0)>>)
    BY Zenon, <1>7 DEF restoreWgS2sRules
  <2>3. PICK c, p, n : c = todo("check", 0, 0) /\ p = <<c>> /\ n = reconcileFirst(q) \o p
    BY Zenon
  <2>4. c.op = "check"
    BY <2>3 DEF todo
  <2>5. IsSeq(p) /\ Range(p) = {c}
    BY Zenon, <2>3, FewIs
  <2>6. \A d \in Range(p) : d.op = "check" \/ (d.op = "fw" /\ d.t \in Tunnel)
    BY Zenon, <2>4, <2>5
  <2>7. Range(n) = Range(reconcileFirst(q)) \cup Range(p)
    BY Zenon, <2>3, <2>5, <2>6, ReconcileThen
  <2>8. \A d \in Range(reconcileFirst(q)) : d.op = "reconcile"
    BY ReconcileIs DEF todo
  <2>9. \A d \in Range(n) : d.op \notin {"fw", "open"}
    BY ZenonT(30), <2>4, <2>5, <2>7, <2>8
  <2>10. plan'["watcher"] = n /\ plan'["user"] = plan["user"]
    <3>1. become("watcher", n) /\ Workers /\ "watcher" \in Worker
      BY <1>1, <2>2, <2>3 DEF PlanInv, Workers, Worker
    <3>2. plan'["watcher"] = n /\ Alone("watcher")
      BY ZenonT(60), <3>1, BecomeIs
    <3> QED
      BY ZenonT(30), <3>2 DEF Alone, Worker
  <2>11. SetUpForUp'
    BY <1>4, <2>1, <2>9, <2>10 DEF ClosedOk, SetUpForUp, Worker
  <2>12. ASSUME NEW t \in Tunnel PROVE ShutFor(t)' /\ PortOf(t)'
    <3>1. ShutFor(t) /\ PortOf(t)
      BY Zenon, <1>4 DEF ClosedOk
    <3>2. \A op : pending(op, t)' <=> pending(op, t)
      BY Zenon, <2>10 DEF pending
    <3> QED
      BY Zenon, <2>1, <3>1, <3>2 DEF ShutFor, PortOf
  <2> QED
    BY Zenon, <2>11, <2>12 DEF ClosedOk
<1>8. CASE chainsAppear \/ zoneListAges \/ keyChanges \/ healthChanges \/ UNCHANGED s2sVars
  <2>1. UNCHANGED <<tunnels, rules, wan, plan>>
    BY Zenon, <1>8 DEF chainsAppear, zoneListAges, keyChanges, healthChanges, idle, s2sVars
  <2>2. SetUpForUp'
    BY Zenon, <1>4, <2>1 DEF ClosedOk, SetUpForUp
  <2>3. \A t \in Tunnel : ShutFor(t)' /\ PortOf(t)'
    BY Zenon, <1>4, <2>1 DEF ClosedOk, ShutFor, PortOf, pending
  <2> QED
    BY Zenon, <2>2, <2>3 DEF ClosedOk
<1>9. CASE provision
  <2>1. UNCHANGED <<tunnels, wan, plan>> /\ rules' = [t \in Tunnel |-> noRules]
    BY Zenon, <1>9 DEF provision, idle
  <2>2. \A t \in Tunnel : rules'[t] = noRules
    BY Zenon, <2>1
  <2>3. SetUpForUp'
    BY Zenon, <1>4, <2>1 DEF ClosedOk, SetUpForUp
  <2>4. \A t \in Tunnel : ShutFor(t)' /\ PortOf(t)'
    BY Zenon, <1>4, <2>1, <2>2 DEF ClosedOk, ShutFor, PortOf, pending
  <2> QED
    BY Zenon, <2>3, <2>4 DEF ClosedOk
\* A restart that cuts nothing off.
<1>10. CASE initWgS2s
  <2>1. refused(IF plan["user"] \o plan["watcher"] # <<>> THEN {"left"} ELSE {})
    BY Zenon, <1>10 DEF initWgS2s
  <2>2. plan["user"] \o plan["watcher"] = <<>>
    BY Zenon, <1>3, <2>1 DEF refused
  <2>3. PICK p, r : p = plan["user"] /\ r = plan["watcher"]
    BY Zenon
  <2>4. IsSeq(p) /\ IsSeq(r)
    BY Zenon, <1>1, <2>3 DEF PlanInv, OkUser, OkWatcher
  <2>5. p = <<>>
    BY <2>2, <2>3, <2>4 DEF IsSeq
  <2>6. UNCHANGED <<tunnels, rules, wan>>
    BY Zenon, <1>10 DEF initWgS2s, deviceSide
  <2>7. PICK q \in reconcileAll, all \in setUpAll(Tunnel) :
           plan' = [plan EXCEPT !["user"] = <<>>, !["watcher"] = reconcileFirst(q) \o all]
    BY Zenon, <1>10 DEF initWgS2s
  <2>8. PICK n : n = reconcileFirst(q) \o all
    BY Zenon
  <2>9. plan'["user"] = <<>> /\ plan'["watcher"] = n
    BY <1>1, <2>7, <2>8 DEF PlanInv, Worker
  <2>10. IsSeq(all) /\ \A c \in Range(all) : \E t \in Tunnel :
            tunnels[t].state = "up" /\ c = todo("fw", t, tunnels[t].cidr)
    BY ZenonT(60), SetUpIs
  <2>11. \A c \in Range(all) : c.op = "fw" /\ c.t \in Tunnel /\ tunnels[c.t].state = "up"
    BY <2>10 DEF todo
  <2>12. Range(n) = Range(reconcileFirst(q)) \cup Range(all)
    BY Zenon, <2>8, <2>10, <2>11, ReconcileThen
  <2>13. \A d \in Range(reconcileFirst(q)) : d.op = "reconcile"
    BY ReconcileIs DEF todo
  <2>14. Range(plan'["user"]) = {} /\ \A op, t : ~pending(op, t)
    BY Zenon, <2>3, <2>5, <2>9, FewIs DEF pending
  <2>15. SetUpForUp'
    BY ZenonT(30), <2>6, <2>9, <2>11, <2>12, <2>13, <2>14 DEF SetUpForUp, Worker
  <2>16. ASSUME NEW t \in Tunnel PROVE ShutFor(t)' /\ PortOf(t)'
    <3>1. ShutFor(t) /\ PortOf(t)
      BY Zenon, <1>4 DEF ClosedOk
    <3>2. \A op : ~pending(op, t)'
      BY Zenon, <2>14 DEF pending
    <3> QED
      BY Zenon, <2>6, <2>14, <3>1, <3>2 DEF ShutFor, PortOf
  <2> QED
    BY Zenon, <2>15, <2>16 DEF ClosedOk
<1> QED
  BY Zenon, <1>5, <1>6, <1>7, <1>8, <1>9, <1>10 DEF S2sNext, S2sStep

(* At first the tunnels that are up have what they need, the others nothing. *)
LEMMA ClosedInit ==
    ASSUME S2sInit
    PROVE  DeviceShape /\ ClosedInv
<1>1. PICK T \in SUBSET Tunnel :
         /\ tunnels = [t \in Tunnel |-> IF t \in T THEN newTunnel(t) ELSE NoTunnel]
         /\ rules = [t \in Tunnel |-> IF t \in T THEN [c \in Chain |-> 1] ELSE noRules]
         /\ wan = [t \in Tunnel |-> tunnels[t].port]
  BY Zenon DEF S2sInit
<1>2. \A t \in Tunnel : tunnels[t] = IF t \in T THEN newTunnel(t) ELSE NoTunnel
  BY Zenon, <1>1
<1>3. DeviceShape
  BY Zenon, <1>1, <1>2, TunnelFacts DEF DeviceShape
<1>4. plan = [w \in Worker |-> <<>>]
  BY Zenon DEF S2sInit
<1>5. \A w \in Worker : Range(plan[w]) = {}
  BY Zenon, <1>4, FewIs
<1>6. SetUpForUp
  BY Zenon, <1>5 DEF SetUpForUp
<1>7. ASSUME NEW t \in Tunnel PROVE ShutFor(t) /\ PortOf(t)
  <2>1. wan[t] = tunnels[t].port /\ (t \in T => tunnels[t].state = "up")
        /\ (t \notin T => rules[t] = noRules /\ tunnels[t].port = 0)
    BY ZenonT(30), <1>1, <1>2, TunnelFacts
  <2>2. ~pending("wgDelete", t)
    BY <1>5 DEF pending, Worker
  <2> QED
    BY Zenon, <2>1, <2>2 DEF ShutFor, PortOf
<1> QED
  BY Zenon, <1>3, <1>6, <1>7 DEF ClosedInv, ClosedOk

(* ClosedWhenDown for every set of tunnels: a tunnel that DisableTunnel or  *)
(* DeleteTunnel is through with has neither rules nor an open port, and the *)
(* port open for a tunnel that is up is the one UpdateTunnel gave it last.  *)
THEOREM DownIsClosed == S2sSpec => []ClosedWhenDown
<1>1. S2sInit => DeviceShape /\ ClosedInv
  BY Zenon, ClosedInit
<1>2. S2sInv /\ DeviceShape /\ ClosedInv /\ [S2sNext]_s2sVars => DeviceShape' /\ ClosedInv'
  <2> SUFFICES ASSUME S2sInv, DeviceShape, ClosedInv, S2sNext \/ UNCHANGED s2sVars
               PROVE  DeviceShape' /\ ClosedInv'
    BY Zenon
  <2>1. DeviceShape'
    BY Zenon, DeviceShapeStep DEF S2sInv
  <2> QED
    BY Zenon, <2>1, ClosedStep
<1>3. ClosedInv => ClosedWhenDown
  <2> SUFFICES ASSUME ClosedInv, orderly, odd \cap {"left", "revived"} = {}, atRest, NEW t \in Tunnel
               PROVE  /\ tunnels[t].state # "up" => rules[t] = noRules /\ wan[t] = 0
                      /\ wan[t] \in {0, tunnels[t].port}
    BY Zenon DEF ClosedWhenDown
  <2>1. ShutFor(t) /\ PortOf(t)
    BY Zenon DEF ClosedInv, ClosedOk, orderly
  <2>2. \A op : ~pending(op, t)
    BY Zenon, FewIs DEF atRest, pending
  <2> QED
    BY Zenon, <2>1, <2>2 DEF ShutFor, PortOf
<1> QED
  BY <1>1, <1>2, <1>3, ZonesInOrder, PTL DEF S2sSpec

=============================================================================
