------------------------- MODULE WanSettingsProofs --------------------------
(***************************************************************************)
(* The port opened on the WAN side is the port set (WanPorts), for every   *)
(* set of ports and requests and every bound: what a settings request      *)
(* still has to do, the ports on record, and where a record and a setting  *)
(* may differ while a request is under way.                                *)
(***************************************************************************)
EXTENDS WanPortsProofs

-----------------------------------------------------------------------------
(* What a request still has to do *)

\* The order in which a request works: DNS, preferences, port file, the
\* relay server's rules, tailscaled's rules.
Rank(c) ==
    IF c.op \in {"dnsOn", "dnsOff"} THEN 1
    ELSE IF c.op = "prefs" THEN 2
    ELSE IF c.op = "portFile" THEN 3
    ELSE IF c.op = "swapRelay" \/ (c.op \in {"open", "close"} /\ c.m = "relay") THEN 4
    ELSE 5
Before(a, b) == Rank(a) < Rank(b) \/ (a.op = "close" /\ b.op = "open" /\ a.m = b.m)
Ordered(q) == \A i, j \in 1..Len(q) : i < j => Before(q[i], q[j])

(* The rest of an ordered queue comes after its head. *)
LEMMA OrderedTail ==
    ASSUME NEW q, GoodSeq(q), q # <<>>
    PROVE  /\ Range(q) = {Head(q)} \cup Range(Tail(q))
           /\ Ordered(q) => Ordered(Tail(q)) /\ \A c \in Range(Tail(q)) : Before(Head(q), c)
<1>1. PICK S : q \in Seq(S)
  BY Zenon DEF GoodSeq
<1>2. PICK t : t = Tail(q)
  BY Zenon
<1>3. /\ Len(q) \in Nat \ {0} /\ Len(t) = Len(q) - 1 /\ Head(q) = q[1]
      /\ DOMAIN q = 1..Len(q) /\ DOMAIN t = 1..Len(t)
      /\ \A i \in 1..Len(t) : t[i] = q[i + 1]
  BY <1>1, <1>2
<1>4. ASSUME NEW c \in Range(t) PROVE \E i \in 1..Len(q) : i > 1 /\ c = q[i]
  BY <1>3, <1>4 DEF Range
<1>5. ASSUME NEW i \in 1..Len(q) PROVE q[i] = Head(q) \/ q[i] \in Range(t)
  <2>1. CASE i = 1
    BY <1>3, <2>1
  <2>2. CASE i # 1
    <3>1. i - 1 \in 1..Len(t) /\ t[i - 1] = q[i]
      BY <1>3, <2>2
    <3> QED
      BY <1>3, <3>1 DEF Range
  <2> QED
    BY <2>1, <2>2
<1>6. Range(q) = {Head(q)} \cup Range(t)
  <2>1. ASSUME NEW c \in Range(q) PROVE c \in {Head(q)} \cup Range(t)
    BY <1>3, <1>5, <2>1 DEF Range
  <2>2. Head(q) \in Range(q)
    BY <1>3 DEF Range
  <2>3. ASSUME NEW c \in Range(t) PROVE c \in Range(q)
    BY ZenonT(30), <1>3, <1>4 DEF Range
  <2> QED
    BY Zenon, <2>1, <2>2, <2>3
<1>7. ASSUME Ordered(q) PROVE Ordered(t) /\ \A c \in Range(t) : Before(Head(q), c)
  <2>1. ASSUME NEW i \in 1..Len(t), NEW j \in 1..Len(t), i < j PROVE Before(t[i], t[j])
    <3>1. i + 1 \in 1..Len(q) /\ j + 1 \in 1..Len(q) /\ i + 1 < j + 1
      BY <1>3, <2>1
    <3>2. Before(q[i + 1], q[j + 1])
      BY Zenon, <1>7, <3>1 DEF Ordered
    <3> QED
      BY Zenon, <1>3, <3>2
  <2>2. ASSUME NEW c \in Range(t) PROVE Before(Head(q), c)
    <3>1. PICK i \in 1..Len(q) : i > 1 /\ c = q[i]
      BY Zenon, <1>4
    <3>2. 1 \in 1..Len(q) /\ 1 < i
      BY <1>3, <3>1
    <3>3. Before(q[1], q[i])
      BY Zenon, <1>7, <3>2 DEF Ordered
    <3> QED
      BY Zenon, <1>3, <3>1, <3>3
  <2> QED
    BY Zenon, <2>1, <2>2 DEF Ordered
<1> QED
  BY Zenon, <1>2, <1>6, <1>7

(* No call, and one call. *)
LEMMA OrderedOne ==
    /\ Ordered(<<>>) /\ Range(<<>>) = {}
    /\ \A c : Ordered(<<c>>) /\ Range(<<c>>) = {c}
<1>1. Ordered(<<>>) /\ Range(<<>>) = {}
  BY DEF Ordered, Range
<1>2. ASSUME NEW c PROVE Ordered(<<c>>) /\ Range(<<c>>) = {c}
  <2>1. PICK e : e = <<c>>
    BY Zenon
  <2>2. e \in Seq({c}) /\ Len(e) = 1 /\ e[1] = c /\ DOMAIN e = {1}
    BY <2>1
  <2>3. Ordered(e)
    BY <2>2 DEF Ordered
  <2>4. Range(e) = {c}
    BY <2>2 DEF Range
  <2> QED
    BY Zenon, <2>1, <2>3, <2>4
<1> QED
  BY Zenon, <1>1, <1>2

(* Calls that all come before others, and then those. *)
LEMMA OrderedConcat ==
    ASSUME NEW p, NEW q, GoodSeq(p), GoodSeq(q)
    PROVE  /\ Range(p \o q) = Range(p) \cup Range(q)
           /\ Ordered(p) /\ Ordered(q) /\ (\A a \in Range(p), b \in Range(q) : Before(a, b))
              => Ordered(p \o q)
<1>1. PICK S : S = Range(p) \cup Range(q)
  BY Zenon
<1>2. p \in Seq(S) /\ q \in Seq(S)
  <2>1. Range(p) \subseteq S /\ Range(q) \subseteq S
    BY Zenon, <1>1
  <2> QED
    BY Zenon, <2>1, SeqWider DEF GoodSeq
<1>3. PICK e : e = p \o q
  BY Zenon
<1>4. /\ Len(p) \in Nat /\ Len(q) \in Nat /\ Len(e) = Len(p) + Len(q)
      /\ DOMAIN e = 1..Len(e) /\ DOMAIN p = 1..Len(p) /\ DOMAIN q = 1..Len(q)
      /\ \A i \in 1..Len(p) : e[i] = p[i]
      /\ \A i \in 1..Len(q) : e[i + Len(p)] = q[i]
  BY <1>2, <1>3
<1>5. ASSUME NEW i \in 1..Len(e)
      PROVE  \/ i \in 1..Len(p) /\ e[i] = p[i] /\ e[i] \in Range(p)
             \/ i - Len(p) \in 1..Len(q) /\ e[i] = q[i - Len(p)] /\ e[i] \in Range(q)
  <2>1. CASE i <= Len(p)
    <3>1. i \in 1..Len(p)
      BY <1>4, <2>1
    <3> QED
      BY <1>4, <3>1 DEF Range
  <2>2. CASE ~(i <= Len(p))
    <3>1. i - Len(p) \in 1..Len(q) /\ (i - Len(p)) + Len(p) = i
      BY <1>4, <2>2
    <3>2. e[i] = q[i - Len(p)]
      BY <1>4, <3>1
    <3> QED
      BY <1>4, <3>1, <3>2 DEF Range
  <2> QED
    BY <2>1, <2>2
<1>6. Range(e) = Range(p) \cup Range(q)
  <2>1. ASSUME NEW c \in Range(e) PROVE c \in Range(p) \cup Range(q)
    BY <1>4, <1>5, <2>1 DEF Range
  <2>2. ASSUME NEW c \in Range(p) PROVE c \in Range(e)
    BY <1>4, <2>2 DEF Range
  <2>3. ASSUME NEW c \in Range(q) PROVE c \in Range(e)
    <3>1. PICK i \in 1..Len(q) : c = q[i]
      BY <1>4, <2>3 DEF Range
    <3>2. i + Len(p) \in 1..Len(e) /\ e[i + Len(p)] = c
      BY <1>4, <3>1
    <3> QED
      BY <1>4, <3>2 DEF Range
  <2> QED
    BY Zenon, <2>1, <2>2, <2>3
<1>7. ASSUME Ordered(p), Ordered(q), \A a \in Range(p), b \in Range(q) : Before(a, b)
      PROVE  Ordered(e)
  <2> SUFFICES ASSUME NEW i \in 1..Len(e), NEW j \in 1..Len(e), i < j PROVE Before(e[i], e[j])
    BY DEF Ordered
  <2>1. CASE i \in 1..Len(p) /\ j \in 1..Len(p)
    BY <1>4, <1>7, <2>1 DEF Ordered
  <2>2. CASE i \in 1..Len(p) /\ j - Len(p) \in 1..Len(q)
    <3>1. ~(j \in 1..Len(p)) /\ ~(i - Len(p) \in 1..Len(q))
      BY <1>4, <2>2
    <3>2. e[i] \in Range(p) /\ e[j] \in Range(q)
      BY Zenon, <1>5, <3>1
    <3> QED
      BY Zenon, <1>7, <3>2
  <2>3. CASE i - Len(p) \in 1..Len(q) /\ j - Len(p) \in 1..Len(q)
    <3>1. i - Len(p) < j - Len(p) /\ ~(i \in 1..Len(p)) /\ ~(j \in 1..Len(p))
      BY <1>4, <2>3
    <3>2. e[i] = q[i - Len(p)] /\ e[j] = q[j - Len(p)]
      BY Zenon, <1>5, <3>1
    <3>3. Before(q[i - Len(p)], q[j - Len(p)])
      BY Zenon, <1>7, <2>3, <3>1 DEF Ordered
    <3> QED
      BY Zenon, <3>2, <3>3
  <2>4. ~(i - Len(p) \in 1..Len(q) /\ j \in 1..Len(p))
    BY <1>4
  <2> QED
    BY Zenon, <1>5, <2>1, <2>2, <2>3, <2>4
<1> QED
  BY Zenon, <1>3, <1>6, <1>7

(* What editPrefs leaves: the same calls, the relay server's with the port to
   close. *)
LEMMA OrderedEdited ==
    ASSUME NEW q, NEW old, GoodSeq(q), q # <<>>
    PROVE  /\ Ordered(q) => Ordered(Edited(q, old))
           /\ \A d \in Range(Edited(q, old)) : \E c \in Range(Tail(q)) :
                 /\ d.op = c.op /\ d.m = c.m /\ d.port = c.port
                 /\ IF c.op = "swapRelay" THEN d.old = old ELSE d = c
           /\ \A c \in Range(Tail(q)) : \E d \in Range(Edited(q, old)) :
                 /\ d.op = c.op /\ d.m = c.m /\ d.port = c.port
                 /\ IF c.op = "swapRelay" THEN d.old = old ELSE d = c
<1>1. PICK S : S = Range(q) /\ q \in Seq(S) /\ \A c \in S : Good(c)
  BY Zenon DEF GoodSeq
<1>2. PICK t, e : t = Tail(q) /\ e = Edited(q, old)
  BY Zenon
<1> DEFINE Like(d, c) == /\ d.op = c.op /\ d.m = c.m /\ d.port = c.port
                         /\ IF c.op = "swapRelay" THEN d.old = old ELSE d = c
<1>3. /\ Len(q) \in Nat \ {0} /\ Len(t) = Len(q) - 1
      /\ DOMAIN t = 1..Len(t) /\ \A i \in 1..Len(t) : t[i] = q[i + 1] /\ t[i] \in S
  BY <1>1, <1>2
<1>4. GoodSeq(e)
  BY Zenon, <1>2, GoodEdited
<1>5. DOMAIN e = 1..Len(t) /\ Len(e) = Len(t)
  <2>1. DOMAIN e = 1..(Len(q) - 1)
    BY Zenon, <1>2 DEF Edited
  <2>2. PICK R : e \in Seq(R)
    BY Zenon, <1>4 DEF GoodSeq
  <2>3. DOMAIN e = 1..Len(e) /\ Len(e) \in Nat
    BY <2>2
  <2> QED
    BY <1>3, <2>1, <2>3
<1>6. ASSUME NEW i \in 1..Len(t) PROVE Like(e[i], t[i])
  <2>1. t[i] = q[i + 1] /\ i \in 1..(Len(q) - 1)
    BY <1>3
  <2>2. e[i] = IF t[i].op = "swapRelay" THEN [t[i] EXCEPT !.old = old] ELSE t[i]
    BY Zenon, <1>2, <2>1 DEF Edited
  <2>3. PICK c : c = t[i] /\ Good(c)
    BY Zenon, <1>1, <1>3
  <2>4. PICK op, m, port, o : c = [op |-> op, m |-> m, port |-> port, old |-> o]
    BY Zenon, <2>3 DEF Good
  <2>5. PICK d : d = [c EXCEPT !.old = old]
    BY Zenon
  <2>6. d.op = c.op /\ d.m = c.m /\ d.port = c.port /\ d.old = old
    BY <2>4, <2>5
  <2> QED
    BY Zenon, <2>2, <2>3, <2>5, <2>6
<1>7. ASSUME Ordered(q) PROVE Ordered(e)
  <2>1. Ordered(t)
    BY Zenon, <1>2, <1>7, OrderedTail
  <2>2. ASSUME NEW i \in 1..Len(e), NEW j \in 1..Len(e), i < j PROVE Before(e[i], e[j])
    <3>1. Like(e[i], t[i]) /\ Like(e[j], t[j])
      BY Zenon, <1>5, <1>6
    <3>2. Before(t[i], t[j])
      BY Zenon, <1>5, <2>1, <2>2 DEF Ordered
    <3> QED
      BY Zenon, <3>1, <3>2 DEF Before, Rank
  <2> QED
    BY Zenon, <2>2 DEF Ordered
<1>8. ASSUME NEW d \in Range(e) PROVE \E c \in Range(t) : Like(d, c)
  <2>1. PICK i \in 1..Len(t) : d = e[i]
    BY Zenon, <1>5 DEF Range
  <2>2. t[i] \in Range(t)
    BY Zenon, <1>3 DEF Range
  <2> QED
    BY Zenon, <1>6, <2>1, <2>2
<1>9. ASSUME NEW c \in Range(t) PROVE \E d \in Range(e) : Like(d, c)
  <2>1. PICK i \in 1..Len(t) : c = t[i]
    BY Zenon, <1>3 DEF Range
  <2>2. e[i] \in Range(e)
    BY Zenon, <1>5 DEF Range
  <2> QED
    BY Zenon, <1>6, <2>1, <2>2
<1> QED
  BY Zenon, <1>2, <1>7, <1>8, <1>9

\* The calls of a request, C, while tailscaled's port is w and the relay
\* server's y.
Has(C, op) == \E c \in C : c.op = op
Typed(c) ==
    /\ c.op \in {"open", "close"} => c.m \in {"relay", "wg"}
    /\ c.op \in {"open", "portFile", "swapWg"} => c.port \in Nat \ {0}
    /\ c.op \in {"portFile", "swapWg"} => c.m = "wg"
    /\ c.op = "swapRelay" => c.m = "relay" /\ c.port \in Nat /\ c.old \in Nat
    /\ c.op = "prefs" => c.m \in {"none", "relay"}
Plan(C, w, y) ==
    /\ \A c \in C : Typed(c)
    /\ \A a, b \in C : a.op = "portFile" /\ b.op = "swapWg" => a.port = b.port
    /\ \A a, b \in C : a.op = "prefs" /\ b.op = "swapRelay" => a.m = "relay" /\ a.port = b.port
    /\ \A b \in C : b.op = "swapWg" => Has(C, "portFile") \/ b.port = w
    /\ \A b \in C : b.op = "swapRelay" => Has(C, "prefs") \/ b.port = y
    /\ Has(C, "portFile") => Has(C, "swapWg")
    /\ \A a \in C : a.op = "prefs" /\ a.m = "relay" => Has(C, "swapRelay")
    /\ \A a, b \in C : a.op \in {"close", "open"} =>
          b.op \notin {"dnsOn", "dnsOff", "prefs", "portFile"}
    /\ \A a, b \in C : a.op \in {"close", "open", "swapRelay", "swapWg"} => b.op # "keyDelete"
    /\ \A a \in C : a.op \in {"dnsOn", "dnsOff", "prefs"} /\ Has(C, "swapWg") => Has(C, "portFile")
    /\ \A a \in C : a.op \in {"dnsOn", "dnsOff"} /\ Has(C, "swapRelay") => Has(C, "prefs")

(* A call that is over, and those after it. *)
LEMMA PlanDrop ==
    ASSUME NEW C, NEW D, NEW h, NEW w, NEW y, Plan(C, w, y), C = {h} \cup D,
           \A c \in D : Before(h, c), h.op \notin {"prefs", "portFile"}
    PROVE  Plan(D, w, y)
<1>1. ASSUME NEW c \in D PROVE c \in C
  BY Zenon
<1>2. ASSUME NEW op, Has(C, op), h.op # op PROVE Has(D, op)
  BY Zenon, <1>2 DEF Has
<1>3. ASSUME NEW op, Has(D, op) PROVE Has(C, op)
  BY Zenon, <1>3 DEF Has
<1>4. /\ Has(C, "portFile") => Has(D, "portFile")
      /\ Has(C, "prefs") => Has(D, "prefs")
  BY Zenon, <1>2
<1>5. ASSUME NEW c \in D PROVE /\ c.op = "portFile" => h.op # "swapWg"
                               /\ c.op = "prefs" => h.op # "swapRelay"
  BY DEF Before, Rank
<1>6. Has(D, "portFile") => Has(D, "swapWg")
  <2> SUFFICES ASSUME Has(D, "portFile") PROVE Has(D, "swapWg")
    OBVIOUS
  <2>1. h.op # "swapWg"
    BY Zenon, <1>5 DEF Has
  <2>2. Has(C, "swapWg")
    BY Zenon, <1>3 DEF Plan
  <2> QED
    BY Zenon, <1>2, <2>1, <2>2
<1>7. ASSUME NEW a \in D, a.op = "prefs", a.m = "relay" PROVE Has(D, "swapRelay")
  <2>1. h.op # "swapRelay"
    BY Zenon, <1>5, <1>7
  <2>2. Has(C, "swapRelay")
    BY Zenon, <1>1, <1>7 DEF Plan
  <2> QED
    BY Zenon, <1>2, <2>1, <2>2
<1> QED
  BY ZenonT(60), <1>1, <1>3, <1>4, <1>6, <1>7 DEF Plan

(* Once the preferences, or the port file, are written. *)
LEMMA PlanWritten ==
    ASSUME NEW C, NEW D, NEW h, NEW w, NEW y, Plan(C, w, y), C = {h} \cup D,
           \A c \in D : Before(h, c)
    PROVE  /\ h.op = "prefs" => Plan(D, w, IF h.m = "relay" THEN h.port ELSE y)
           /\ h.op = "portFile" => Plan(D, h.port, y)
<1>1. ASSUME NEW c \in D PROVE c \in C
  BY Zenon
<1>2. h \in C
  BY Zenon
<1>3. ASSUME NEW op, Has(C, op), h.op # op PROVE Has(D, op)
  BY Zenon, <1>3 DEF Has
<1>4. ASSUME NEW op, Has(D, op) PROVE Has(C, op)
  BY Zenon, <1>4 DEF Has
<1>5. ASSUME NEW c \in D PROVE /\ h.op = "prefs" => c.op \notin {"dnsOn", "dnsOff", "prefs"}
                               /\ h.op = "portFile" => c.op \notin {"dnsOn", "dnsOff", "prefs", "portFile"}
  BY DEF Before, Rank
<1>6. /\ \A c \in D : Typed(c)
      /\ \A a, b \in D : a.op = "portFile" /\ b.op = "swapWg" => a.port = b.port
      /\ \A a, b \in D : a.op = "prefs" /\ b.op = "swapRelay" => a.m = "relay" /\ a.port = b.port
      /\ \A a, b \in D : a.op \in {"close", "open"} =>
            b.op \notin {"dnsOn", "dnsOff", "prefs", "portFile"}
      /\ \A a, b \in D : a.op \in {"close", "open", "swapRelay", "swapWg"} => b.op # "keyDelete"
  BY ZenonT(60), <1>1 DEF Plan
<1>7. ASSUME h.op = "prefs" PROVE Plan(D, w, IF h.m = "relay" THEN h.port ELSE y)
  <2>1. \A op \in {"portFile", "swapWg", "swapRelay"} : Has(C, op) => Has(D, op)
    BY <1>3, <1>7
  <2>2. ASSUME NEW b \in D, b.op = "swapWg" PROVE Has(D, "portFile") \/ b.port = w
    BY Zenon, <1>1, <2>1, <2>2 DEF Plan
  <2>3. ASSUME NEW b \in D, b.op = "swapRelay" PROVE h.m = "relay" /\ b.port = h.port
    BY Zenon, <1>1, <1>2, <1>7, <2>3 DEF Plan
  <2>4. Has(D, "portFile") => Has(D, "swapWg")
    BY ZenonT(60), <1>4, <2>1 DEF Plan
  <2>5. \A a \in D : a.op # "prefs" /\ a.op # "dnsOn" /\ a.op # "dnsOff"
    BY <1>5, <1>7
  <2>6. \A a \in D : a.op \notin {"dnsOn", "dnsOff", "prefs"}
    BY <2>5
  <2>7. \A a \in D : a.op \notin {"dnsOn", "dnsOff"}
    BY <2>5
  <2> QED
    BY ZenonT(60), <1>6, <2>2, <2>3, <2>4, <2>5, <2>6, <2>7 DEF Plan
<1>8. ASSUME h.op = "portFile" PROVE Plan(D, h.port, y)
  <2>1. \A op \in {"prefs"} : Has(C, op) => Has(D, op)
    BY ZenonT(30), <1>3, <1>8
  <2>2. ASSUME NEW b \in D, b.op = "swapWg" PROVE b.port = h.port
    BY Zenon, <1>1, <1>2, <1>8, <2>2 DEF Plan
  <2>3. ASSUME NEW b \in D, b.op = "swapRelay" PROVE Has(D, "prefs") \/ b.port = y
    BY Zenon, <1>1, <2>1, <2>3 DEF Plan
  <2>4. ~Has(D, "portFile") /\ \A a \in D : a.op \notin {"dnsOn", "dnsOff", "prefs"} /\ a.op # "prefs"
    BY <1>5, <1>8 DEF Has
  <2>5. \A a \in D : a.op \notin {"dnsOn", "dnsOff"}
    BY <2>4
  <2> QED
    BY ZenonT(60), <1>6, <2>2, <2>3, <2>4, <2>5 DEF Plan
<1> QED
  BY Zenon, <1>7, <1>8

(* The port to close is filled in. *)
LEMMA PlanLike ==
    ASSUME NEW C, NEW D, NEW w, NEW y, NEW old \in Nat, Plan(C, w, y),
           \A d \in D : \E c \in C :
              /\ d.op = c.op /\ d.m = c.m /\ d.port = c.port
              /\ IF c.op = "swapRelay" THEN d.old = old ELSE d = c,
           \A c \in C : \E d \in D :
              /\ d.op = c.op /\ d.m = c.m /\ d.port = c.port
              /\ IF c.op = "swapRelay" THEN d.old = old ELSE d = c
    PROVE  Plan(D, w, y)
<1>1. ASSUME NEW op PROVE Has(D, op) <=> Has(C, op)
  <2>1. Has(D, op) => Has(C, op)
    BY DEF Has
  <2>2. Has(C, op) => Has(D, op)
    BY DEF Has
  <2> QED
    BY <2>1, <2>2
<1>2. ASSUME NEW d \in D PROVE Typed(d)
  <2>1. PICK c \in C : /\ d.op = c.op /\ d.m = c.m /\ d.port = c.port
                       /\ IF c.op = "swapRelay" THEN d.old = old ELSE d = c
    BY Zenon
  <2>2. Typed(c)
    BY Zenon DEF Plan
  <2> QED
    BY <2>1, <2>2 DEF Typed
<1>3. ASSUME NEW d \in D PROVE \E c \in C : d.op = c.op /\ d.m = c.m /\ d.port = c.port
  BY Zenon
<1>4. ASSUME NEW a \in D, NEW b \in D
      PROVE  /\ a.op = "portFile" /\ b.op = "swapWg" => a.port = b.port
             /\ a.op = "prefs" /\ b.op = "swapRelay" => a.m = "relay" /\ a.port = b.port
             /\ a.op \in {"close", "open"} => b.op \notin {"dnsOn", "dnsOff", "prefs", "portFile"}
             /\ a.op \in {"close", "open", "swapRelay", "swapWg"} => b.op # "keyDelete"
  <2>1. PICK c \in C : a.op = c.op /\ a.m = c.m /\ a.port = c.port
    BY Zenon, <1>3
  <2>2. PICK e \in C : b.op = e.op /\ b.m = e.m /\ b.port = e.port
    BY Zenon, <1>3
  <2>3. /\ c.op = "portFile" /\ e.op = "swapWg" => c.port = e.port
        /\ c.op = "prefs" /\ e.op = "swapRelay" => c.m = "relay" /\ c.port = e.port
        /\ c.op \in {"close", "open"} => e.op \notin {"dnsOn", "dnsOff", "prefs", "portFile"}
        /\ c.op \in {"close", "open", "swapRelay", "swapWg"} => e.op # "keyDelete"
    BY ZenonT(60) DEF Plan
  <2> QED
    BY <2>1, <2>2, <2>3
<1>5. ASSUME NEW a \in D
      PROVE  /\ a.op = "swapWg" => Has(D, "portFile") \/ a.port = w
             /\ a.op = "swapRelay" => Has(D, "prefs") \/ a.port = y
             /\ a.op = "prefs" /\ a.m = "relay" => Has(D, "swapRelay")
             /\ a.op \in {"dnsOn", "dnsOff", "prefs"} /\ Has(D, "swapWg") => Has(D, "portFile")
             /\ a.op \in {"dnsOn", "dnsOff"} /\ Has(D, "swapRelay") => Has(D, "prefs")
  <2>1. PICK c \in C : a.op = c.op /\ a.m = c.m /\ a.port = c.port
    BY Zenon, <1>3
  <2>2. /\ c.op = "swapWg" => Has(C, "portFile") \/ c.port = w
        /\ c.op = "swapRelay" => Has(C, "prefs") \/ c.port = y
        /\ c.op = "prefs" /\ c.m = "relay" => Has(C, "swapRelay")
    BY Zenon DEF Plan
  <2>3. /\ c.op \in {"dnsOn", "dnsOff", "prefs"} /\ Has(C, "swapWg") => Has(C, "portFile")
        /\ c.op \in {"dnsOn", "dnsOff"} /\ Has(C, "swapRelay") => Has(C, "prefs")
    BY Zenon DEF Plan
  <2> QED
    BY ZenonT(60), <1>1, <2>1, <2>2, <2>3
<1>6. Has(D, "portFile") => Has(D, "swapWg")
  BY Zenon, <1>1 DEF Plan
<1> QED
  BY ZenonT(60), <1>2, <1>4, <1>5, <1>6 DEF Plan

(* A swap becomes its calls. *)
LEMMA PlanSwap ==
    ASSUME NEW C, NEW D, NEW E, NEW h, NEW w, NEW y, Plan(C, w, y), C = {h} \cup D,
           \A c \in D : Before(h, c), h.op \in {"swapRelay", "swapWg"},
           \A e \in E : e.op \in {"open", "close"} /\ Typed(e)
    PROVE  Plan(E \cup D, w, y)
<1>1. Plan(D, w, y)
  BY ZenonT(60), PlanDrop
<1>2. ASSUME NEW c \in D
      PROVE  c.op \notin {"dnsOn", "dnsOff", "prefs", "portFile"}
  BY DEF Before, Rank
<1>3. ASSUME NEW c \in D PROVE c.op # "keyDelete"
  BY DEF Plan
<1>4. ASSUME NEW op \in {"dnsOn", "dnsOff", "prefs", "portFile", "swapRelay", "swapWg", "keyDelete"}
      PROVE  Has(E \cup D, op) <=> Has(D, op)
  BY DEF Has
<1>5. ASSUME NEW c \in E \cup D
      PROVE  c.op \notin {"dnsOn", "dnsOff", "prefs", "portFile", "keyDelete"} /\ Typed(c)
  <2>1. CASE c \in E
    BY <2>1
  <2>2. CASE c \in D
    <3>1. Typed(c)
      BY Zenon, <1>1, <2>2 DEF Plan
    <3> QED
      BY <1>2, <1>3, <2>2, <3>1
  <2> QED
    BY Zenon, <2>1, <2>2
<1>6. ASSUME NEW c \in E \cup D, c.op \in {"swapRelay", "swapWg"} PROVE c \in D
  BY <1>6
<1>7. /\ ~Has(D, "portFile") /\ ~Has(D, "prefs") /\ ~Has(E \cup D, "portFile") /\ ~Has(E \cup D, "prefs")
  BY <1>2, <1>5 DEF Has
<1>8. ASSUME NEW c \in E \cup D
      PROVE  /\ c.op = "swapWg" => c.port = w
             /\ c.op = "swapRelay" => c.port = y
  BY <1>1, <1>6, <1>7 DEF Plan
<1> QED
  BY <1>5, <1>7, <1>8 DEF Plan

(* The calls of a settings request are such a plan, in order. *)
LEMMA PlanSettings ==
    ASSUME NEW q \in Request, NEW suffix, NEW w, NEW y, NEW cs,
           cs = opt(q.dns = "on", call("dnsOn", "dns", suffix))
                \o opt(q.dns = "off", call("dnsOff", "dns", 0))
                \o <<IF q.relay = -1 THEN call("prefs", "none", 0) ELSE call("prefs", "relay", q.relay)>>
                \o opt(q.udp # 0, call("portFile", "wg", q.udp))
                \o opt(q.relay # -1, call("swapRelay", "relay", q.relay))
                \o opt(q.udp # 0, call("swapWg", "wg", q.udp))
    PROVE  /\ Ordered(cs) /\ Plan(Range(cs), w, y)
           /\ \A c \in Range(cs) : c.op \notin {"open", "close"}
<1>1. /\ q.relay = -1 \/ q.relay \in Nat
      /\ q.udp = 0 \/ q.udp \in Nat \ {0}
  <2>1. q.relay \in Port \cup {-1, 0} /\ q.udp \in Port \cup {0} /\ Port \subseteq Nat \ {0}
    BY Zenon, PortAssumption
  <2>2. PICK x, z : x = q.relay /\ z = q.udp
    BY Zenon
  <2>3. x \in Port \cup {-1, 0} /\ z \in Port \cup {0}
    BY Zenon, <2>1, <2>2
  <2>4. (x = -1 \/ x \in Nat) /\ (z = 0 \/ z \in Nat \ {0})
    BY <2>1, <2>3
  <2> QED
    BY Zenon, <2>2, <2>4
<1>2. PICK c1, c2, c3, c4, c5, c6 :
         /\ c1 = call("dnsOn", "dns", suffix) /\ c2 = call("dnsOff", "dns", 0)
         /\ c3 = IF q.relay = -1 THEN call("prefs", "none", 0) ELSE call("prefs", "relay", q.relay)
         /\ c4 = call("portFile", "wg", q.udp) /\ c5 = call("swapRelay", "relay", q.relay)
         /\ c6 = call("swapWg", "wg", q.udp)
  BY Zenon
<1>3. /\ c1.op = "dnsOn" /\ c1.m = "dns" /\ c2.op = "dnsOff" /\ c2.m = "dns"
      /\ c3.op = "prefs" /\ (q.relay = -1 => c3.m = "none")
      /\ q.relay # -1 => c3.m = "relay" /\ c3.port = q.relay
      /\ c4.op = "portFile" /\ c4.m = "wg" /\ c4.port = q.udp
      /\ c5.op = "swapRelay" /\ c5.m = "relay" /\ c5.port = q.relay /\ c5.old = 0
      /\ c6.op = "swapWg" /\ c6.m = "wg" /\ c6.port = q.udp
  BY <1>2 DEF call
<1>4. /\ Good(c1) /\ Good(c2) /\ Good(c3) /\ Good(c4) /\ Good(c5) /\ Good(c6)
  <2>1. \A c \in {c1, c2, c3, c4, c5, c6} :
           \E op, m, port, old : c = [op |-> op, m |-> m, port |-> port, old |-> old]
    <3>1. c3 = call("prefs", "none", 0) \/ c3 = call("prefs", "relay", q.relay)
      BY Zenon, <1>2
    <3>2. ASSUME NEW c \in {c1, c2, c3, c4, c5, c6} PROVE \E op, m, x : c = call(op, m, x)
      BY Zenon, <1>2, <3>1
    <3> TAKE c \in {c1, c2, c3, c4, c5, c6}
    <3>3. PICK op, m, x : c = [op |-> op, m |-> m, port |-> x, old |-> 0]
      BY Zenon, <3>2 DEF call
    <3> QED
      BY Zenon, <3>3
  <2>2. \A c \in {c1, c2, c3, c4, c5, c6} :
           /\ c.op \in HttpOps
           /\ c.op \in {"open", "dnsOn", "close"} => c.m \in Marker
           /\ c.op \in {"dnsOn", "dnsOff"} => c.m = "dns"
    BY <1>3 DEF HttpOps, Marker
  <2> QED
    BY ZenonT(60), <2>1, <2>2 DEF Good
<1>5. PICK b1, b2, b4, b5, b6 :
         /\ b1 = (q.dns = "on") /\ b2 = (q.dns = "off") /\ b4 = (q.udp # 0)
         /\ b5 = (q.relay # -1) /\ b6 = (q.udp # 0)
  BY Zenon
<1>6. PICK p1, p2, p3, p4, p5, p6 :
         /\ p1 = opt(b1, c1) /\ p2 = opt(b2, c2) /\ p3 = <<c3>> /\ p4 = opt(b4, c4)
         /\ p5 = opt(b5, c5) /\ p6 = opt(b6, c6)
  BY Zenon
<1>7. ASSUME NEW b, NEW c, Good(c)
      PROVE  /\ GoodSeq(opt(b, c)) /\ Ordered(opt(b, c))
             /\ \A x : x \in Range(opt(b, c)) <=> b /\ x = c
  <2>1. CASE b
    <3>1. opt(b, c) = <<c>>
      BY Zenon, <2>1 DEF opt
    <3>2. GoodSeq(<<c>>) /\ Ordered(<<c>>) /\ Range(<<c>>) = {c}
      BY Zenon, <1>7, GoodSeqs, OrderedOne
    <3>3. \A x : x \in Range(<<c>>) <=> x = c
      BY Zenon, <3>2
    <3> QED
      BY Zenon, <2>1, <3>1, <3>2, <3>3
  <2>2. CASE ~b
    <3>1. opt(b, c) = <<>>
      BY Zenon, <2>2 DEF opt
    <3> QED
      BY Zenon, <2>2, <3>1, GoodSeqs, OrderedOne
  <2> QED
    BY Zenon, <2>1, <2>2
<1>8. /\ GoodSeq(p1) /\ Ordered(p1) /\ \A x : x \in Range(p1) <=> q.dns = "on" /\ x = c1
      /\ GoodSeq(p2) /\ Ordered(p2) /\ \A x : x \in Range(p2) <=> q.dns = "off" /\ x = c2
      /\ GoodSeq(p3) /\ Ordered(p3) /\ \A x : x \in Range(p3) <=> x = c3
      /\ GoodSeq(p4) /\ Ordered(p4) /\ \A x : x \in Range(p4) <=> q.udp # 0 /\ x = c4
      /\ GoodSeq(p5) /\ Ordered(p5) /\ \A x : x \in Range(p5) <=> q.relay # -1 /\ x = c5
      /\ GoodSeq(p6) /\ Ordered(p6) /\ \A x : x \in Range(p6) <=> q.udp # 0 /\ x = c6
  <2>1. GoodSeq(p3) /\ Ordered(p3) /\ \A x : x \in Range(p3) <=> x = c3
    <3>1. \A x : x \in {c3} <=> x = c3
      BY Zenon
    <3> QED
      BY Zenon, <1>4, <1>6, <3>1, GoodSeqs, OrderedOne
  <2>2. GoodSeq(p1) /\ Ordered(p1) /\ \A x : x \in Range(p1) <=> q.dns = "on" /\ x = c1
    <3>1. GoodSeq(p1) /\ Ordered(p1) /\ \A x : x \in Range(p1) <=> b1 /\ x = c1
      BY Zenon, <1>4, <1>6, <1>7
    <3> QED
      BY Zenon, <1>5, <3>1
  <2>3. GoodSeq(p2) /\ Ordered(p2) /\ \A x : x \in Range(p2) <=> q.dns = "off" /\ x = c2
    <3>1. GoodSeq(p2) /\ Ordered(p2) /\ \A x : x \in Range(p2) <=> b2 /\ x = c2
      BY Zenon, <1>4, <1>6, <1>7
    <3> QED
      BY Zenon, <1>5, <3>1
  <2>4. GoodSeq(p4) /\ Ordered(p4) /\ \A x : x \in Range(p4) <=> q.udp # 0 /\ x = c4
    BY Zenon, <1>4, <1>5, <1>6, <1>7
  <2>5. GoodSeq(p5) /\ Ordered(p5) /\ \A x : x \in Range(p5) <=> q.relay # -1 /\ x = c5
    BY Zenon, <1>4, <1>5, <1>6, <1>7
  <2>6. GoodSeq(p6) /\ Ordered(p6) /\ \A x : x \in Range(p6) <=> q.udp # 0 /\ x = c6
    BY Zenon, <1>4, <1>5, <1>6, <1>7
  <2> QED
    BY Zenon, <2>1, <2>2, <2>3, <2>4, <2>5, <2>6
<1>9. PICK a2, a3, a4, a5 :
         a2 = p1 \o p2 /\ a3 = a2 \o p3 /\ a4 = a3 \o p4 /\ a5 = a4 \o p5
  BY Zenon
<1>10. cs = a5 \o p6
  BY ZenonT(60), <1>2, <1>5, <1>6, <1>9
<1>11. /\ Rank(c1) = 1 /\ Rank(c2) = 1 /\ Rank(c3) = 2 /\ Rank(c4) = 3 /\ Rank(c5) = 4 /\ Rank(c6) = 5
  BY <1>3 DEF Rank
<1>12. ASSUME NEW a, NEW p, NEW n \in Nat, GoodSeq(a), Ordered(a), GoodSeq(p), Ordered(p),
              \A c \in Range(a) : Rank(c) \in Nat /\ Rank(c) <= n,
              \A c \in Range(p) : Rank(c) = n + 1
       PROVE  /\ GoodSeq(a \o p) /\ Ordered(a \o p) /\ Range(a \o p) = Range(a) \cup Range(p)
              /\ \A c \in Range(a \o p) : Rank(c) \in Nat /\ Rank(c) <= n + 1
  <2>1. \A c \in Range(a), d \in Range(p) : Before(c, d)
    <3> SUFFICES ASSUME NEW c \in Range(a), NEW d \in Range(p) PROVE Rank(c) < Rank(d)
      BY Zenon DEF Before
    <3>1. Rank(c) \in Nat /\ Rank(c) <= n /\ Rank(d) = n + 1
      BY Zenon, <1>12
    <3> QED
      BY <3>1
  <2>2. GoodSeq(a \o p) /\ Ordered(a \o p) /\ Range(a \o p) = Range(a) \cup Range(p)
    BY ZenonT(60), <1>12, <2>1, GoodSeqs, OrderedConcat
  <2>3. ASSUME NEW c \in Range(a \o p) PROVE Rank(c) \in Nat /\ Rank(c) <= n + 1
    <3>1. c \in Range(a) \/ c \in Range(p)
      BY Zenon, <2>2
    <3>2. (Rank(c) \in Nat /\ Rank(c) <= n) \/ Rank(c) = n + 1
      BY ZenonT(60), <1>12, <3>1
    <3> QED
      BY <3>2
  <2> QED
    BY Zenon, <2>2, <2>3

<1>13. /\ GoodSeq(a2) /\ Ordered(a2) /\ Range(a2) = Range(p1) \cup Range(p2)
       /\ \A c \in Range(a2) : Rank(c) \in Nat /\ Rank(c) <= 1
  <2>1. \A c \in Range(p1), d \in Range(p2) : Before(c, d)
    BY <1>8
  <2>2. GoodSeq(a2) /\ Ordered(a2) /\ Range(a2) = Range(p1) \cup Range(p2)
    BY Zenon, <1>8, <1>9, <2>1, GoodSeqs, OrderedConcat
  <2>3. ASSUME NEW c \in Range(a2) PROVE Rank(c) = 1
    BY ZenonT(60), <1>8, <1>11, <2>2, <2>3
  <2> QED
    BY SMTT(60), <2>2, <2>3
<1>14. /\ \A c \in Range(p3) : Rank(c) = 1 + 1
       /\ \A c \in Range(p4) : Rank(c) = 2 + 1
       /\ \A c \in Range(p5) : Rank(c) = 3 + 1
       /\ \A c \in Range(p6) : Rank(c) = 4 + 1
  BY SMTT(60), <1>8, <1>11
<1>15. /\ GoodSeq(a3) /\ Ordered(a3) /\ Range(a3) = Range(a2) \cup Range(p3)
       /\ \A c \in Range(a3) : Rank(c) \in Nat /\ Rank(c) <= 2
  <2>1. \A c \in Range(a2 \o p3) : Rank(c) \in Nat /\ Rank(c) <= 1 + 1
    BY ZenonT(30), <1>8, <1>12, <1>13, <1>14
  <2>2. GoodSeq(a3) /\ Ordered(a3) /\ Range(a3) = Range(a2) \cup Range(p3)
    BY ZenonT(60), <1>8, <1>9, <1>12, <1>13, <1>14
  <2> QED
    BY SMTT(60), <1>9, <2>1, <2>2
<1>16. /\ GoodSeq(a4) /\ Ordered(a4) /\ Range(a4) = Range(a3) \cup Range(p4)
       /\ \A c \in Range(a4) : Rank(c) \in Nat /\ Rank(c) <= 3
  <2>1. \A c \in Range(a3 \o p4) : Rank(c) \in Nat /\ Rank(c) <= 2 + 1
    BY SMTT(60), <1>8, <1>12, <1>14, <1>15
  <2>2. GoodSeq(a4) /\ Ordered(a4) /\ Range(a4) = Range(a3) \cup Range(p4)
    BY ZenonT(60), <1>8, <1>9, <1>12, <1>14, <1>15
  <2> QED
    BY SMTT(60), <1>9, <2>1, <2>2
<1>17. /\ GoodSeq(a5) /\ Ordered(a5) /\ Range(a5) = Range(a4) \cup Range(p5)
       /\ \A c \in Range(a5) : Rank(c) \in Nat /\ Rank(c) <= 4
  <2>1. \A c \in Range(a4 \o p5) : Rank(c) \in Nat /\ Rank(c) <= 3 + 1
    BY <1>8, <1>12, <1>14, <1>16
  <2>2. GoodSeq(a5) /\ Ordered(a5) /\ Range(a5) = Range(a4) \cup Range(p5)
    BY ZenonT(60), <1>8, <1>9, <1>12, <1>14, <1>16
  <2> QED
    BY <1>9, <2>1, <2>2
<1>18. Ordered(cs) /\ Range(cs) = Range(a5) \cup Range(p6)
  <2>1. Ordered(a5 \o p6) /\ Range(a5 \o p6) = Range(a5) \cup Range(p6)
    BY ZenonT(60), <1>8, <1>12, <1>14, <1>17
  <2> QED
    BY Zenon, <1>10, <2>1
<1>19. PICK C : C = Range(cs)
  BY Zenon
<1>20. ASSUME NEW c
       PROVE  c \in C <=> \/ q.dns = "on" /\ c = c1
                          \/ q.dns = "off" /\ c = c2
                          \/ c = c3
                          \/ q.udp # 0 /\ c \in {c4, c6}
                          \/ q.relay # -1 /\ c = c5
  <2>1. c \in C <=> \/ c \in Range(p1) \/ c \in Range(p2) \/ c \in Range(p3)
                    \/ c \in Range(p4) \/ c \in Range(p5) \/ c \in Range(p6)
    BY Zenon, <1>13, <1>15, <1>16, <1>17, <1>18, <1>19
  <2> QED
    BY <1>8, <2>1
<1>21. /\ Has(C, "prefs")
       /\ q.udp # 0 <=> Has(C, "portFile")
       /\ q.udp # 0 <=> Has(C, "swapWg")
       /\ q.relay # -1 <=> Has(C, "swapRelay")
  BY ZenonT(60), <1>3, <1>20 DEF Has
<1>22. ASSUME NEW c \in C
       PROVE  /\ Typed(c) /\ c.op \notin {"open", "close", "keyDelete"}
              /\ c.op \in {"portFile", "swapWg"} => c.port = q.udp
              /\ c.op \in {"prefs", "swapRelay"} /\ q.relay # -1 => c.m = "relay" /\ c.port = q.relay
              /\ c.op = "prefs" /\ c.m = "relay" => q.relay # -1
              /\ c.op = "swapRelay" => q.relay # -1
              /\ c.op = "swapWg" => q.udp # 0
  BY SMTT(60), <1>1, <1>3, <1>20 DEF Typed
<1>23. Plan(C, w, y)
  BY <1>21, <1>22 DEF Plan
<1>24. \A c \in C : c.op \notin {"open", "close"}
  BY <1>22
<1> QED
  BY Zenon, <1>18, <1>19, <1>23, <1>24

(* The steps that the call under way may take. *)
LEMMA WhichStep ==
    ASSUME NEW r \in Routine, callStep(r)
    PROVE  /\ now(r).op = "open" =>
                openStart(r) \/ resolveSystemZones(r) \/ findExisting(r) \/ create(r) \/ saveEntry(r)
           /\ now(r).op = "dnsOn" => dnsStart(r) \/ findExisting(r) \/ create(r) \/ saveEntry(r)
           /\ now(r).op = "close" => closeStart(r) \/ deletePolicy(r) \/ forget(r)
           /\ now(r).op = "dnsOff" => dnsOff(r)
           /\ now(r).op = "reconcile" => reconcileSnapshot(r) \/ reconcileList(r)
           /\ now(r).op = "recreate" => recreate(r)
           /\ now(r).op = "prefs" => editPrefs(r)
           /\ now(r).op = "portFile" => applyUDPPortChange(r)
           /\ now(r).op = "swapRelay" => updateRelayPortRules(r)
           /\ now(r).op = "swapWg" => updateTailscaleWgPortRules(r)
           /\ now(r).op = "keyDelete" => keyGoes(r)
           /\ now(r).op = "keyDrop" => resetIntegration(r)
<1>1. /\ openStart(r) \/ resolveSystemZones(r) => now(r).op = "open"
      /\ findExisting(r) \/ create(r) \/ saveEntry(r) => now(r).op \in {"open", "dnsOn"}
      /\ dnsStart(r) => now(r).op = "dnsOn"
      /\ closeStart(r) \/ deletePolicy(r) \/ forget(r) => now(r).op = "close"
      /\ dnsOff(r) => now(r).op = "dnsOff"
      /\ reconcileSnapshot(r) \/ reconcileList(r) => now(r).op = "reconcile"
      /\ recreate(r) => now(r).op = "recreate"
      /\ editPrefs(r) => now(r).op = "prefs"
      /\ applyUDPPortChange(r) => now(r).op = "portFile"
      /\ updateRelayPortRules(r) => now(r).op = "swapRelay"
      /\ updateTailscaleWgPortRules(r) => now(r).op = "swapWg"
      /\ keyGoes(r) => now(r).op = "keyDelete"
      /\ resetIntegration(r) => now(r).op = "keyDrop"
  BY ZenonT(60) DEF at, now, openStart, resolveSystemZones, dnsStart, findExisting, create,
     saveEntry, closeStart, deletePolicy, forget, dnsOff, reconcileSnapshot, reconcileList,
     recreate, editPrefs, applyUDPPortChange, updateRelayPortRules, updateTailscaleWgPortRules,
     keyGoes, resetIntegration
<1> QED
  BY <1>1 DEF callStep

(* Only the preferences and the port file change a setting. *)
LEMMA SettingStays ==
    ASSUME NEW r \in Routine, callStep(r), now(r).op \notin {"prefs", "portFile"}
    PROVE  setting' = setting
<1>1. ~editPrefs(r) /\ ~applyUDPPortChange(r)
  BY ZenonT(30) DEF editPrefs, applyUDPPortChange, at, now
<1> QED
  BY ZenonT(60), <1>1 DEF callStep, openStart, resolveSystemZones, dnsStart, findExisting, create,
     saveEntry, closeStart, deletePolicy, forget, dnsOff, reconcileSnapshot, reconcileList,
     recreate, updateRelayPortRules, updateTailscaleWgPortRules, keyGoes, resetIntegration,
     others, context

\* The request under way is a plan, in order, for the settings there are.
HttpInv ==
    /\ DOMAIN setting = Marker /\ setting["wg"] \in Nat \ {0} /\ setting["relay"] \in Nat
    /\ Ordered(calls["http"]) /\ Plan(Range(calls["http"]), setting["wg"], setting["relay"])

(* A request that has nothing to do. *)
LEMMA PlanNone == ASSUME NEW w, NEW y PROVE Plan({}, w, y)
BY DEF Plan, Has

(* The queue and the head of a request. *)
LEMMA HttpHead ==
    ASSUME QueueInv, HttpInv, calls["http"] # <<>>
    PROVE  /\ Range(calls["http"]) = {now("http")} \cup Range(Tail(calls["http"]))
           /\ \A c \in Range(Tail(calls["http"])) : Before(now("http"), c)
           /\ Ordered(Tail(calls["http"])) /\ GoodSeq(Tail(calls["http"]))
           /\ Good(now("http")) /\ Typed(now("http"))
<1>1. GoodSeq(calls["http"])
  BY DEF QueueInv
<1>2. /\ Range(calls["http"]) = {now("http")} \cup Range(Tail(calls["http"]))
      /\ \A c \in Range(Tail(calls["http"])) : Before(now("http"), c)
      /\ Ordered(Tail(calls["http"]))
  BY Zenon, <1>1, OrderedTail DEF HttpInv, now
<1>3. GoodSeq(Tail(calls["http"])) /\ Good(now("http"))
  BY Zenon, <1>1, GoodSeqs DEF now
<1>4. now("http") \in Range(calls["http"])
  BY Zenon, <1>2
<1>5. Typed(now("http"))
  BY Zenon, <1>4 DEF HttpInv, Plan
<1> QED
  BY Zenon, <1>2, <1>3, <1>5

(* The calls of a swap, in order. *)
LEMMA SwapCalls ==
    ASSUME NEW m \in {"relay", "wg"}, NEW old \in Nat, NEW new \in Nat
    PROVE  /\ GoodSeq(swap(old, new, m)) /\ Ordered(swap(old, new, m))
           /\ \A c \in Range(swap(old, new, m)) :
                 Typed(c) /\ c.op \in {"open", "close"} /\ c.m = m /\ (c.op = "open" => c.port = new)
           /\ old > 0 => \E c \in Range(swap(old, new, m)) : c.op = "close" /\ c.m = m
<1>1. PICK c, d : c = call("close", m, old) /\ d = call("open", m, new)
  BY Zenon
<1>2. /\ c.op = "close" /\ c.m = m /\ d.op = "open" /\ d.m = m /\ d.port = new
  BY <1>1 DEF call
<1>3. Good(c) /\ Good(d)
  <2>1. m \in Marker /\ "close" \in HttpOps /\ "open" \in HttpOps
    BY DEF Marker, HttpOps
  <2> QED
    BY Zenon, <1>1, <1>2, <2>1 DEF Good, call
<1>4. PICK p, q : p = (IF old > 0 THEN <<c>> ELSE <<>>) /\ q = (IF new > 0 THEN <<d>> ELSE <<>>)
  BY Zenon
<1>5. swap(old, new, m) = p \o q
  BY Zenon, <1>1, <1>4 DEF swap
<1>6. GoodSeq(p) /\ Ordered(p) /\ GoodSeq(q) /\ Ordered(q)
  BY Zenon, <1>3, <1>4, GoodSeqs, OrderedOne
<1>7. Range(p) = (IF old > 0 THEN {c} ELSE {}) /\ Range(q) = (IF new > 0 THEN {d} ELSE {})
  BY Zenon, <1>4, OrderedOne
<1>8. \A a \in Range(p), b \in Range(q) : Before(a, b)
  BY <1>2, <1>7 DEF Before
<1>9. /\ GoodSeq(p \o q) /\ Ordered(p \o q) /\ Range(p \o q) = Range(p) \cup Range(q)
  BY Zenon, <1>6, <1>8, GoodSeqs, OrderedConcat
<1>10. ASSUME NEW x \in Range(p) \cup Range(q)
       PROVE  Typed(x) /\ x.op \in {"open", "close"} /\ x.m = m /\ (x.op = "open" => x.port = new)
  <2>1. x = c \/ (x = d /\ new > 0)
    BY <1>7, <1>10
  <2> QED
    BY <1>2, <2>1 DEF Typed
<1>11. old > 0 => c \in Range(p) \cup Range(q)
  BY <1>7
<1> QED
  BY Zenon, <1>2, <1>5, <1>9, <1>10, <1>11

\* An entry is none, or has an id and a port; so has what is saved, and what
\* the background opens.
Wan == {"relay", "wg"}
RecOk(x) == x = NoRecord \/ (x.id # 0 /\ x.port \in Nat \ {0})
RecInv ==
    /\ \A m \in Wan : RecOk(record[m]) /\ RecOk(snap[m])
    /\ snap["dns"] = NoRecord
    /\ \A r \in Routine : step[r] = "save" => found[r] # 0
    /\ \A c \in Range(calls["bg"]) : c.op = "open" => c.m \in Wan /\ c.port \in Nat \ {0}

(* A swap is replaced by its calls. *)
LEMMA SwapStep ==
    ASSUME QueueInv, HttpInv, calls["http"] # <<>>, now("http").op \in {"swapRelay", "swapWg"},
           NEW s, s = <<>> \/ \E old \in Nat : s = swap(old, now("http").port, now("http").m)
    PROVE  /\ Ordered(s \o Tail(calls["http"]))
           /\ Range(s \o Tail(calls["http"])) = Range(s) \cup Range(Tail(calls["http"]))
           /\ Plan(Range(s \o Tail(calls["http"])), setting["wg"], setting["relay"])
<1> DEFINE h == now("http")
<1> DEFINE t == Tail(calls["http"])
<1>1. /\ Range(calls["http"]) = {h} \cup Range(t) /\ \A c \in Range(t) : Before(h, c)
      /\ Ordered(t) /\ GoodSeq(t) /\ Typed(h)
  BY Zenon, HttpHead
<1>2. h.m \in Wan /\ h.port \in Nat /\ (h.op = "swapRelay" <=> h.m = "relay")
  BY <1>1 DEF Typed, Wan
<1>3. /\ GoodSeq(s) /\ Ordered(s)
      /\ \A c \in Range(s) : Typed(c) /\ c.op \in {"open", "close"} /\ c.m = h.m
  <2>1. CASE s = <<>>
    BY Zenon, <2>1, GoodSeqs, OrderedOne
  <2>2. CASE \E old \in Nat : s = swap(old, h.port, h.m)
    <3>1. PICK old \in Nat : s = swap(old, h.port, h.m)
      BY Zenon, <2>2
    <3>2. PICK m, new : m = h.m /\ new = h.port
      BY Zenon
    <3>3. m \in {"relay", "wg"} /\ new \in Nat /\ s = swap(old, new, m)
      BY Zenon, <1>2, <3>1, <3>2 DEF Wan
    <3> QED
      BY ZenonT(60), <3>2, <3>3, SwapCalls
  <2> QED
    BY Zenon, <2>1, <2>2
<1>4. ASSUME NEW a \in Range(s), NEW b \in Range(t) PROVE Before(a, b)
  <2>1. a.op \in {"open", "close"} /\ a.m = h.m /\ Before(h, b)
    BY Zenon, <1>1, <1>3
  <2>2. Rank(a) = Rank(h)
    BY <1>2, <2>1 DEF Rank, Wan
  <2>3. h.op # "close"
    OBVIOUS
  <2> QED
    BY Zenon, <2>1, <2>2, <2>3 DEF Before
<1>5. Ordered(s \o t) /\ Range(s \o t) = Range(s) \cup Range(t)
  BY Zenon, <1>1, <1>3, <1>4, OrderedConcat
<1>6. Plan(Range(s) \cup Range(t), setting["wg"], setting["relay"])
  <2>1. PICK C, D, E, w, y : /\ C = Range(calls["http"]) /\ D = Range(t) /\ E = Range(s)
                             /\ w = setting["wg"] /\ y = setting["relay"]
    BY Zenon
  <2>2. Plan(C, w, y) /\ C = {h} \cup D /\ (\A c \in D : Before(h, c))
    BY Zenon, <1>1, <2>1 DEF HttpInv
  <2>3. \A e \in E : e.op \in {"open", "close"} /\ Typed(e)
    BY Zenon, <1>3, <2>1
  <2>4. Plan(E \cup D, w, y)
    BY Zenon, <2>2, <2>3, PlanSwap
  <2> QED
    BY Zenon, <2>1, <2>4
<1> QED
  BY Zenon, <1>5, <1>6

(* A step of a request leaves the rest of its plan. *)
LEMMA HttpCallStep ==
    ASSUME QueueInv, HttpInv, RecInv, callStep("http")
    PROVE  HttpInv'
<1> DEFINE q == calls["http"]
<1> DEFINE h == now("http")
<1> DEFINE t == Tail(calls["http"])
<1>1. Domains /\ Moves("http") /\ q # <<>> /\ "http" \in Routine
  <2>1. Domains /\ "http" \in Routine
    BY DEF QueueInv, Routine
  <2> QED
    BY Zenon, <2>1, CallMoves DEF Moves
<1>2. /\ Range(q) = {h} \cup Range(t) /\ \A c \in Range(t) : Before(h, c)
      /\ Ordered(t) /\ GoodSeq(t) /\ Typed(h) /\ h.op \in HttpOps
  BY Zenon, <1>1, HttpHead DEF Good
<1>3. /\ DOMAIN setting = Marker /\ setting["wg"] \in Nat \ {0} /\ setting["relay"] \in Nat
      /\ Ordered(q) /\ Plan(Range(q), setting["wg"], setting["relay"]) /\ GoodSeq(q)
  BY Zenon DEF HttpInv, QueueInv
<1>4. ASSUME calls'["http"] = <<>>, setting' = setting PROVE HttpInv'
  <2>1. Ordered(<<>>) /\ Range(<<>>) = {}
    BY Zenon, OrderedOne
  <2>2. Plan({}, setting["wg"], setting["relay"])
    BY Zenon, PlanNone
  <2> QED
    BY Zenon, <1>3, <1>4, <2>1, <2>2 DEF HttpInv
<1>5. CASE h.op \notin {"prefs", "portFile", "swapRelay", "swapWg"}
  <2>1. setting' = setting
    BY <1>1, <1>5, SettingStays
  <2>2. h.op \notin {"reconcile", "recreate"}
    BY ZenonT(30), <1>2 DEF HttpOps
  <2>3. calls'["http"] \in {<<>>, t, q}
    BY <1>1, <1>5, <2>2 DEF Moves, Passes, GoesOn, Expands
  <2>4. Plan(Range(t), setting["wg"], setting["relay"])
    <3>1. h.op \notin {"prefs", "portFile"}
      BY <1>5
    <3> QED
      BY Zenon, <1>2, <1>3, <3>1, PlanDrop
  <2> QED
    BY Zenon, <1>2, <1>3, <1>4, <2>1, <2>3, <2>4 DEF HttpInv
<1>6. CASE h.op = "prefs"
  <2>1. editPrefs("http")
    BY Zenon, <1>1, <1>6, WhichStep
  <2>2. CASE abort("http") /\ UNCHANGED setting
    <3>1. calls'["http"] = <<>>
      BY Zenon, <1>1, <2>2, DoNextIs DEF abort
    <3> QED
      BY Zenon, <1>4, <2>2, <3>1
  <2>3. CASE /\ setting' = IF h.m = "relay" THEN [setting EXCEPT !["relay"] = h.port] ELSE setting
             /\ doNext("http", Edited(q, setting["relay"]))
    <3>1. PICK e, old : e = Edited(q, old) /\ old = setting["relay"]
      BY Zenon
    <3>2. calls'["http"] = e
      BY Zenon, <1>1, <2>3, <3>1, DoNextIs
    <3>3. /\ DOMAIN setting' = Marker /\ setting'["wg"] = setting["wg"]
          /\ setting'["relay"] = IF h.m = "relay" THEN h.port ELSE setting["relay"]
      BY <1>3, <2>3 DEF Marker
    <3>4. h.m = "relay" => h.port \in Nat
      <4> SUFFICES ASSUME h.m = "relay" PROVE h.port \in Nat
        OBVIOUS
      <4>1. h \in Range(q)
        BY Zenon, <1>2
      <4>2. PICK b \in Range(q) : b.op = "swapRelay"
        BY Zenon, <1>3, <1>6, <4>1 DEF Plan, Has
      <4>3. h.port = b.port /\ Typed(b)
        BY Zenon, <1>3, <1>6, <4>1, <4>2 DEF Plan
      <4> QED
        BY <4>2, <4>3 DEF Typed
    <3>5. PICK C, D, w, y : C = Range(q) /\ D = Range(t) /\ w = setting["wg"] /\ y = setting["relay"]
      BY Zenon
    <3>6. Plan(D, w, setting'["relay"])
      BY Zenon, <1>2, <1>3, <1>6, <3>3, <3>5, PlanWritten
    <3>7. Ordered(e)
      BY Zenon, <1>1, <1>3, <3>1, OrderedEdited
    <3>8. PICK E, z : E = Range(e) /\ z = setting'["relay"]
      BY Zenon
    <3>9. /\ \A d \in E : \E c \in D :
                /\ d.op = c.op /\ d.m = c.m /\ d.port = c.port
                /\ IF c.op = "swapRelay" THEN d.old = old ELSE d = c
          /\ \A c \in D : \E d \in E :
                /\ d.op = c.op /\ d.m = c.m /\ d.port = c.port
                /\ IF c.op = "swapRelay" THEN d.old = old ELSE d = c
      <4>1. E = Range(Edited(q, old)) /\ D = Range(Tail(q)) /\ GoodSeq(q) /\ q # <<>>
        BY Zenon, <1>1, <1>3, <3>1, <3>5, <3>8
      <4> HIDE DEF q
      <4> QED
        BY <4>1, OrderedEdited
    <3>10. Plan(E, w, z)
      <4>1. old \in Nat /\ Plan(D, w, z)
        BY Zenon, <1>3, <3>1, <3>6, <3>8
      <4> QED
        BY ZenonT(60), <3>9, <4>1, PlanLike
    <3>11. setting'["wg"] \in Nat \ {0} /\ setting'["relay"] \in Nat
      BY Zenon, <1>3, <3>3, <3>4
    <3> QED
      BY Zenon, <3>2, <3>3, <3>5, <3>7, <3>8, <3>10, <3>11 DEF HttpInv
  <2> QED
    BY Zenon, <2>1, <2>2, <2>3 DEF editPrefs, Edited

<1>7. CASE h.op = "portFile"
  <2>1. applyUDPPortChange("http")
    BY Zenon, <1>1, <1>7, WhichStep
  <2>2. CASE abort("http") /\ UNCHANGED setting
    <3>1. calls'["http"] = <<>>
      BY Zenon, <1>1, <2>2, DoNextIs DEF abort
    <3> QED
      BY Zenon, <1>4, <2>2, <3>1
  <2>3. CASE setting' = [setting EXCEPT !["wg"] = h.port] /\ return("http")
    <3>1. calls'["http"] = t
      BY Zenon, <1>1, <2>3, DoNextIs DEF return
    <3>2. DOMAIN setting' = Marker /\ setting'["wg"] = h.port /\ setting'["relay"] = setting["relay"]
      BY <1>3, <2>3 DEF Marker
    <3>3. h.port \in Nat \ {0}
      BY <1>2, <1>7 DEF Typed
    <3>4. Plan(Range(t), h.port, setting["relay"])
      BY Zenon, <1>2, <1>3, <1>7, PlanWritten
    <3> QED
      BY Zenon, <1>2, <1>3, <3>1, <3>2, <3>3, <3>4 DEF HttpInv
  <2> QED
    BY Zenon, <2>1, <2>2, <2>3 DEF applyUDPPortChange
<1>8. CASE h.op \in {"swapRelay", "swapWg"}
  <2>1. setting' = setting
    BY <1>1, <1>8, SettingStays
  <2>2. CASE h.op = "swapRelay"
    <3>1. updateRelayPortRules("http")
      BY Zenon, <1>1, <2>2, WhichStep
    <3>2. PICK s : s = IF ready THEN swap(h.old, h.port, "relay") ELSE <<>>
      BY Zenon
    <3>3. calls'["http"] = s \o t
      BY Zenon, <1>1, <3>1, <3>2, DoNextIs DEF updateRelayPortRules
    <3>4. h.m = "relay" /\ h.old \in Nat
      BY <1>2, <2>2 DEF Typed
    <3>5. s = <<>> \/ s = swap(h.old, h.port, h.m)
      BY Zenon, <3>2, <3>4
    <3>6. s = <<>> \/ \E old \in Nat : s = swap(old, h.port, h.m)
      BY Zenon, <3>4, <3>5
    <3>7. Ordered(s \o t) /\ Plan(Range(s \o t), setting["wg"], setting["relay"])
      BY Zenon, <1>1, <1>8, <3>6, SwapStep
    <3> QED
      BY Zenon, <1>3, <2>1, <3>3, <3>7 DEF HttpInv
  <2>3. CASE h.op = "swapWg"
    <3>1. updateTailscaleWgPortRules("http")
      BY Zenon, <1>1, <2>3, WhichStep
    <3>2. PICK s : s = IF ready /\ record["wg"].port # h.port
                       THEN swap(record["wg"].port, h.port, "wg") ELSE <<>>
      BY Zenon
    <3>3. calls'["http"] = s \o t
      BY ZenonT(60), <1>1, <3>1, <3>2, DoNextIs DEF updateTailscaleWgPortRules
    <3>4. h.m = "wg" /\ record["wg"].port \in Nat
      BY <1>2, <2>3 DEF Typed, RecInv, RecOk, NoRecord, Wan
    <3>5. s = <<>> \/ s = swap(record["wg"].port, h.port, h.m)
      BY Zenon, <3>2, <3>4
    <3>6. s = <<>> \/ \E old \in Nat : s = swap(old, h.port, h.m)
      BY Zenon, <3>4, <3>5
    <3>7. Ordered(s \o t) /\ Plan(Range(s \o t), setting["wg"], setting["relay"])
      BY Zenon, <1>1, <1>8, <3>6, SwapStep
    <3> QED
      BY Zenon, <1>3, <2>1, <3>3, <3>7 DEF HttpInv
  <2> QED
    BY <1>8, <2>2, <2>3
<1> QED
  BY <1>5, <1>6, <1>7, <1>8

(* The background goroutine's calls after a step of it: what was there, the
   recreation, and what that opens. *)
LEMMA BgCalls ==
    ASSUME QueueInv, callStep("bg")
    PROVE  /\ calls["bg"] # <<>> /\ calls'["http"] = calls["http"] /\ step'["http"] = step["http"]
           /\ found'["http"] = found["http"] /\ setting' = setting
           /\ \A c \in Range(calls'["bg"]) :
                 \/ c \in Range(calls["bg"])
                 \/ c.op = "recreate" /\ at("bg", "reconcile", "list")
                 \/ /\ at("bg", "recreate", "start") /\ c.op = "open"
                    /\ \E m \in Marker : snap[m] # NoRecord /\ c.m = m /\ c.port = snap[m].port
<1> DEFINE q == calls["bg"]
<1>1. Domains /\ "bg" \in Routine /\ BgShape(q, snap)
  BY DEF QueueInv, Routine
<1>2. Moves("bg") /\ q # <<>>
  BY Zenon, <1>1, CallMoves DEF Moves
<1>3. now("bg") = Head(q) /\ now("bg").op \in {"open", "reconcile", "recreate", "keyDrop"}
  BY Zenon, <1>1, <1>2, BgHead DEF now
<1>4. setting' = setting
  <2>1. now("bg").op \notin {"prefs", "portFile"}
    BY <1>3
  <2> QED
    BY Zenon, <1>1, <2>1, SettingStays
<1>5. calls'["http"] = calls["http"] /\ step'["http"] = step["http"] /\ found'["http"] = found["http"]
  BY <1>2 DEF Moves, Own, Routine
<1>6. ASSUME calls'["bg"] \in {<<>>, Tail(q), q}, NEW c \in Range(calls'["bg"])
      PROVE  c \in Range(q)
  <2>1. Range(<<>>) = {}
    BY Zenon, OrderedOne
  <2> QED
    BY Zenon, <1>1, <1>2, <1>6, <2>1, BgRest
<1>7. ASSUME NEW c \in Range(calls'["bg"]), calls'["bg"] \notin {<<>>, Tail(q), q}
      PROVE  \/ c \in Range(q)
             \/ c.op = "recreate" /\ at("bg", "reconcile", "list")
             \/ /\ at("bg", "recreate", "start") /\ c.op = "open"
                /\ \E m \in Marker : snap[m] # NoRecord /\ c.m = m /\ c.port = snap[m].port
  <2>1. now("bg").op \in {"reconcile", "recreate"} /\ Expands("bg")
    BY ZenonT(30), <1>2, <1>3, <1>7 DEF Moves, Passes, GoesOn, Expands
  <2>2. ASSUME NEW s, calls'["bg"] \in {<<>>, Tail(q), q} \/ goOn("bg", s, 0) PROVE FALSE
    BY Zenon, <1>1, <1>7, <2>2, GoOnIs
  <2>3. CASE now("bg").op = "reconcile"
    <3>1. /\ at("bg", "reconcile", "list")
          /\ doNext("bg", <<call("recreate", "none", 0)>> \o Tail(q))
      <4>1. ~return("bg")
        BY Zenon, <1>1, <1>7, DoNextIs DEF return
      <4>2. ~reconcileSnapshot("bg")
        BY Zenon, <2>2, <4>1 DEF reconcileSnapshot
      <4>3. reconcileList("bg")
        BY Zenon, <1>1, <2>3, <4>2, WhichStep
      <4> QED
        BY Zenon, <4>1, <4>3 DEF reconcileList
    <3>2. calls'["bg"] = <<Recreate>> \o Tail(q) /\ Tail(q) = <<>>
      <4>1. Head(q).op # "open"
        BY <1>3, <2>3
      <4> QED
        BY Zenon, <1>1, <1>2, <3>1, <4>1, DoNextIs, BgHead DEF Recreate
    <3>3. calls'["bg"] = <<Recreate>>
      BY Zenon, <3>2, PairOf
    <3>4. c = Recreate
      BY ZenonT(60), <1>7, <3>3, OrderedOne
    <3> QED
      BY <3>1, <3>4 DEF Recreate, call
  <2>4. CASE now("bg").op = "recreate"
    <3>1. ~return("bg") /\ recreate("bg")
      BY Zenon, <1>1, <1>7, <2>4, DoNextIs, WhichStep DEF return
    <3>2. PICK m \in Marker : /\ snap[m] # NoRecord
                              /\ doNext("bg", <<call("open", m, snap[m].port)>> \o q)
      BY Zenon, <3>1 DEF recreate
    <3>3. calls'["bg"] = <<call("open", m, snap[m].port)>> \o q /\ q = <<Recreate>>
      BY Zenon, <1>1, <1>2, <1>3, <2>4, <3>2, DoNextIs, BgHead
    <3>4. PICK d : d = call("open", m, snap[m].port)
      BY Zenon
    <3>5. calls'["bg"] = <<d, Recreate>>
      BY Zenon, <3>3, <3>4, PairOf
    <3>6. c \in {d, Recreate} /\ Recreate \in Range(q)
      <4>1. Range(<<d, Recreate>>) = {d, Recreate}
        BY DEF Range
      <4>2. Recreate \in Range(q)
        BY Zenon, <3>3, OrderedOne
      <4> QED
        BY Zenon, <1>7, <3>5, <4>1, <4>2
    <3>7. d.op = "open" /\ d.m = m /\ d.port = snap[m].port
      BY <3>4 DEF call
    <3>8. at("bg", "recreate", "start")
      BY Zenon, <3>1 DEF recreate
    <3> QED
      BY Zenon, <3>2, <3>6, <3>7, <3>8
  <2> QED
    BY ZenonT(30), <2>1, <2>3, <2>4
<1> QED
  BY Zenon, <1>2, <1>4, <1>5, <1>6, <1>7

(* The snapshot is taken from the manifest, and loses entries from then on. *)
LEMMA SnapMoves ==
    ASSUME QueueInv, NEW r \in Routine, callStep(r)
    PROVE  /\ r = "http" => snap' = snap
           /\ \/ snap' = [record EXCEPT !["dns"] = NoRecord] /\ at("bg", "reconcile", "start")
                 /\ record' = record
              \/ \A m \in Marker : snap'[m] \in {snap[m], NoRecord}
<1>1. Domains
  BY DEF QueueInv
<1>2. Moves(r)
  BY Zenon, <1>1, CallMoves
<1>3. r = "http" => snap' = snap
  BY Zenon, <1>2, HttpMoves
<1>4. CASE snap' = snap
  BY Zenon, <1>3, <1>4
<1>5. CASE snap' # snap
  <2>1. now(r).op \in {"reconcile", "recreate"} /\ r = "bg"
    BY <1>2, <1>3, <1>5 DEF Moves, Routine
  <2>2. reconcileSnapshot(r) \/ reconcileList(r) \/ recreate(r)
    BY <2>1, WhichStep
  <2>3. CASE reconcileSnapshot(r)
    BY Zenon, <2>1, <2>3, <1>3 DEF reconcileSnapshot
  <2>4. CASE reconcileList(r)
    <3>1. \A m \in Marker : snap'[m] \in {snap[m], NoRecord}
      BY <1>5, <2>4 DEF reconcileList
    <3> QED
      BY Zenon, <1>3, <3>1
  <2>5. CASE recreate(r)
    <3>1. \A m \in Marker : snap'[m] \in {snap[m], NoRecord}
      BY ZenonT(60), <1>1, <1>5, <2>5 DEF recreate, Domains
    <3> QED
      BY Zenon, <1>3, <3>1
  <2> QED
    BY Zenon, <2>2, <2>3, <2>4, <2>5
<1> QED
  BY Zenon, <1>4, <1>5

\* Calls that a goroutine starts with: none closes a port, and the port that
\* is opened is tailscaled's, x.
Fresh(q, x) ==
    \A c \in Range(q) : c.op # "close" /\ (c.op = "open" => c.m = "wg" /\ c.port = x)
Start ==
    /\ DOMAIN setting' = Marker /\ setting'["wg"] = setting["wg"] /\ setting'["relay"] = setting["relay"]
    /\ UNCHANGED <<record, snap>> /\ behind \subseteq behind' /\ (ready => ready')
    /\ \/ calls'["http"] = calls["http"]
       \/ Fresh(calls'["http"], setting["wg"]) /\ (calls["http"] = <<>> \/ restart)
    /\ \/ calls'["bg"] = calls["bg"] /\ step'["bg"] = step["bg"]
       \/ /\ Fresh(calls'["bg"], setting["wg"]) /\ step'["bg"] = "start"
          /\ \A c \in Range(calls'["bg"]) : c.op # "recreate"

(* The step of no call starts some, or leaves the queues alone. *)
LEMMA Starting ==
    ASSUME QueueInv, HttpInv, WanStep \/ UNCHANGED wanVars
    PROVE  (\E r \in Routine : callStep(r)) \/ (Start /\ HttpInv')
<1>1. /\ DOMAIN setting = Marker /\ setting["wg"] \in Nat \ {0} /\ setting["relay"] \in Nat
      /\ Ordered(calls["http"]) /\ Plan(Range(calls["http"]), setting["wg"], setting["relay"])
      /\ DOMAIN calls = Routine /\ DOMAIN step = Routine
      /\ calls["bg"] = <<>> => step["bg"] = "start"
  BY Zenon DEF HttpInv, QueueInv, Domains, Routine
<1>2. CASE UNCHANGED <<setting, record, snap, behind, ready, calls, step>>
  <2>1. HttpInv'
    BY Zenon, <1>2 DEF HttpInv
  <2> QED
    BY Zenon, <1>1, <1>2, <2>1 DEF Start
<1>3. ASSUME NEW q, Ordered(q), Plan(Range(q), setting["wg"], setting["relay"]),
             Fresh(q, setting["wg"]), calls["http"] = <<>>, calls' = [calls EXCEPT !["http"] = q],
             UNCHANGED <<setting, record, snap, behind, step>>, ready => ready'
      PROVE  Start /\ HttpInv'
  <2>1. calls'["http"] = q /\ calls'["bg"] = calls["bg"]
    BY <1>1, <1>3 DEF Routine
  <2>2. HttpInv'
    BY Zenon, <1>1, <1>3, <2>1 DEF HttpInv
  <2> QED
    BY Zenon, <1>1, <1>3, <2>1, <2>2 DEF Start
<1>4. ASSUME NEW c, c.op # "close", c.op # "recreate",
             c.op = "open" => c.m = "wg" /\ c.port = setting["wg"],
             calls["bg"] = <<>>, calls' = [calls EXCEPT !["bg"] = <<c>>],
             UNCHANGED <<setting, record, snap, behind, step, ready>>
      PROVE  Start /\ HttpInv'
  <2>1. calls'["bg"] = <<c>> /\ calls'["http"] = calls["http"] /\ step'["bg"] = "start"
    BY <1>1, <1>4 DEF Routine
  <2>2. \A d \in Range(<<c>>) : d = c
    <3>1. Range(<<c>>) = {c}
      BY Zenon, OrderedOne
    <3> QED
      BY Zenon, <3>1
  <2>3. Fresh(<<c>>, setting["wg"]) /\ \A d \in Range(<<c>>) : d.op # "recreate"
    BY Zenon, <1>4, <2>2 DEF Fresh
  <2>4. HttpInv'
    BY Zenon, <1>1, <1>4, <2>1 DEF HttpInv
  <2> QED
    BY Zenon, <1>1, <1>4, <2>1, <2>3, <2>4 DEF Start
<1>5. ASSUME NEW q \in Request, SetSettings(q.relay, q.udp, q.dns) PROVE Start /\ HttpInv'
  <2>1. PICK cs : cs = opt(q.dns = "on", call("dnsOn", "dns", setting["dns"]))
                       \o opt(q.dns = "off", call("dnsOff", "dns", 0))
                       \o <<IF q.relay = -1 THEN call("prefs", "none", 0) ELSE call("prefs", "relay", q.relay)>>
                       \o opt(q.udp # 0, call("portFile", "wg", q.udp))
                       \o opt(q.relay # -1, call("swapRelay", "relay", q.relay))
                       \o opt(q.udp # 0, call("swapWg", "wg", q.udp))
    BY Zenon
  <2>2. starts("http", cs) /\ UNCHANGED behind
    BY Zenon, <1>5, <2>1 DEF SetSettings
  <2>3. /\ Ordered(cs) /\ Plan(Range(cs), setting["wg"], setting["relay"])
        /\ \A c \in Range(cs) : c.op \notin {"open", "close"}
    BY ZenonT(60), <2>1, PlanSettings
  <2>4. Fresh(cs, setting["wg"])
    BY <2>3 DEF Fresh
  <2> QED
    BY Zenon, <1>3, <2>2, <2>3, <2>4 DEF starts
<1>6. CASE SetKey
  <2>1. PICK c : c = call("open", "wg", setting["wg"])
    BY Zenon
  <2>2. c.op = "open" /\ c.m = "wg" /\ c.port = setting["wg"]
    BY <2>1 DEF call
  <2>3. Ordered(<<c>>) /\ Range(<<c>>) = {c}
    BY Zenon, OrderedOne
  <2>4. Plan({c}, setting["wg"], setting["relay"])
    BY <1>1, <2>2 DEF Plan, Has, Typed
  <2>5. Fresh(<<c>>, setting["wg"])
    BY <2>2, <2>3 DEF Fresh
  <2>6. /\ calls["http"] = <<>> /\ calls' = [calls EXCEPT !["http"] = <<c>>]
        /\ UNCHANGED <<setting, record, snap, behind, step>> /\ (ready => ready')
    BY Zenon, <1>6, <2>1 DEF SetKey
  <2> QED
    BY Zenon, <1>3, <2>3, <2>4, <2>5, <2>6
<1>7. CASE DeleteKey
  <2>1. PICK c, d : c = call("dnsOff", "dns", 0) /\ d = call("keyDelete", "none", 0)
    BY Zenon
  <2>2. c.op = "dnsOff" /\ d.op = "keyDelete" /\ d.m = "none"
    BY <2>1 DEF call
  <2>3. PICK q : q = <<c, d>>
    BY Zenon
  <2>4. Range(q) = {c, d} /\ Len(q) = 2 /\ q[1] = c /\ q[2] = d
    BY <2>3 DEF Range
  <2>5. Ordered(q)
    <3>1. Before(c, d)
      BY <2>2 DEF Before, Rank
    <3>2. ASSUME NEW i \in 1..Len(q), NEW j \in 1..Len(q), i < j PROVE i = 1 /\ j = 2
      BY <2>4, <3>2
    <3> QED
      BY Zenon, <2>4, <3>1, <3>2 DEF Ordered
  <2>6. Plan({c, d}, setting["wg"], setting["relay"])
    BY <2>2 DEF Plan, Has, Typed
  <2>7. Fresh(q, setting["wg"])
    BY <2>2, <2>4 DEF Fresh
  <2>8. /\ calls["http"] = <<>> /\ calls' = [calls EXCEPT !["http"] = q]
        /\ UNCHANGED <<setting, record, snap, behind, step, ready>>
    BY Zenon, <1>7, <2>1, <2>3 DEF DeleteKey, starts
  <2> QED
    BY Zenon, <1>3, <2>4, <2>5, <2>6, <2>7, <2>8
<1>8. CASE handleAPIKeyExpiry \/ openTailscaleWanPort
  <2>1. PICK x : /\ x = call("keyDrop", "none", 0) \/ x = call("open", "wg", setting["wg"])
                 /\ starts("bg", <<x>>) /\ UNCHANGED behind
    BY Zenon, <1>8 DEF handleAPIKeyExpiry, openTailscaleWanPort
  <2>2. x.op # "close" /\ x.op # "recreate" /\ (x.op = "open" => x.m = "wg" /\ x.port = setting["wg"])
    BY <2>1 DEF call
  <2>3. /\ calls["bg"] = <<>> /\ calls' = [calls EXCEPT !["bg"] = <<x>>]
        /\ UNCHANGED <<setting, record, snap, behind, step, ready>>
    BY Zenon, <2>1 DEF starts
  <2> QED
    BY Zenon, <1>4, <2>2, <2>3

<1>9. CASE restart
  <2>1. /\ calls'["http"] = <<>> /\ calls'["bg"] \in {<<>>, bootCalls(setting["wg"])}
        /\ step'["bg"] = "start" /\ UNCHANGED <<setting, record, snap, ready>> /\ behind \subseteq behind'
    BY <1>9 DEF restart, Routine
  <2>2. PICK c, d : c = call("open", "wg", setting["wg"]) /\ d = call("reconcile", "none", 0)
    BY Zenon
  <2>3. c.op = "open" /\ c.m = "wg" /\ c.port = setting["wg"] /\ d.op = "reconcile"
    BY <2>2 DEF call
  <2>4. Range(<<c, d>>) = {c, d} /\ Range(<<>>) = {} /\ Ordered(<<>>)
    BY DEF Range, Ordered
  <2>5. \A x \in Range(calls'["bg"]) : x = c \/ x = d
    BY Zenon, <2>1, <2>2, <2>4 DEF bootCalls
  <2>6. Fresh(calls'["bg"], setting["wg"]) /\ \A x \in Range(calls'["bg"]) : x.op # "recreate"
    BY <2>3, <2>5 DEF Fresh
  <2>7. Fresh(calls'["http"], setting["wg"])
    BY Zenon, <2>1, <2>4 DEF Fresh
  <2>8. Plan({}, setting["wg"], setting["relay"])
    BY Zenon, PlanNone
  <2>9. HttpInv'
    BY Zenon, <1>1, <2>1, <2>4, <2>8 DEF HttpInv
  <2> QED
    BY ZenonT(60), <1>1, <1>9, <2>1, <2>6, <2>7, <2>9 DEF Start
<1>10. CASE adminDeletes \/ UNCHANGED wanVars
  <2>1. UNCHANGED <<setting, record, snap, behind, ready, calls, step>>
    BY <1>10 DEF adminDeletes, wanVars
  <2> QED
    BY Zenon, <1>2, <2>1
<1>11. CASE relogin
  <2>1. /\ UNCHANGED <<record, snap, behind, ready, calls, step>> /\ DOMAIN setting' = Marker
        /\ setting'["wg"] = setting["wg"] /\ setting'["relay"] = setting["relay"]
    BY <1>1, <1>11 DEF relogin, Marker
  <2>2. HttpInv'
    BY Zenon, <1>1, <2>1 DEF HttpInv
  <2> QED
    BY Zenon, <2>1, <2>2 DEF Start
<1> QED
  BY Zenon, <1>5, <1>6, <1>7, <1>8, <1>9, <1>10, <1>11 DEF WanStep

(* What the call under way saves has a port. *)
LEMMA SavedPort ==
    ASSUME QueueInv, HttpInv, RecInv, NEW r \in Routine, calls[r] # <<>>,
           now(r).op \in {"open", "dnsOn"}, now(r).m \in Wan
    PROVE  now(r).port \in Nat \ {0} /\ now(r).op = "open"
<1>1. now(r).op = "open" /\ now(r) \in Range(calls[r])
  BY NowInHand DEF Wan
<1>2. CASE r = "http"
  BY Zenon, <1>1, <1>2, HttpHead DEF Typed
<1>3. CASE r = "bg"
  BY Zenon, <1>1, <1>3 DEF RecInv
<1> QED
  BY Zenon, <1>1, <1>2, <1>3 DEF Routine

(* Entries and snapshot keep their form. *)
LEMMA RecInvStep ==
    ASSUME QueueInv, IdInv, HttpInv, RecInv, WanStep \/ UNCHANGED wanVars
    PROVE  RecInv'
<1>1. Domains /\ Wan \subseteq Marker /\ RecOk(NoRecord)
  BY DEF QueueInv, Wan, Marker, RecOk
<1>2. /\ \A m \in Wan : RecOk(record[m]) /\ RecOk(snap[m])
      /\ snap["dns"] = NoRecord
      /\ \A r \in Routine : step[r] = "save" => found[r] # 0
      /\ \A c \in Range(calls["bg"]) : c.op = "open" => c.m \in Wan /\ c.port \in Nat \ {0}
  BY Zenon DEF RecInv
<1>3. ASSUME NEW r \in Routine, callStep(r) PROVE RecInv'
  <2>1. Moves(r) /\ calls[r] # <<>>
    BY Zenon, <1>1, <1>3, CallMoves DEF Moves
  <2>2. Calm(r) \/ Adopts(r) \/ MissesIt(r) \/ Creates(r) \/ Saves(r)
    BY Zenon, <1>3, CallKinds
  <2>3. ASSUME NEW m \in Wan PROVE RecOk(record'[m])
    <3>1. CASE record'[m] \in {record[m], NoRecord}
      BY Zenon, <1>1, <1>2, <3>1
    <3>2. CASE Saves(r) /\ m # now(r).m
      <4>1. record'[m] = record[m]
        BY ZenonT(30), <1>1, <3>2 DEF Saves, Domains
      <4> QED
        BY Zenon, <1>2, <4>1
    <3>3. CASE Saves(r) /\ m = now(r).m
      <4>1. record'[m] = [id |-> found[r], port |-> now(r).port]
        BY <1>1, <3>3 DEF Saves, Domains
      <4>2. found[r] # 0 /\ now(r).port \in Nat \ {0}
        BY Zenon, <1>2, <3>3, SavedPort DEF Saves
      <4> QED
        BY SMTT(60), <4>1, <4>2 DEF RecOk
    <3>4. Calm(r) \/ Adopts(r) \/ MissesIt(r) \/ Creates(r) => record'[m] \in {record[m], NoRecord}
      BY Zenon, <1>1 DEF Calm, Adopts, MissesIt, Creates
    <3> QED
      BY Zenon, <2>2, <3>1, <3>2, <3>3, <3>4
  <2>4. (\A m \in Wan : RecOk(snap'[m])) /\ snap'["dns"] = NoRecord
    <3>1. CASE \A m \in Marker : snap'[m] \in {snap[m], NoRecord}
      BY Zenon, <1>1, <1>2, <3>1 DEF Marker
    <3>2. CASE snap' = [record EXCEPT !["dns"] = NoRecord]
      <4>1. snap'["dns"] = NoRecord /\ \A m \in Wan : snap'[m] = record[m]
        BY <1>1, <3>2 DEF Domains, Wan, Marker
      <4> QED
        BY Zenon, <1>2, <4>1
    <3> QED
      BY Zenon, <1>3, <3>1, <3>2, SnapMoves
  <2>5. ASSUME NEW x \in Routine, step'[x] = "save" PROVE found'[x] # 0
    <3>1. CASE x # r
      BY Zenon, <1>2, <2>1, <2>5, <3>1 DEF Moves, Own
    <3>2. CASE x = r
      <4>1. Adopts(r) \/ Creates(r)
        BY <2>2, <2>5, <3>2 DEF Calm, MissesIt, Saves
      <4>2. CASE Adopts(r)
        <5>1. PICK p \in policies : found'[r] = p.id
          BY Zenon, <4>2 DEF Adopts, named
        <5>2. p.id \in 1..lastId /\ lastId \in Nat
          BY Zenon DEF IdInv
        <5> QED
          BY <3>2, <5>1, <5>2
      <4>3. CASE Creates(r)
        BY <2>5, <3>2, <4>3 DEF Creates, IdInv
      <4> QED
        BY ZenonT(60), <4>1, <4>2, <4>3
    <3> QED
      BY Zenon, <3>1, <3>2
  <2>6. ASSUME NEW c \in Range(calls'["bg"]), c.op = "open" PROVE c.m \in Wan /\ c.port \in Nat \ {0}
    <3>1. CASE r = "http"
      <4>1. calls'["bg"] = calls["bg"]
        BY <2>1, <3>1 DEF Moves, Own, Routine
      <4> QED
        BY Zenon, <1>2, <2>6, <4>1
    <3>2. CASE r = "bg"
      <4>1. CASE c \in Range(calls["bg"])
        BY ZenonT(60), <1>2, <2>6, <4>1
      <4>2. CASE \E m \in Marker : snap[m] # NoRecord /\ c.m = m /\ c.port = snap[m].port
        <5>1. PICK m \in Marker : snap[m] # NoRecord /\ c.m = m /\ c.port = snap[m].port
          BY Zenon, <4>2
        <5>2. m \in Wan
          BY <1>2, <5>1 DEF Wan, Marker
        <5> QED
          BY <1>2, <5>1, <5>2 DEF RecOk
      <4>3. c.op # "recreate"
        BY <2>6
      <4> QED
        BY Zenon, <1>3, <3>2, <4>1, <4>2, <4>3, BgCalls
    <3> QED
      BY Zenon, <3>1, <3>2 DEF Routine
  <2> QED
    BY Zenon, <2>3, <2>4, <2>5, <2>6 DEF RecInv
<1>4. ASSUME Start, Lull PROVE RecInv'
  <2>1. record' = record /\ snap' = snap
    BY <1>4 DEF Start
  <2>2. ASSUME NEW r \in Routine, step'[r] = "save" PROVE found'[r] # 0
    <3>1. step'[r] = step[r] /\ found'[r] = found[r]
      BY <1>4, <2>2 DEF Lull
    <3> QED
      BY ZenonT(60), <1>2, <2>2, <3>1
  <2>3. ASSUME NEW c \in Range(calls'["bg"]), c.op = "open" PROVE c.m \in Wan /\ c.port \in Nat \ {0}
    <3>1. CASE calls'["bg"] = calls["bg"]
      BY Zenon, <1>2, <2>3, <3>1
    <3>2. CASE Fresh(calls'["bg"], setting["wg"])
      <4>1. c.m = "wg" /\ c.port = setting["wg"]
        BY Zenon, <2>3, <3>2 DEF Fresh
      <4> QED
        BY <4>1 DEF HttpInv, Wan
    <3> QED
      BY Zenon, <1>4, <3>1, <3>2 DEF Start
  <2> QED
    BY Zenon, <1>2, <2>1, <2>2, <2>3 DEF RecInv
<1> QED
  BY ZenonT(60), <1>3, <1>4, Starting, StepKinds

-----------------------------------------------------------------------------
(* The port opened is the port set *)

\* The entry is up to date; or the request, with calls C, is about to see to
\* it: it closes the port, or swaps it with the setting written; x is the
\* entry.
Settled(m) == record[m].id # 0 => record[m].port = setting[m]
Closing(C, m) == \E c \in C : c.op = "close" /\ c.m = m
Pending(C, m, x) ==
    \/ m = "wg" /\ Has(C, "swapWg") /\ ~Has(C, "portFile")
    \/ m = "relay" /\ ~Has(C, "prefs") /\ \E c \in C : c.op = "swapRelay" /\ (x.id # 0 => c.old > 0)
Busy(C, m, x) == Closing(C, m) \/ Pending(C, m, x)

\* What is about to be opened, by a request or from the snapshot, is the port
\* set.
Opens(q, m, x) == \A c \in Range(q) : c.op = "open" /\ c.m = m => c.port = x
SnapUsed == at("bg", "reconcile", "list") \/ \E c \in Range(calls["bg"]) : c.op = "recreate"
Follows(m) ==
    /\ Closing(Range(calls["http"]), m) => ready
    /\ m \notin behind =>
          /\ Opens(calls["http"], m, setting[m]) /\ Opens(calls["bg"], m, setting[m])
          /\ Settled(m) \/ Busy(Range(calls["http"]), m, record[m])
          /\ SnapUsed /\ snap[m] # NoRecord => snap[m].port = setting[m]
FollowInv == ~raced => \A m \in Wan : Follows(m)

(* The head call goes, and is not the one that sees to m. *)
LEMMA BusyLess ==
    ASSUME NEW C, NEW D, NEW h, C = {h} \cup D, NEW m, NEW x, Busy(C, m, x),
           ~(h.op = "close" /\ h.m = m), ~(h.op = "swapWg" /\ m = "wg"),
           ~(h.op = "swapRelay" /\ m = "relay")
    PROVE  Busy(D, m, x)
<1>1. \A op : Has(D, op) => Has(C, op)
  BY Zenon DEF Has
<1>2. \A op : h.op # op /\ Has(C, op) => Has(D, op)
  BY Zenon DEF Has
<1>3. CASE Closing(C, m)
  BY <1>3 DEF Busy, Closing
<1>4. CASE m = "wg" /\ Has(C, "swapWg") /\ ~Has(C, "portFile")
  BY Zenon, <1>1, <1>2, <1>4 DEF Busy, Pending
<1>5. CASE m = "relay" /\ ~Has(C, "prefs") /\ \E c \in C : c.op = "swapRelay" /\ (x.id # 0 => c.old > 0)
  <2>1. PICK c \in C : c.op = "swapRelay" /\ (x.id # 0 => c.old > 0)
    BY Zenon, <1>5
  <2>2. c \in D
    BY <1>5, <2>1
  <2> QED
    BY Zenon, <1>1, <1>5, <2>1, <2>2 DEF Busy, Pending
<1> QED
  BY Zenon, <1>3, <1>4, <1>5 DEF Busy, Pending

(* The calls of a swap come first. *)
LEMMA BusyMore ==
    ASSUME NEW D, NEW E, NEW m, NEW x, Busy(D, m, x), \A c \in E : c.op \in {"open", "close"}
    PROVE  Busy(E \cup D, m, x)
<1>1. /\ Has(E \cup D, "portFile") => Has(D, "portFile")
      /\ Has(E \cup D, "prefs") => Has(D, "prefs")
  BY DEF Has
<1>2. Has(D, "swapWg") => Has(E \cup D, "swapWg")
  BY Zenon DEF Has
<1> QED
  BY Zenon, <1>1, <1>2 DEF Busy, Closing, Pending

(* Nothing sees to a rule before the settings are written. *)
LEMMA NotBusy ==
    ASSUME NEW C, NEW w, NEW y, Plan(C, w, y), NEW h \in C, NEW m \in Wan
    PROVE  /\ h.op \in {"dnsOn", "dnsOff", "prefs", "keyDelete"} => \A x : ~Busy(C, m, x)
           /\ h.op = "portFile" => ~Closing(C, m) /\ \A x : ~Busy(C, "wg", x)
<1>1. ASSUME h.op \in {"dnsOn", "dnsOff", "prefs", "keyDelete", "portFile"}, NEW c \in C
      PROVE  c.op # "close" /\ c.op # "open"
  BY <1>1 DEF Plan
<1>2. h.op \in {"dnsOn", "dnsOff", "prefs", "portFile"} /\ Has(C, "swapWg") => Has(C, "portFile")
  BY DEF Plan, Has
<1>3. h.op \in {"dnsOn", "dnsOff", "prefs"} /\ Has(C, "swapRelay") => Has(C, "prefs")
  BY DEF Plan, Has
<1>4. h.op = "keyDelete" => ~Has(C, "swapWg") /\ ~Has(C, "swapRelay")
  BY DEF Plan, Has
<1>5. ASSUME h.op \in {"dnsOn", "dnsOff", "prefs", "keyDelete"}, NEW x PROVE ~Busy(C, m, x)
  <2>1. ~Closing(C, m)
    BY <1>1, <1>5 DEF Closing
  <2>2. Has(C, "swapWg") => Has(C, "portFile")
    BY <1>2, <1>4, <1>5
  <2>3. (\E c \in C : c.op = "swapRelay") => Has(C, "prefs")
    BY <1>3, <1>4, <1>5 DEF Has
  <2> QED
    BY Zenon, <2>1, <2>2, <2>3 DEF Busy, Pending
<1>6. ASSUME h.op = "portFile", NEW x PROVE ~Closing(C, m) /\ ~Busy(C, "wg", x)
  <2>1. \A c \in C : c.op # "close"
    BY <1>1, <1>6
  <2>2. Has(C, "portFile") /\ "wg" # "relay"
    BY <1>6 DEF Has
  <2> QED
    BY Zenon, <2>1, <2>2 DEF Busy, Closing, Pending
<1> QED
  BY Zenon, <1>5, <1>6

(* Who sees to a rule has its marker in hand. *)
LEMMA BusyInHand ==
    ASSUME HttpInv, NEW m \in Wan, NEW x, Busy(Range(calls["http"]), m, x)
    PROVE  \E c \in Range(calls["http"]) : c.m = m
<1>1. \A c \in Range(calls["http"]) : Typed(c)
  BY Zenon DEF HttpInv, Plan
<1> QED
  BY <1>1 DEF Busy, Closing, Pending, Has, Typed

(* A marker is in one hand. *)
LEMMA OneHand ==
    ASSUME Disjoint, ~raced, NEW m \in Wan, m \in inHand("http"), m \in inHand("bg")
    PROVE  FALSE
<1>1. m \in Marker
  BY DEF Wan, Marker
<1> QED
  BY Zenon, <1>1 DEF Disjoint

(* What a call's step does to the key and to the markers behind. *)
LEMMA ReadyBehind ==
    ASSUME NEW r \in Routine, callStep(r)
    PROVE  /\ now(r).op \notin {"keyDelete", "keyDrop"} => ready' = ready
           /\ now(r).op # "swapWg" => behind \subseteq behind'
<1>1. ASSUME now(r).op \notin {"keyDelete", "keyDrop"} PROVE ready' = ready
  <2>1. ~keyGoes(r) /\ ~resetIntegration(r)
    BY <1>1 DEF keyGoes, resetIntegration, at, now
  <2> QED
    BY ZenonT(60), <2>1 DEF callStep, openStart, resolveSystemZones, dnsStart, findExisting, create,
       saveEntry, closeStart, deletePolicy, forget, dnsOff, reconcileSnapshot, reconcileList,
       recreate, editPrefs, applyUDPPortChange, updateRelayPortRules, updateTailscaleWgPortRules,
       others, context
<1>2. ASSUME now(r).op # "swapWg" PROVE behind \subseteq behind'
  <2>1. ~updateTailscaleWgPortRules(r)
    BY ZenonT(30), <1>2 DEF updateTailscaleWgPortRules, at, now
  <2>2. noFault \/ (\E M : faultOn(M)) \/ swapping(r)
    BY ZenonT(60), <2>1 DEF callStep, openStart, resolveSystemZones, dnsStart, findExisting, create,
       saveEntry, closeStart, deletePolicy, forget, dnsOff, reconcileSnapshot, reconcileList,
       recreate, editPrefs, applyUDPPortChange, updateRelayPortRules, keyGoes, resetIntegration,
       fault
  <2> QED
    BY <1>2, <2>2 DEF noFault, faultOn, swapping
<1> QED
  BY ZenonT(60), <1>1, <1>2

(* A step of the background goroutine. *)
LEMMA BgFollows ==
    ASSUME QueueInv, IdInv, HttpInv, RecInv, Disjoint, Disjoint', ~raced, ~raced', callStep("bg"),
           NEW m \in Wan, Follows(m)
    PROVE  Follows(m)'
<1> DEFINE C == Range(calls["http"])
<1>1. /\ "bg" \in Routine /\ m \in Marker /\ Domains
  BY DEF Routine, Wan, Marker, QueueInv
<1>2. /\ calls["bg"] # <<>> /\ calls'["http"] = calls["http"] /\ setting' = setting
      /\ now("bg") \in Range(calls["bg"])
      /\ now("bg").op \in {"open", "reconcile", "recreate", "keyDrop"}
  <2>1. calls["bg"] # <<>> /\ calls'["http"] = calls["http"] /\ setting' = setting
    BY Zenon, BgCalls
  <2> QED
    BY Zenon, <1>1, <2>1, BgHead DEF QueueInv, now
<1>3. Closing(C, m) => ready'
  <2> SUFFICES ASSUME Closing(C, m) PROVE ready'
    OBVIOUS
  <2>1. m \in inHand("http")
    BY Zenon DEF Closing, inHand
  <2>2. now("bg").op # "keyDrop"
    <3> SUFFICES ASSUME now("bg").op = "keyDrop" PROVE FALSE
      OBVIOUS
    <3>1. \E c \in Range(calls["bg"]) : c.op \in {"keyDelete", "keyDrop"}
      BY <1>2
    <3>2. m \in inHand("bg")
      BY Zenon, <1>1, <3>1 DEF inHand
    <3> QED
      BY Zenon, <2>1, <3>2, OneHand
  <2>3. now("bg").op \notin {"keyDelete", "keyDrop"}
    BY <1>2, <2>2
  <2>4. ready' = ready
    BY Zenon, <1>1, <2>3, ReadyBehind
  <2> QED
    BY Zenon, <2>4 DEF Follows
<1>4. behind \subseteq behind'
  BY <1>1, <1>2, ReadyBehind
<1> SUFFICES ASSUME m \notin behind'
             PROVE  /\ Opens(calls["http"], m, setting[m]) /\ Opens(calls'["bg"], m, setting[m])
                    /\ (record'[m].id # 0 => record'[m].port = setting[m]) \/ Busy(C, m, record'[m])
                    /\ SnapUsed' /\ snap'[m] # NoRecord => snap'[m].port = setting[m]
  BY Zenon, <1>2, <1>3 DEF Follows, Settled
<1>5. /\ Opens(calls["http"], m, setting[m]) /\ Opens(calls["bg"], m, setting[m])
      /\ Settled(m) \/ Busy(C, m, record[m])
      /\ SnapUsed /\ snap[m] # NoRecord => snap[m].port = setting[m]
  BY Zenon, <1>4 DEF Follows
<1>6. Opens(calls'["bg"], m, setting[m])
  <2> SUFFICES ASSUME NEW c \in Range(calls'["bg"]), c.op = "open", c.m = m PROVE c.port = setting[m]
    BY Zenon DEF Opens
  <2>1. CASE c \in Range(calls["bg"])
    BY Zenon, <1>5, <2>1 DEF Opens
  <2>2. CASE /\ at("bg", "recreate", "start")
             /\ \E n \in Marker : snap[n] # NoRecord /\ c.m = n /\ c.port = snap[n].port
    <3>1. SnapUsed
      BY Zenon, <1>2, <2>2 DEF SnapUsed, at, now
    <3> QED
      BY Zenon, <1>5, <2>2, <3>1
  <2>3. c.op # "recreate"
    OBVIOUS
  <2> QED
    BY Zenon, <2>1, <2>2, <2>3, BgCalls
<1>7. (record'[m].id # 0 => record'[m].port = setting[m]) \/ Busy(C, m, record'[m])
  <2>1. CASE record'[m] = record[m]
    BY ZenonT(60), <1>5, <2>1 DEF Settled
  <2>2. CASE record'[m] = NoRecord
    BY SMTT(60), <2>2 DEF NoRecord
  <2>3. CASE Saves("bg") /\ now("bg").m = m
    <3>1. record'[m] = [id |-> found["bg"], port |-> now("bg").port]
      BY <1>1, <2>3 DEF Saves, Domains
    <3>2. now("bg").op = "open"
      BY Zenon, <1>1, <2>3, SavedPort DEF Saves
    <3>3. now("bg").port = setting[m]
      BY ZenonT(60), <1>2, <1>5, <2>3, <3>2 DEF Opens
    <3> QED
      BY SMTT(60), <3>1, <3>3
  <2>4. Saves("bg") /\ now("bg").m # m => record'[m] = record[m]
    BY <1>1 DEF Saves, Domains
  <2>5. ~Saves("bg") => record'[m] \in {record[m], NoRecord}
    <3>1. Calm("bg") \/ Adopts("bg") \/ MissesIt("bg") \/ Creates("bg") \/ Saves("bg")
      BY Zenon, <1>1, CallKinds
    <3> QED
      BY Zenon, <1>1, <3>1 DEF Calm, Adopts, MissesIt, Creates
  <2> QED
    BY ZenonT(60), <2>1, <2>2, <2>3, <2>4, <2>5
<1>8. ASSUME SnapUsed', snap'[m] # NoRecord PROVE snap'[m].port = setting[m]
  <2>1. CASE reconcileSnapshot("bg")
    <3>1. snap'[m] = record[m]
      BY <1>1, <2>1 DEF reconcileSnapshot, Domains, Wan
    <3>2. record[m].id # 0
      BY Zenon, <1>8, <3>1 DEF RecInv, RecOk
    <3>3. CASE Settled(m)
      BY Zenon, <3>1, <3>2, <3>3 DEF Settled
    <3>4. CASE Busy(C, m, record[m])
      <4>1. \E c \in Range(calls["http"]) : c.m = m
        BY Zenon, <3>4, BusyInHand
      <4>2. m \in inHand("http")'
        BY Zenon, <1>2, <4>1 DEF inHand
      <4>3. m \in inHand("bg")'
        BY Zenon, <1>1, <1>8 DEF inHand, SnapUsed
      <4> QED
        BY Zenon, <1>1, <4>2, <4>3 DEF Disjoint
    <3> QED
      BY Zenon, <1>5, <3>3, <3>4
  <2>2. CASE ~reconcileSnapshot("bg")
    <3>1. ~at("bg", "reconcile", "start")
      <4> SUFFICES ASSUME at("bg", "reconcile", "start") PROVE FALSE
        OBVIOUS
      <4>1. now("bg").op = "reconcile" /\ step["bg"] # "list"
        BY DEF at, now
      <4>2. reconcileList("bg")
        BY Zenon, <1>1, <2>2, <4>1, WhichStep
      <4> QED
        BY Zenon, <4>1, <4>2 DEF reconcileList, at
    <3>2. snap'[m] = snap[m]
      BY Zenon, <1>1, <1>8, <3>1, SnapMoves
    <3>3. SnapUsed
      <4>1. CASE \E c \in Range(calls'["bg"]) : c.op = "recreate"
        <5>1. PICK c \in Range(calls'["bg"]) : c.op = "recreate"
          BY Zenon, <4>1
        <5>2. c.op # "open"
          BY <5>1
        <5> QED
          BY Zenon, <5>1, <5>2, BgCalls DEF SnapUsed
      <4>2. CASE at("bg", "reconcile", "list")'
        <5>1. Moves("bg") /\ step'["bg"] = "list" /\ step'["bg"] # "start"
          BY <1>1, <4>2, CallMoves DEF at
        <5>2. GoesOn("bg")
          BY Zenon, <5>1 DEF Moves, Passes, Expands
        <5>3. calls'["bg"] = calls["bg"] /\ now("bg").op = "reconcile"
          BY Zenon, <4>2, <5>2 DEF GoesOn, at, now
        <5>4. reconcileList("bg")
          BY Zenon, <1>1, <2>2, <5>3, WhichStep
        <5> QED
          BY Zenon, <5>4 DEF reconcileList, SnapUsed
      <4> QED
        BY Zenon, <1>8, <4>1, <4>2 DEF SnapUsed
    <3> QED
      BY Zenon, <1>5, <1>8, <3>2, <3>3
  <2> QED
    BY Zenon, <2>1, <2>2
<1> QED
  BY ZenonT(60), <1>5, <1>6, <1>7, <1>8

(* A step of a request that leaves the setting alone: what remains to be
   seen. *)
LEMMA HttpFrame ==
    ASSUME QueueInv, callStep("http"), NEW m \in Wan, Follows(m), setting'[m] = setting[m],
           m \notin behind' => m \notin behind,
           Closing(Range(calls'["http"]), m) => ready',
           m \notin behind' =>
              /\ Opens(calls["http"], m, setting[m]) => Opens(calls'["http"], m, setting[m])
              /\ Settled(m)' \/ Busy(Range(calls'["http"]), m, record'[m])
    PROVE  Follows(m)'
<1>1. Domains /\ "http" \in Routine
  BY ZenonT(30) DEF QueueInv, Routine
<1>2. snap' = snap /\ calls'["bg"] = calls["bg"] /\ step'["bg"] = step["bg"]
  <2>1. Moves("http")
    BY Zenon, <1>1, CallMoves
  <2>2. snap' = snap
    BY Zenon, <2>1, HttpMoves
  <2> QED
    BY <2>1, <2>2 DEF Moves, Own, Routine
<1>3. SnapUsed' = SnapUsed
  BY Zenon, <1>2 DEF SnapUsed, at
<1> QED
  BY ZenonT(60), <1>2, <1>3 DEF Follows

(* Fewer calls open no other port. *)
LEMMA OpensLess ==
    ASSUME NEW p, NEW q, \A c \in Range(q) : c \in Range(p), NEW m, NEW x, Opens(p, m, x)
    PROVE  Opens(q, m, x)
BY ZenonT(60) DEF Opens

(* The steps of the calls that open or close a port, of the DNS setting, and
   of the key. *)
LEMMA HttpQuiet ==
    ASSUME QueueInv, IdInv, HttpInv, RecInv, callStep("http"), NEW m \in Wan, Follows(m),
           now("http").op \in {"open", "close"} => Follows(now("http").m),
           now("http").op \in {"open", "close", "dnsOn", "dnsOff", "keyDelete"}
    PROVE  Follows(m)'
<1> DEFINE q == calls["http"]
<1> DEFINE h == now("http")
<1> DEFINE t == Tail(calls["http"])
<1> DEFINE C == Range(calls["http"])
<1> DEFINE E == Range(calls'["http"])
<1>1. /\ "http" \in Routine /\ m \in Marker /\ Domains /\ q # <<>> /\ Moves("http")
  <2>1. "http" \in Routine /\ m \in Marker /\ Domains
    BY DEF Routine, Wan, Marker, QueueInv
  <2> QED
    BY ZenonT(60), <2>1, CallMoves DEF Moves
<1>2. /\ C = {h} \cup Range(t) /\ Typed(h) /\ h \in C
      /\ Plan(C, setting["wg"], setting["relay"])
  BY Zenon, <1>1, HttpHead DEF HttpInv
<1>3. setting' = setting /\ behind \subseteq behind'
  BY ZenonT(60), <1>1, SettingStays, ReadyBehind
<1>4. calls'["http"] \in {<<>>, t, q}
  BY <1>1 DEF Moves, Passes, GoesOn, Expands
<1>5. \A c \in E : c \in C
  <2>1. Range(<<>>) = {}
    BY Zenon, OrderedOne
  <2> QED
    BY Zenon, <1>2, <1>4, <2>1
<1>6. Opens(calls["http"], m, setting[m]) => Opens(calls'["http"], m, setting[m])
  BY Zenon, <1>5, OpensLess
<1>7. Closing(E, m) => Closing(C, m)
  BY Zenon, <1>5 DEF Closing
<1>8. SUFFICES /\ Closing(E, m) => ready'
               /\ m \notin behind' => Settled(m)' \/ Busy(E, m, record'[m])
  BY Zenon, <1>3, <1>6, HttpFrame
<1>9. /\ Closing(C, m) => ready
      /\ m \notin behind' =>
            Opens(q, m, setting[m]) /\ (Settled(m) \/ Busy(C, m, record[m]))
  BY Zenon, <1>3 DEF Follows
<1>10. \/ record'[m] \in {record[m], NoRecord}
       \/ /\ h.op = "open" /\ h.m = m /\ record'[m].port = h.port
  <2>1. CASE Saves("http") /\ h.m = m
    <3>1. record'[m] = [id |-> found["http"], port |-> h.port]
      BY <1>1, <2>1 DEF Saves, Domains
    <3>2. h.op = "open"
      BY ZenonT(60), <1>1, <2>1, SavedPort DEF Saves
    <3> QED
      BY SMTT(60), <2>1, <3>1, <3>2
  <2>2. Saves("http") /\ h.m # m => record'[m] = record[m]
    BY <1>1 DEF Saves, Domains
  <2>3. ~Saves("http") => record'[m] \in {record[m], NoRecord}
    <3>1. Calm("http") \/ Adopts("http") \/ MissesIt("http") \/ Creates("http") \/ Saves("http")
      BY ZenonT(60), <1>1, CallKinds
    <3> QED
      BY Zenon, <1>1, <3>1 DEF Calm, Adopts, MissesIt, Creates
  <2> QED
    BY ZenonT(60), <2>1, <2>2, <2>3
<1>11. record'[m] = NoRecord => Settled(m)'
  BY DEF NoRecord, Settled
<1>12. CASE h.op \in {"dnsOn", "dnsOff", "keyDelete"}
  <2>1. ~Busy(C, m, record[m]) /\ ~Closing(C, m)
    BY <1>2, <1>12, NotBusy DEF Busy
  <2>2. h.op # "open"
    BY <1>12
  <2>3. record'[m] = record[m] /\ Settled(m) => Settled(m)'
    BY Zenon, <1>3 DEF Settled
  <2> QED
    BY ZenonT(60), <1>7, <1>9, <1>10, <1>11, <2>1, <2>2, <2>3
<1>13. ready' = ready \/ h.op = "keyDelete"
  <2>1. h.op # "keyDelete" => h.op \notin {"keyDelete", "keyDrop"}
    OBVIOUS
  <2> QED
    BY Zenon, <1>1, <2>1, ReadyBehind
<1>14. ASSUME calls'["http"] \in {t, q}, ~(h.op = "close" /\ h.m = m),
              h.op \in {"open", "close"}, m \notin behind'
       PROVE  Settled(m)' \/ Busy(E, m, record'[m])
  <2>1. CASE record'[m] = record[m] /\ Settled(m)
    BY Zenon, <1>3, <2>1 DEF Settled
  <2>2. CASE record'[m] = record[m] /\ Busy(C, m, record[m])
    <3>1. Busy(Range(t), m, record[m])
      BY <1>2, <1>14, <2>2, BusyLess
    <3> QED
      BY ZenonT(60), <1>14, <2>2, <3>1
  <2>3. CASE h.op = "open" /\ h.m = m /\ record'[m].port = h.port
    <3>1. h.port = setting[m]
      BY ZenonT(60), <1>2, <1>9, <1>14, <2>3 DEF Opens
    <3> QED
      BY Zenon, <1>3, <2>3, <3>1 DEF Settled
  <2> QED
    BY ZenonT(60), <1>9, <1>10, <1>11, <1>14, <2>1, <2>2, <2>3
<1>15. CASE h.op = "open"
  <2>1. calls'["http"] \in {t, q}
    <3>1. h.m \in Wan /\ h.m # "dns"
      BY <1>2, <1>15 DEF Typed, Wan
    <3>2. openStart("http") \/ resolveSystemZones("http") \/ findExisting("http") \/ create("http")
          \/ saveEntry("http")
      BY Zenon, <1>1, <1>15, WhichStep
    <3>3. return("http") \/ \E s, id : goOn("http", s, id)
      BY ZenonT(60), <3>1, <3>2 DEF openStart, resolveSystemZones, findExisting, create, saveEntry, returnErr
    <3> QED
      BY ZenonT(60), <1>1, <3>3, DoNextIs, GoOnIs DEF return
  <2>2. h.op # "close" /\ h.op # "keyDelete" /\ h.op \in {"open", "close"}
    BY <1>15
  <2> QED
    BY ZenonT(60), <1>7, <1>9, <1>13, <1>14, <2>1, <2>2

<1>16. CASE h.op = "close"
  <2>1. h.op # "keyDelete" /\ h.op \in {"open", "close"} /\ h.op # "open"
    BY <1>16
  <2>2. closeStart("http") \/ deletePolicy("http") \/ forget("http")
    BY ZenonT(60), <1>1, <1>16, WhichStep
  <2>3. calls'["http"] \in {t, q}
    <3>1. return("http") \/ \E s, id : goOn("http", s, id)
      BY Zenon, <2>2 DEF closeStart, deletePolicy, forget
    <3> QED
      BY Zenon, <1>1, <3>1, DoNextIs, GoOnIs DEF return
  <2>4. CASE h.m # m
    BY ZenonT(60), <1>7, <1>9, <1>13, <1>14, <2>1, <2>3, <2>4
  <2>5. ASSUME h.m = m, m \notin behind' PROVE Settled(m)' \/ Busy(E, m, record'[m])
    <3>1. ready
      BY Zenon, <1>2, <1>9, <1>16, <2>5 DEF Closing
    <3>2. CASE \E s, id : goOn("http", s, id)
      <4>1. calls'["http"] = q
        BY Zenon, <1>1, <3>2, GoOnIs
      <4>2. Closing(E, m)
        BY Zenon, <1>2, <1>16, <2>5, <4>1 DEF Closing
      <4> QED
        BY Zenon, <4>2 DEF Busy
    <3>3. CASE closeStart("http") /\ record[m].id = 0
      <4>1. record' = record
        BY Zenon, <3>3 DEF closeStart
      <4> QED
        BY Zenon, <3>3, <4>1 DEF Settled
    <3>4. CASE forget("http")
      <4>1. record'[m] = NoRecord
        BY ZenonT(30), <1>1, <2>5, <3>4 DEF forget, Domains
      <4> QED
        BY ZenonT(60), <1>11, <4>1
    <3>5. CASE fault("http")
      BY Zenon, <2>5, <3>5 DEF fault, faultOn
    <3> QED
      BY ZenonT(60), <2>2, <2>5, <3>1, <3>2, <3>3, <3>4, <3>5 DEF closeStart, deletePolicy
  <2> QED
    BY ZenonT(60), <1>7, <1>9, <1>13, <2>1, <2>4, <2>5
<1> QED
  BY <1>12, <1>15, <1>16

(* The background goroutine has nothing to do with a marker that the request
   has in hand. *)
LEMMA NotInBg ==
    ASSUME Disjoint, ~raced, NEW m \in Wan, m \in inHand("http")
    PROVE  (\A x : Opens(calls["bg"], m, x)) /\ ~(SnapUsed /\ snap[m] # NoRecord)
<1>1. m \in Marker /\ m \notin inHand("bg")
  BY OneHand DEF Wan, Marker
<1>2. \A c \in Range(calls["bg"]) : c.m # m
  BY Zenon, <1>1 DEF inHand
<1>3. ~(SnapUsed /\ snap[m] # NoRecord)
  BY Zenon, <1>1 DEF inHand, SnapUsed
<1> QED
  BY Zenon, <1>2, <1>3 DEF Opens

(* The preferences and the port file are written. *)
LEMMA HttpWrites ==
    ASSUME QueueInv, HttpInv, RecInv, Disjoint, ~raced, callStep("http"), NEW m \in Wan, Follows(m),
           now("http").op \in {"prefs", "portFile"}
    PROVE  Follows(m)'
<1> DEFINE q == calls["http"]
<1> DEFINE h == now("http")
<1> DEFINE t == Tail(calls["http"])
<1> DEFINE C == Range(calls["http"])
<1> DEFINE E == Range(calls'["http"])
<1>1. /\ "http" \in Routine /\ Domains /\ q # <<>> /\ Moves("http") /\ GoodSeq(q)
  <2>1. "http" \in Routine /\ Domains /\ GoodSeq(q)
    BY DEF Routine, QueueInv
  <2> QED
    BY ZenonT(60), <2>1, CallMoves DEF Moves
<1>2. /\ C = {h} \cup Range(t) /\ Typed(h) /\ h \in C /\ \A c \in Range(t) : Before(h, c)
      /\ Plan(C, setting["wg"], setting["relay"])
  BY Zenon, <1>1, HttpHead DEF HttpInv
<1>3. snap' = snap /\ calls'["bg"] = calls["bg"] /\ SnapUsed' = SnapUsed
  <2>1. snap' = snap
    BY Zenon, <1>1, HttpMoves
  <2>2. calls'["bg"] = calls["bg"] /\ step'["bg"] = step["bg"]
    BY ZenonT(60), <1>1 DEF Moves, Own, Routine
  <2> QED
    BY Zenon, <2>1, <2>2 DEF SnapUsed, at
<1>4. \A c \in C : c.op # "open" /\ c.op # "close"
  BY ZenonT(60), <1>2 DEF Plan
<1>5. ready' = ready /\ behind \subseteq behind'
  BY Zenon, <1>1, ReadyBehind
<1>6. record' = record
  <2>1. editPrefs("http") \/ applyUDPPortChange("http")
    BY ZenonT(60), <1>1, WhichStep
  <2> QED
    BY ZenonT(60), <2>1 DEF editPrefs, applyUDPPortChange
<1>7. m \notin behind' => Settled(m) \/ Busy(C, m, record[m])
  BY Zenon, <1>5 DEF Follows
<1>8. ASSUME setting' = setting, calls'["http"] = <<>>, m \notin behind' => Settled(m)
      PROVE  Follows(m)'
  <2>1. Range(<<>>) = {}
    BY Zenon, OrderedOne
  <2>2. Opens(calls'["http"], m, setting[m]) /\ ~Closing(E, m)
    BY Zenon, <1>8, <2>1 DEF Opens, Closing
  <2>3. m \notin behind' => Settled(m)'
    BY Zenon, <1>6, <1>8 DEF Settled
  <2> QED
    BY Zenon, <1>5, <1>8, <2>2, <2>3, HttpFrame
<1>9. ASSUME m \in inHand("http"), \A c \in E : c.op # "open" /\ c.op # "close",
             m \notin behind' => Busy(E, m, record[m])
      PROVE  Follows(m)'
  <2>1. /\ ~Closing(E, m) /\ \A x : Opens(calls'["http"], m, x)
    BY Zenon, <1>9 DEF Closing, Opens
  <2>2. (\A x : Opens(calls'["bg"], m, x)) /\ ~(SnapUsed' /\ snap'[m] # NoRecord)
    BY Zenon, <1>3, <1>9, NotInBg
  <2> QED
    BY Zenon, <1>6, <1>9, <2>1, <2>2 DEF Follows
<1>10. CASE h.op = "prefs"
  <2>1. editPrefs("http")
    BY Zenon, <1>1, <1>10, WhichStep
  <2>2. m \notin behind' => Settled(m)
    <3>1. h.op \in {"dnsOn", "dnsOff", "prefs", "keyDelete"}
      BY <1>10
    <3> QED
      BY Zenon, <1>2, <1>7, <3>1, NotBusy
  <2>3. CASE abort("http") /\ UNCHANGED setting
    <3>1. calls'["http"] = <<>>
      BY Zenon, <1>1, <2>3, DoNextIs DEF abort
    <3> QED
      BY Zenon, <1>8, <2>2, <2>3, <3>1
  <2>4. CASE /\ setting' = IF h.m = "relay" THEN [setting EXCEPT !["relay"] = h.port] ELSE setting
             /\ doNext("http", Edited(q, setting["relay"]))
    <3>1. PICK old : old = setting["relay"]
      BY Zenon
    <3>2. calls'["http"] = Edited(q, old)
      BY Zenon, <1>1, <2>4, <3>1, DoNextIs
    <3>3. \A d \in E : \E c \in Range(t) : d.op = c.op /\ d.m = c.m /\ d.port = c.port
      <4>1. PICK e : /\ e = Edited(q, old)
                     /\ \A d \in Range(e) : \E c \in Range(t) :
                           d.op = c.op /\ d.m = c.m /\ d.port = c.port
        BY <1>1, OrderedEdited
      <4> QED
        BY ZenonT(60), <3>2, <4>1
    <3>4. \A d \in E : d.op # "open" /\ d.op # "close" /\ d.op # "prefs"
      <4>1. \A c \in Range(t) : c.op # "prefs"
        BY <1>2, <1>10 DEF Before, Rank
      <4> QED
        BY ZenonT(60), <1>2, <1>4, <3>3, <4>1
    <3>5. CASE ~(m = "relay" /\ h.m = "relay")
      <4>1. setting'[m] = setting[m]
        BY <2>4, <3>5 DEF HttpInv, Marker, Wan
      <4>2. ~Closing(E, m) /\ \A x : Opens(calls'["http"], m, x)
        BY Zenon, <3>4 DEF Closing, Opens
      <4>3. m \notin behind' => Settled(m)'
        BY Zenon, <1>6, <2>2, <4>1 DEF Settled
      <4> QED
        BY Zenon, <1>5, <4>1, <4>2, <4>3, HttpFrame
    <3>6. CASE m = "relay" /\ h.m = "relay"
      <4>1. m \in inHand("http")
        BY Zenon, <1>2, <3>6 DEF inHand
      <4>2. ~Has(E, "prefs")
        BY Zenon, <3>4 DEF Has
      <4>3. PICK b \in Range(t) : b.op = "swapRelay"
        <5>1. PICK b \in C : b.op = "swapRelay"
          BY Zenon, <1>2, <1>10, <3>6 DEF Plan, Has
        <5>2. b # h
          BY <1>10, <5>1
        <5> QED
          BY Zenon, <1>2, <5>1, <5>2
      <4>4. PICK d \in E : d.op = "swapRelay" /\ d.old = old
        <5>1. PICK e : /\ e = Edited(q, old)
                       /\ \A c \in Range(t) : \E d \in Range(e) :
                             /\ d.op = c.op /\ d.m = c.m /\ d.port = c.port
                             /\ IF c.op = "swapRelay" THEN d.old = old ELSE d = c
          BY <1>1, OrderedEdited
        <5>2. PICK d \in Range(e) : d.op = b.op /\ IF b.op = "swapRelay" THEN d.old = old ELSE d = b
          BY ZenonT(60), <4>3, <5>1
        <5> QED
          BY ZenonT(60), <3>2, <4>3, <5>1, <5>2
      <4>5. ASSUME m \notin behind', record[m].id # 0 PROVE old > 0
        <5>1. record[m].port = old
          BY ZenonT(60), <2>2, <3>1, <3>6, <4>5 DEF Settled
        <5>2. record[m].port \in Nat \ {0}
          BY <4>5 DEF RecInv, RecOk, NoRecord
        <5> QED
          BY <5>1, <5>2
      <4>6. m \notin behind' => Busy(E, m, record[m])
        BY Zenon, <3>6, <4>2, <4>4, <4>5 DEF Busy, Pending
      <4> QED
        BY Zenon, <1>9, <3>4, <4>1, <4>6
    <3> QED
      BY Zenon, <3>5, <3>6
  <2> QED
    BY Zenon, <2>1, <2>3, <2>4 DEF editPrefs, Edited

<1>11. CASE h.op = "portFile"
  <2>1. applyUDPPortChange("http")
    BY Zenon, <1>1, <1>11, WhichStep
  <2>2. m = "wg" => ~Busy(C, m, record[m])
    BY Zenon, <1>2, <1>11, NotBusy
  <2>3. CASE abort("http") /\ UNCHANGED setting /\ faultOn(inHand("http") \ {"wg"})
    <3>1. calls'["http"] = <<>>
      BY Zenon, <1>1, <2>3, DoNextIs DEF abort
    <3>2. ASSUME m # "wg", m \notin behind', Busy(C, m, record[m]) PROVE FALSE
      <4>1. \E c \in C : c.m = m
        BY Zenon, <3>2, BusyInHand
      <4>2. m \in inHand("http")
        BY Zenon, <4>1 DEF inHand
      <4> QED
        BY Zenon, <2>3, <3>2, <4>2 DEF faultOn
    <3> QED
      BY ZenonT(60), <1>7, <1>8, <2>2, <2>3, <3>1, <3>2
  <2>4. CASE setting' = [setting EXCEPT !["wg"] = h.port] /\ return("http")
    <3>1. calls'["http"] = t
      BY Zenon, <1>1, <2>4, DoNextIs DEF return
    <3>2. \A c \in E : c \in C
      BY Zenon, <1>2, <3>1
    <3>3. \A c \in E : c.op # "open" /\ c.op # "close"
      BY Zenon, <1>4, <3>2
    <3>4. CASE m = "relay"
      <4>1. setting'[m] = setting[m]
        BY <2>4, <3>4 DEF HttpInv, Marker
      <4>2. ~Closing(E, m) /\ Opens(calls'["http"], m, setting[m])
        BY Zenon, <3>3 DEF Closing, Opens
      <4>3. Busy(C, m, record[m]) => Busy(E, m, record'[m])
        <5>1. ~(h.op = "close" /\ h.m = m) /\ ~(h.op = "swapWg" /\ m = "wg")
              /\ ~(h.op = "swapRelay" /\ m = "relay")
          BY <1>11
        <5> QED
          BY ZenonT(60), <1>2, <1>6, <3>1, <5>1, BusyLess
      <4>4. Settled(m) => Settled(m)'
        BY Zenon, <1>6, <4>1 DEF Settled
      <4> QED
        BY ZenonT(60), <1>5, <1>7, <4>1, <4>2, <4>3, <4>4, HttpFrame
    <3>5. CASE m = "wg"
      <4>1. m \in inHand("http")
        <5>1. h.m = "wg"
          BY <1>2, <1>11 DEF Typed
        <5> QED
          BY ZenonT(60), <1>2, <3>5, <5>1 DEF inHand
      <4>2. ~Has(E, "portFile")
        <5>1. \A c \in Range(t) : c.op # "portFile"
          BY <1>2, <1>11 DEF Before, Rank
        <5> QED
          BY ZenonT(60), <3>1, <5>1 DEF Has
      <4>3. Has(E, "swapWg")
        <5>1. PICK b \in C : b.op = "swapWg"
          BY Zenon, <1>2, <1>11 DEF Plan, Has
        <5>2. b # h
          BY <1>11, <5>1
        <5> QED
          BY Zenon, <1>2, <3>1, <5>1, <5>2 DEF Has
      <4>4. Busy(E, m, record[m])
        BY Zenon, <3>5, <4>2, <4>3 DEF Busy, Pending
      <4> QED
        BY Zenon, <1>9, <3>3, <4>1, <4>4
    <3> QED
      BY Zenon, <3>4, <3>5 DEF Wan
  <2> QED
    BY Zenon, <2>1, <2>3, <2>4 DEF applyUDPPortChange
<1> QED
  BY <1>10, <1>11

(* A swap of rules is replaced by the calls that do it. *)
LEMMA SwapParts ==
    ASSUME QueueInv, HttpInv, RecInv, callStep("http"), now("http").op \in {"swapRelay", "swapWg"}
    PROVE  \E s, o :
              /\ calls'["http"] = s \o Tail(calls["http"]) /\ o \in Nat
              /\ s = <<>> \/ s = swap(o, now("http").port, now("http").m)
              /\ ~ready => s = <<>>
              /\ ready /\ now("http").op = "swapRelay" =>
                    o = now("http").old /\ s = swap(o, now("http").port, now("http").m)
              /\ ready /\ now("http").op = "swapWg" =>
                    /\ o = record["wg"].port
                    /\ o = now("http").port \/ s = swap(o, now("http").port, now("http").m)
<1> DEFINE h == now("http")
<1> DEFINE t == Tail(calls["http"])
<1>1. "http" \in Routine /\ Domains
  BY DEF Routine, QueueInv
<1>2. Moves("http") /\ calls["http"] # <<>>
  BY Zenon, <1>1, CallMoves DEF Moves
<1>3. Typed(h)
  BY Zenon, <1>2, HttpHead
<1>4. CASE h.op = "swapRelay"
  <2>1. updateRelayPortRules("http")
    BY Zenon, <1>1, <1>4, WhichStep
  <2>2. PICK s : s = IF ready THEN swap(h.old, h.port, "relay") ELSE <<>>
    BY Zenon
  <2>3. calls'["http"] = s \o t
    BY ZenonT(60), <1>1, <2>1, <2>2, DoNextIs DEF updateRelayPortRules
  <2>4. h.m = "relay" /\ h.old \in Nat /\ h.op # "swapWg"
    BY <1>3, <1>4 DEF Typed
  <2> QED
    BY Zenon, <2>2, <2>3, <2>4
<1>5. CASE h.op = "swapWg"
  <2>1. updateTailscaleWgPortRules("http")
    BY Zenon, <1>1, <1>5, WhichStep
  <2>2. PICK s : s = IF ready /\ record["wg"].port # h.port
                     THEN swap(record["wg"].port, h.port, "wg") ELSE <<>>
    BY Zenon
  <2>3. calls'["http"] = s \o t
    BY ZenonT(60), <1>1, <2>1, <2>2, DoNextIs DEF updateTailscaleWgPortRules
  <2>4. h.m = "wg" /\ record["wg"].port \in Nat /\ h.op # "swapRelay"
    BY SMTT(60), <1>3, <1>5 DEF Typed, RecInv, RecOk, NoRecord, Wan
  <2> QED
    BY Zenon, <2>2, <2>3, <2>4
<1> QED
  BY ZenonT(60), <1>4, <1>5

(* What stands behind a swap of rules in a request's queue. *)
LEMMA SwapAhead ==
    ASSUME QueueInv, HttpInv, calls["http"] # <<>>, now("http").op \in {"swapRelay", "swapWg"}
    PROVE  /\ \A c \in Range(Tail(calls["http"])) :
                 /\ ~(c.op \in {"open", "close"} /\ c.m = now("http").m)
                 /\ c.op # now("http").op /\ c.op # "prefs" /\ c.op # "portFile"
           /\ now("http").m \in Wan /\ now("http").port = setting[now("http").m]
           /\ now("http").op = "swapRelay" <=> now("http").m = "relay"
<1> DEFINE h == now("http")
<1> DEFINE t == Tail(calls["http"])
<1> DEFINE C == Range(calls["http"])
<1>1. C = {h} \cup Range(t) /\ Typed(h) /\ h \in C /\ \A c \in Range(t) : Before(h, c)
  BY ZenonT(60), HttpHead
<1>2. ASSUME NEW c \in Range(t)
      PROVE  /\ ~(c.op \in {"open", "close"} /\ c.m = h.m)
             /\ c.op # h.op /\ c.op # "prefs" /\ c.op # "portFile"
  BY SMTT(60), <1>1, <1>2 DEF Before, Rank, Typed
<1>3. h.op # "prefs" /\ h.op # "portFile" /\ (h.op = "swapRelay" => h.m = "relay")
      /\ (h.op = "swapWg" => h.m = "wg")
  BY <1>1 DEF Typed
<1>4. ~Has(C, "prefs") /\ ~Has(C, "portFile")
  BY Zenon, <1>1, <1>2, <1>3 DEF Has
<1>5. (h.op = "swapRelay" => h.port = setting["relay"]) /\ (h.op = "swapWg" => h.port = setting["wg"])
  BY Zenon, <1>1, <1>4 DEF HttpInv, Plan
<1> QED
  BY <1>2, <1>3, <1>5 DEF Wan

(* A swap of rules, of the marker itself or of the other one. *)
LEMMA HttpSwaps ==
    ASSUME QueueInv, HttpInv, RecInv, Disjoint, ~raced, callStep("http"), NEW m \in Wan, Follows(m),
           now("http").op \in {"swapRelay", "swapWg"}
    PROVE  Follows(m)'
<1> DEFINE h == now("http")
<1> DEFINE t == Tail(calls["http"])
<1> DEFINE C == Range(calls["http"])
<1> DEFINE E == Range(calls'["http"])
<1>1. /\ "http" \in Routine /\ Domains /\ calls["http"] # <<>> /\ Moves("http")
  <2>1. "http" \in Routine /\ Domains
    BY DEF Routine, QueueInv
  <2> QED
    BY ZenonT(60), <2>1, CallMoves DEF Moves
<1>2. C = {h} \cup Range(t) /\ h \in C
  BY Zenon, <1>1, HttpHead
<1>3. /\ \A c \in Range(t) : /\ ~(c.op \in {"open", "close"} /\ c.m = h.m)
                             /\ c.op # h.op /\ c.op # "prefs" /\ c.op # "portFile"
      /\ h.m \in Wan /\ h.port = setting[h.m] /\ h.port \in Nat
      /\ h.op = "swapRelay" <=> h.m = "relay"
  <2>1. h.m \in Wan /\ h.port = setting[h.m]
    BY Zenon, <1>1, SwapAhead
  <2>2. h.port \in Nat
    BY <2>1 DEF HttpInv, Wan
  <2> QED
    BY Zenon, <1>1, <2>1, <2>2, SwapAhead
<1>4. PICK s, o : /\ calls'["http"] = s \o t /\ o \in Nat
                  /\ s = <<>> \/ s = swap(o, h.port, h.m)
                  /\ ~ready => s = <<>>
                  /\ ready /\ h.op = "swapRelay" => o = h.old /\ s = swap(o, h.port, h.m)
                  /\ ready /\ h.op = "swapWg" =>
                        /\ o = record["wg"].port
                        /\ o = h.port \/ s = swap(o, h.port, h.m)
  BY Zenon, SwapParts
<1>5. E = Range(s) \cup Range(t)
  <2>1. s = <<>> \/ \E x \in Nat : s = swap(x, h.port, h.m)
    BY Zenon, <1>4
  <2> QED
    BY Zenon, <1>1, <1>4, <2>1, SwapStep
<1>6. /\ \A c \in Range(s) : c.op \in {"open", "close"} /\ c.m = h.m /\ (c.op = "open" => c.port = h.port)
      /\ s = swap(o, h.port, h.m) /\ o > 0 => Closing(Range(s), h.m)
      /\ ~ready => Range(s) = {}
  <2>1. PICK a, b : a = h.m /\ b = h.port /\ a \in {"relay", "wg"} /\ b \in Nat
    BY Zenon, <1>3 DEF Wan
  <2>2. /\ \A c \in Range(swap(o, b, a)) :
               Typed(c) /\ c.op \in {"open", "close"} /\ c.m = a /\ (c.op = "open" => c.port = b)
        /\ o > 0 => \E c \in Range(swap(o, b, a)) : c.op = "close" /\ c.m = a
    <3>1. o \in Nat
      BY Zenon, <1>4
    <3> QED
      BY SMTT(60), <2>1, <3>1, SwapCalls
  <2>3. Range(<<>>) = {}
    BY Zenon, OrderedOne
  <2> QED
    BY Zenon, <1>4, <2>1, <2>2, <2>3 DEF Closing
<1>7. /\ setting' = setting /\ record' = record /\ ready' = ready
      /\ behind' = IF ~ready THEN behind \cup {h.m}
                   ELSE IF h.op = "swapWg" THEN behind \ {"wg"} ELSE behind
  <2>1. setting' = setting
    BY Zenon, <1>1, SettingStays
  <2>2. ready' = ready
    BY Zenon, <1>1, ReadyBehind
  <2>3. updateRelayPortRules("http") \/ updateTailscaleWgPortRules("http")
    BY ZenonT(60), <1>1, WhichStep
  <2> QED
    BY Zenon, <2>1, <2>2, <2>3 DEF updateRelayPortRules, updateTailscaleWgPortRules, swapping
<1>8. CASE m # h.m
  <2>1. setting'[m] = setting[m] /\ (m \notin behind' => m \notin behind)
    BY <1>3, <1>7, <1>8 DEF Wan
  <2>2. \A c \in E : c \in Range(s) \/ c \in C
    BY Zenon, <1>2, <1>5
  <2>3. Closing(E, m) => ready'
    <3>1. Closing(E, m) => Closing(C, m)
      BY Zenon, <1>6, <1>8, <2>2 DEF Closing
    <3> QED
      BY Zenon, <1>7, <3>1 DEF Follows
  <2>4. Opens(calls["http"], m, setting[m]) => Opens(calls'["http"], m, setting[m])
    BY Zenon, <1>6, <1>8, <2>2 DEF Opens
  <2>5. Busy(C, m, record[m]) => Busy(E, m, record'[m])
    <3>1. ~(h.op = "close" /\ h.m = m) /\ ~(h.op = "swapWg" /\ m = "wg")
          /\ ~(h.op = "swapRelay" /\ m = "relay")
      BY <1>3, <1>8 DEF Wan
    <3>2. Busy(C, m, record[m]) => Busy(Range(t), m, record[m])
      BY Zenon, <1>2, <3>1, BusyLess
    <3>3. PICK A, B, x : A = Range(s) /\ B = Range(t) /\ x = record[m]
      BY Zenon
    <3>4. Busy(B, m, x) => Busy(A \cup B, m, x)
      <4>1. \A c \in A : c.op \in {"open", "close"}
        BY Zenon, <1>6, <3>3
      <4> QED
        BY Zenon, <4>1, BusyMore
    <3> QED
      BY ZenonT(60), <1>5, <1>7, <3>2, <3>3, <3>4
  <2>6. Settled(m) => Settled(m)'
    BY Zenon, <1>7 DEF Settled
  <2> QED
    BY ZenonT(60), <2>1, <2>3, <2>4, <2>5, <2>6, HttpFrame DEF Follows
<1>9. CASE m = h.m /\ ~ready
  <2>1. m \in behind'
    BY Zenon, <1>7, <1>9
  <2>2. ~Closing(E, m)
    <3>1. ~Closing(C, m)
      BY Zenon, <1>9 DEF Follows
    <3> QED
      BY Zenon, <1>2, <1>5, <1>6, <1>9, <3>1 DEF Closing
  <2> QED
    BY Zenon, <2>1, <2>2 DEF Follows

<1>10. CASE m = h.m /\ ready
  <2>1. \A c \in E : c.op = "open" /\ c.m = m => c.port = setting[m]
    <3>1. ASSUME NEW c \in E, c.op = "open", c.m = m PROVE c.port = setting[m]
      <4>1. c \notin Range(t)
        BY <1>3, <1>10, <3>1
      <4> QED
        BY ZenonT(60), <1>3, <1>5, <1>6, <1>10, <3>1, <4>1
    <3> QED
      BY Zenon, <3>1
  <2>2. m \in inHand("http")
    BY Zenon, <1>2, <1>10 DEF inHand
  <2>3. (\A x : Opens(calls'["bg"], m, x)) /\ ~(SnapUsed' /\ snap'[m] # NoRecord)
    <3>1. snap' = snap
      BY ZenonT(60), <1>1, HttpMoves
    <3>2. calls'["bg"] = calls["bg"] /\ step'["bg"] = step["bg"]
      BY <1>1 DEF Moves, Own, Routine
    <3>3. SnapUsed' = SnapUsed
      BY ZenonT(60), <3>1, <3>2 DEF SnapUsed, at
    <3> QED
      BY Zenon, <2>2, <3>1, <3>2, <3>3, NotInBg
  <2>4. record[m].id # 0 => record[m].port \in Nat \ {0}
    BY DEF RecInv, RecOk, NoRecord
  <2>5. Closing(Range(s), m) => Busy(E, m, record[m])
    BY Zenon, <1>5 DEF Busy, Closing
  <2>6. m \notin behind' => Settled(m) \/ Busy(E, m, record[m])
    <3>1. CASE h.op = "swapRelay"
      <4>1. m \notin behind' => Settled(m) \/ Busy(C, m, record[m])
        BY ZenonT(60), <1>7, <1>10, <3>1 DEF Follows
      <4>2. m = "relay" /\ m # "wg"
        BY <1>3, <1>10, <3>1
      <4>3. ~Closing(C, m)
        <5>1. h.op # "close"
          BY <3>1
        <5>2. \A c \in Range(t) : ~(c.op = "close" /\ c.m = m)
          BY <1>3, <1>10
        <5> QED
          BY Zenon, <1>2, <5>1, <5>2 DEF Closing
      <4>4. ASSUME Busy(C, m, record[m]), record[m].id # 0 PROVE Busy(E, m, record[m])
        <5>1. PICK c \in C : c.op = "swapRelay" /\ c.old > 0
          BY Zenon, <4>2, <4>3, <4>4 DEF Busy, Pending
        <5>2. c = h
          BY ZenonT(60), <1>2, <1>3, <3>1, <5>1
        <5> QED
          BY ZenonT(60), <1>4, <1>6, <1>10, <2>5, <3>1, <5>1, <5>2
      <4> QED
        BY ZenonT(60), <4>1, <4>4 DEF Settled
    <3>2. CASE h.op = "swapWg"
      <4>1. m = "wg"
        BY <1>3, <1>10, <3>2 DEF Wan
      <4>2. CASE record[m].id = 0
        BY Zenon, <4>2 DEF Settled
      <4>3. CASE o = h.port
        BY ZenonT(60), <1>3, <1>4, <1>10, <3>2, <4>1, <4>3 DEF Settled
      <4>4. CASE record[m].id # 0 /\ s = swap(o, h.port, h.m)
        <5>1. o = record[m].port
          BY ZenonT(60), <1>4, <1>10, <3>2, <4>1
        <5>2. o > 0
          BY <2>4, <4>4, <5>1
        <5> QED
          BY Zenon, <1>6, <1>10, <2>5, <4>4, <5>2
      <4> QED
        BY ZenonT(60), <1>4, <1>10, <3>2, <4>2, <4>3, <4>4
    <3> QED
      BY <3>1, <3>2
  <2> QED
    BY Zenon, <1>7, <1>10, <2>1, <2>3, <2>6 DEF Follows, Settled, Opens
<1> QED
  BY Zenon, <1>8, <1>9, <1>10

(* The steps that start calls, or none: a request, the key, a restart. *)
LEMMA StartFollows ==
    ASSUME QueueInv, HttpInv, NEW m \in Wan, Follows(m), Start
    PROVE  Follows(m)'
<1> DEFINE C == Range(calls["http"])
<1> DEFINE E == Range(calls'["http"])
<1>1. m \in Marker /\ setting'[m] = setting[m] /\ record' = record /\ snap' = snap
      /\ (m \notin behind' => m \notin behind) /\ (ready => ready')
  BY DEF Wan, Marker, Start
<1>2. ASSUME NEW q, Fresh(q, setting["wg"]) PROVE ~Closing(Range(q), m) /\ Opens(q, m, setting[m])
  BY Zenon, <1>2 DEF Fresh, Closing, Opens
<1>3. /\ Closing(E, m) => ready'
      /\ m \notin behind' => /\ Opens(calls'["http"], m, setting'[m])
                             /\ Settled(m)' \/ Busy(E, m, record'[m])
  <2>1. CASE calls'["http"] = calls["http"]
    BY Zenon, <1>1, <2>1 DEF Follows, Settled
  <2>2. CASE Fresh(calls'["http"], setting["wg"]) /\ (calls["http"] = <<>> \/ restart)
    <3>1. ~Closing(E, m) /\ Opens(calls'["http"], m, setting[m])
      BY Zenon, <1>2, <2>2
    <3>2. ASSUME m \notin behind', Busy(C, m, record[m]) PROVE FALSE
      <4>1. PICK c \in C : c.m = m
        BY Zenon, <3>2, BusyInHand
      <4>2. calls["http"] # <<>>
        BY Zenon, <4>1, OrderedOne
      <4>3. m \in inHand("http")
        BY Zenon, <4>1 DEF inHand
      <4> QED
        BY ZenonT(60), <1>1, <2>2, <3>2, <4>2, <4>3 DEF restart
    <3>3. m \notin behind' => Settled(m)'
      BY Zenon, <1>1, <3>2 DEF Follows, Settled
    <3> QED
      BY Zenon, <1>1, <3>1, <3>3
  <2> QED
    BY Zenon, <2>1, <2>2 DEF Start
<1>4. m \notin behind' =>
         /\ Opens(calls'["bg"], m, setting'[m])
         /\ SnapUsed' /\ snap'[m] # NoRecord => snap'[m].port = setting'[m]
  <2>1. CASE calls'["bg"] = calls["bg"] /\ step'["bg"] = step["bg"]
    <3>1. SnapUsed' = SnapUsed
      BY Zenon, <2>1 DEF SnapUsed, at
    <3> QED
      BY Zenon, <1>1, <2>1, <3>1 DEF Follows
  <2>2. CASE /\ Fresh(calls'["bg"], setting["wg"]) /\ step'["bg"] = "start"
             /\ \A c \in Range(calls'["bg"]) : c.op # "recreate"
    <3>1. ~SnapUsed'
      <4>1. step'["bg"] # "list"
        BY <2>2
      <4> QED
        BY Zenon, <2>2, <4>1 DEF SnapUsed, at
    <3> QED
      BY Zenon, <1>1, <1>2, <2>2, <3>1
  <2> QED
    BY Zenon, <2>1, <2>2 DEF Start
<1> QED
  BY ZenonT(60), <1>3, <1>4 DEF Follows

(* A step of a goroutine's call, or one that starts calls, keeps FollowInv. *)
LEMMA FollowInvStep ==
    ASSUME QueueInv, IdInv, HttpInv, RecInv, Disjoint, Disjoint', FollowInv,
           WanNext \/ UNCHANGED wanVars
    PROVE  FollowInv'
<1> SUFFICES ASSUME ~raced', NEW m \in Wan PROVE Follows(m)'
  BY Zenon DEF FollowInv
<1>1. ~raced /\ (WanStep \/ UNCHANGED wanVars)
  <2>1. ~raced
    BY Zenon DEF WanNext, wanVars
  <2> QED
    BY Zenon, <2>1 DEF WanNext
<1>2. \A n \in Wan : Follows(n)
  BY Zenon, <1>1 DEF FollowInv
<1>3. CASE callStep("bg")
  BY Zenon, <1>1, <1>2, <1>3, BgFollows
<1>4. CASE callStep("http")
  <2>1. "http" \in Routine /\ Domains
    BY DEF Routine, QueueInv
  <2>2. Moves("http") /\ calls["http"] # <<>>
    BY Zenon, <1>4, <2>1, CallMoves DEF Moves
  <2>3. now("http") \in Range(calls["http"]) /\ Typed(now("http"))
    BY Zenon, <2>2, HttpHead
  <2>4. now("http").op \in HttpOps
    BY Zenon, <2>3 DEF QueueInv, GoodSeq, Good
  <2>5. CASE now("http").op \in {"open", "close", "dnsOn", "dnsOff", "keyDelete"}
    <3>1. now("http").op \in {"open", "close"} => now("http").m \in Wan
      BY <2>3 DEF Typed, Wan
    <3> QED
      BY ZenonT(60), <1>2, <1>4, <2>5, <3>1, HttpQuiet
  <2>6. CASE now("http").op \in {"prefs", "portFile"}
    BY Zenon, <1>1, <1>2, <1>4, <2>6, HttpWrites
  <2>7. CASE now("http").op \in {"swapRelay", "swapWg"}
    BY ZenonT(60), <1>1, <1>2, <1>4, <2>7, HttpSwaps
  <2> QED
    BY ZenonT(30), <2>4, <2>5, <2>6, <2>7 DEF HttpOps
<1>5. CASE Start
  BY Zenon, <1>2, <1>5, StartFollows
<1> QED
  BY Zenon, <1>1, <1>3, <1>4, <1>5, Starting DEF Routine

(* The daemon starts with nothing on record, and opens tailscaled's port. *)
LEMMA InitFollows == WanInit => Disjoint /\ HttpInv /\ RecInv /\ FollowInv
<1> SUFFICES ASSUME WanInit PROVE Disjoint /\ HttpInv /\ RecInv /\ FollowInv
  OBVIOUS
<1>1. /\ record = [m \in Marker |-> NoRecord] /\ snap = record
      /\ setting = [relay |-> 0, wg |-> BootPort, dns |-> BootPort]
      /\ calls = [r \in Routine |-> IF r = "bg" THEN bootCalls(setting["wg"]) ELSE <<>>]
      /\ step = [r \in Routine |-> "start"]
  BY Zenon DEF WanInit
<1>2. /\ DOMAIN setting = Marker /\ setting["wg"] = BootPort /\ setting["relay"] = 0
      /\ BootPort \in Nat \ {0}
  <2>1. BootPort \in Nat \ {0}
    BY ZenonT(30), PortAssumption
  <2> QED
    BY <1>1, <2>1 DEF Marker
<1>3. calls["http"] = <<>> /\ calls["bg"] = bootCalls(BootPort)
  BY <1>1, <1>2 DEF Routine
<1>4. Range(calls["http"]) = {} /\ Ordered(<<>>)
  BY Zenon, <1>3, OrderedOne
<1>5. HttpInv
  <2>1. Plan({}, setting["wg"], setting["relay"])
    BY Zenon, PlanNone
  <2>2. setting["wg"] \in Nat \ {0} /\ setting["relay"] \in Nat
    BY <1>2
  <2> QED
    BY ZenonT(60), <1>2, <1>3, <1>4, <2>1, <2>2 DEF HttpInv
<1>6. \A c \in Range(calls["bg"]) :
         /\ c.op # "close" /\ c.op # "recreate"
         /\ c.op = "open" => c.m = "wg" /\ c.port = BootPort
  <2>1. PICK a, b : a = call("open", "wg", BootPort) /\ b = call("reconcile", "none", 0)
    BY Zenon
  <2>2. Range(<<a, b>>) = {a, b}
    BY DEF Range
  <2>3. a.op = "open" /\ a.m = "wg" /\ a.port = BootPort /\ b.op = "reconcile"
    BY <2>1 DEF call
  <2>4. calls["bg"] = <<a, b>>
    BY Zenon, <1>3, <2>1 DEF bootCalls
  <2> QED
    BY <2>2, <2>3, <2>4
<1>7. \A m \in Marker : record[m] = NoRecord /\ snap[m] = NoRecord
  BY Zenon, <1>1
<1>8. \A r \in Routine : step[r] = "start"
  BY Zenon, <1>1
<1>9. Wan \subseteq Marker /\ "dns" \in Marker /\ "wg" \in Wan
  BY DEF Wan, Marker
<1>10. RecInv
  <2>1. \A r \in Routine : step[r] # "save"
    BY <1>8
  <2>2. \A c \in Range(calls["bg"]) : c.op = "open" => c.m \in Wan /\ c.port \in Nat \ {0}
    BY Zenon, <1>2, <1>6, <1>9
  <2> QED
    BY Zenon, <1>7, <1>9, <2>1, <2>2 DEF RecInv, RecOk
<1>11. ASSUME NEW m \in Wan PROVE Follows(m)
  <2>1. ~Closing(Range(calls["http"]), m) /\ Opens(calls["http"], m, setting[m])
    BY Zenon, <1>4 DEF Closing, Opens
  <2>2. Opens(calls["bg"], m, setting[m])
    BY ZenonT(60), <1>2, <1>6 DEF Opens
  <2>3. Settled(m) /\ snap[m] = NoRecord
    BY <1>7, <1>9 DEF Settled, NoRecord
  <2> QED
    BY Zenon, <2>1, <2>2, <2>3 DEF Follows
<1>12. Disjoint
  <2>1. inHand("http") = {}
    BY <1>3, <1>4 DEF inHand, at
  <2> QED
    BY ZenonT(30), <2>1 DEF Disjoint
<1> QED
  BY Zenon, <1>5, <1>10, <1>11, <1>12 DEF FollowInv

(* Once the calls are over, the port opened on the WAN side is the port set:
   what editPrefs, applyUDPPortChange and the swaps of rules do in turn. *)
THEOREM PortsFollowSettings == WanSpec => []PolicyFollowsSetting
<1> DEFINE PortInv == QueueInv /\ IdInv /\ Disjoint /\ HttpInv /\ RecInv /\ FollowInv
<1>1. WanInit => PortInv
  BY Zenon, InitQueues, InitFollows
<1>2. PortInv /\ [WanNext]_wanVars => PortInv'
  <2> SUFFICES ASSUME PortInv, WanNext \/ UNCHANGED wanVars PROVE PortInv'
    OBVIOUS
  <2>1. WanStep \/ UNCHANGED wanVars
    BY Zenon DEF WanNext
  <2>2. QueueInv' /\ IdInv' /\ Disjoint' /\ RecInv'
    BY ZenonT(60), <2>1, QueueStep, IdStep, DisjointStep, RecInvStep
  <2>3. HttpInv'
    <3>1. CASE callStep("http")
      BY Zenon, <3>1, HttpCallStep
    <3>2. CASE callStep("bg")
      <4>1. calls'["http"] = calls["http"] /\ setting' = setting
        BY Zenon, <3>2, BgCalls
      <4> QED
        BY Zenon, <4>1 DEF HttpInv
    <3> QED
      BY Zenon, <2>1, <3>1, <3>2, Starting DEF Routine
  <2> QED
    BY Zenon, <2>2, <2>3, FollowInvStep
<1>3. PortInv => PolicyFollowsSetting
  <2> SUFFICES ASSUME PortInv, ~raced, calls["http"] = <<>>, NEW m \in Wan, m \notin behind
               PROVE  Settled(m)
    BY Zenon DEF PolicyFollowsSetting, Settled, Wan
  <2>1. Follows(m)
    BY Zenon DEF FollowInv
  <2>2. \A x : ~Busy(Range(calls["http"]), m, x)
    BY Zenon, OrderedOne DEF Busy, Closing, Pending, Has
  <2> QED
    BY Zenon, <2>1, <2>2 DEF Follows
<1> QED
  BY <1>1, <1>2, <1>3, PTL DEF WanSpec

=============================================================================
