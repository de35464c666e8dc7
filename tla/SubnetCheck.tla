---------------------------- MODULE SubnetCheck -----------------------------
(***************************************************************************)
(* The check of a tunnel's AllowedIPs against the networks of the device   *)
(* (service/subnet_validator.go) and its use when the entries of the zone's*)
(* ipset are chosen (filterBlockedAllowedIPs in firewall.go).              *)
(* Addresses have Width bits; a network is its masked address and length,  *)
(* as net.ParseCIDR returns it.                                            *)
(***************************************************************************)
EXTENDS Integers, FiniteSets

CONSTANTS
    Width,       \* bits of an address
    MaxNets,     \* networks of the device at a time
    NoNet

ASSUME WidthAssumption == Width \in Nat

\* The device's networks: a bridge, the tunnel's own interface, the loopback,
\* a route of Tailscale's table 52, and two of the main table, "own" the one
\* that leaves through the tunnel's interface.
Place == {"br0", "wg0", "lo", "table52", "main", "own"}
iface(p) == IF p = "own" THEN "wg0" ELSE p

\* Powers of two, and the number of addresses of a network of length len.
pow2[k \in Nat] == IF k = 0 THEN 1 ELSE 2 * pow2[k - 1]
size(len) == pow2[Width - len]

Net == UNION {{[ip |-> k * size(len), len |-> len] : k \in 0..(pow2[len] - 1)} : len \in 0..Width}

VARIABLES
    device,   \* Place -> Net \cup {NoNet}
    pbr,      \* ip rules of Traffic Routes are present
    asked,    \* AllowedIPs of the last call
    exclude,  \* the interface whose own networks the call leaves out
    routesOk, \* netlink answered
    verdict,  \* asked -> what ValidateAllowedIPs reported, "clean" for nothing
    passed   \* what filterBlockedAllowedIPs let through

subnetVars == <<device, pbr, asked, exclude, routesOk, verdict, passed>>

SubnetInit ==
    /\ device \in [Place -> Net \cup {NoNet}]
    /\ Cardinality({p \in Place : device[p] # NoNet}) <= MaxNets
    /\ pbr \in BOOLEAN
    /\ asked = {} /\ exclude = "none" /\ routesOk = TRUE
    /\ verdict = <<>> /\ passed = {}

\* net.IPNet.Contains: the address has the network's leading bits.
netContains(n, x) == x \div size(n.len) = n.ip \div size(n.len)

\* Mutant: only the candidate is asked, a wider network is not seen.
overlapOneWay(a, b) == netContains(a, b.ip)

subnetsOverlap(a, b) == netContains(a, b.ip) \/ netContains(b, a.ip)

\* CollectSystemSubnets: networks of the interfaces but the loopback and the
\* excluded one, then the routes of the two tables and the rules; without
\* netlink, only the interfaces.
CollectSystemSubnets(ex, ok) ==
    LET at(P) == {device[p] : p \in {q \in P : iface(q) # ex /\ device[q] # NoNet}}
    IN  [interfaces |-> at({"br0", "wg0"}),
         table52    |-> IF ok THEN at({"table52"}) ELSE {},
         routes     |-> IF ok THEN at({"main", "own"}) ELSE {},
         pbr        |-> ok /\ pbr]

\* ValidateAllowedIPs for one network: the first kind of conflict found.
ValidateAllowedIPs(n, sys) ==
    LET hits(N) == \E m \in N : subnetsOverlap(n, m)
    IN  IF hits(sys.interfaces) THEN "block"
        ELSE IF hits(sys.table52) THEN "table52"
        ELSE IF sys.pbr THEN "pbr"
        ELSE IF hits(sys.routes) THEN "route"
        ELSE "clean"

\* filterBlockedAllowedIPs
filterBlockedAllowedIPs(N, sys) == {n \in N : ValidateAllowedIPs(n, sys) # "block"}

\* One call: POST and PUT of a tunnel validate, the firewall set-up filters.
validate(N, ex, ok) ==
    /\ asked = {}
    /\ asked' = N /\ exclude' = ex /\ routesOk' = ok
    /\ LET sys == CollectSystemSubnets(ex, ok)
       IN  /\ verdict' = [n \in N |-> ValidateAllowedIPs(n, sys)]
           /\ passed' = filterBlockedAllowedIPs(N, sys)
    /\ UNCHANGED <<device, pbr>>

SubnetNext ==
    \E n \in Net, ex \in {"none", "wg0"}, ok \in BOOLEAN : validate({n}, ex, ok)

SubnetSpec == SubnetInit /\ [][SubnetNext]_subnetVars

\* The reference: a network is its addresses.
addresses(n) == n.ip .. n.ip + size(n.len) - 1
meets(n, p) ==
    iface(p) # exclude /\ device[p] # NoNet /\ addresses(n) \cap addresses(device[p]) # {}

\* A network is refused, and kept out of the ipset, exactly when it shares an
\* address with an interface other than the tunnel's own; a shared address
\* with a route that would win over the tunnel's (table 52) is always
\* reported, and "clean" means that nothing known is shared.
ConflictsFound ==
    \A n \in asked :
        /\ (verdict[n] = "block") <=> (meets(n, "br0") \/ meets(n, "wg0"))
        /\ n \in passed <=> ~(meets(n, "br0") \/ meets(n, "wg0"))
        /\ routesOk /\ verdict[n] # "block" =>
               ((verdict[n] = "table52") <=> meets(n, "table52"))
        /\ routesOk /\ verdict[n] = "clean" => ~pbr /\ ~meets(n, "main") /\ ~meets(n, "own")
=============================================================================
