--------------------------- MODULE MCS2sFirewall ---------------------------
(* Two tunnels, each with a network and a port of its own to begin with. *)
EXTENDS S2sFirewall

CONSTANTS t1, t2

OnPort(n) == [cidr |-> n, port |-> n]
TunnelConfigs == {OnPort(1), OnPort(2)}
CreatedWith == [t \in Tunnel |-> IF t = t1 THEN OnPort(1) ELSE OnPort(2)]
=============================================================================
