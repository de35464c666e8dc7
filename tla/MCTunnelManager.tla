--------------------------- MODULE MCTunnelManager ---------------------------
(* Small instances of TunnelManager for TLC. *)
EXTENDS TunnelManager, TLC

(* Tunnel IDs and networks are only compared for equality. *)
Symmetry == Permutations(Tunnels) \cup Permutations(CIDRs)

=============================================================================
