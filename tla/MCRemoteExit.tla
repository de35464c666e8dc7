---------------------------- MODULE MCRemoteExit ----------------------------
(***************************************************************************)
(* Instances of RemoteExit: two peers, and the sources "lan" (every bridge) *)
(* and "c1" (one client).                                                   *)
(***************************************************************************)
EXTENDS RemoteExit

EveryClient == {"lan"}
AllOrOne == {{"lan"}, {"c1"}}
OneOrNone == {{"c1"}, {}}

BothFamilies == {"v4", "v6"}

RestorableFaults == {"cmd", "edit", "cancel", "crash"}
AllFaults == FaultKinds
NoFaults == {}
=============================================================================
