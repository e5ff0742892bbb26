------------------------------ MODULE MCPanJoin -----------------------------
(* PanJoin with interchangeable coordinators, which ask the gateway itself *)
(* or through the first coordinator.  The end device does not ask: it is   *)
(* added by fitp_device_list.                                              *)
EXTENDS PanJoin, TLC

Coordinators == Permutations(Coords)

AskedThrough == [e \in Device |-> IF e \in Coords THEN {0, 1} ELSE {}]
=============================================================================
