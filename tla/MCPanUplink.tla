---------------------------- MODULE MCPanUplink ----------------------------
(* PanUplink with interchangeable end devices.                             *)
EXTENDS PanUplink, TLC

Devices == Permutations(Ed)
=============================================================================
