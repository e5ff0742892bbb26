---------------------------- MODULE MCUplinkAck ----------------------------
(* UplinkAck with interchangeable end devices.                             *)
EXTENDS UplinkAck, TLC

Devices == Permutations(Ed)
=============================================================================
