----------------------------- MODULE MCDownlink -----------------------------
(* Model values for Downlink.                                              *)
EXTENDS Downlink, TLC

(* The devices are interchangeable.                                        *)
Devices == Permutations(Ed)
=============================================================================
