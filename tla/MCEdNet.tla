------------------------------ MODULE MCEdNet ------------------------------
(* A router of one network and one of another, on the same channel or not. *)
EXTENDS EdNet

CONSTANTS A, B, C

Routers == {[nid |-> A, cid |-> 1, channel |-> 0],
            [nid |-> B, cid |-> 0, channel |-> C]}
=============================================================================
