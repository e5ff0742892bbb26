------------------------------ MODULE Transfer ------------------------------
(***************************************************************************)
(* What the four-way handshake between a router and its end devices        *)
(* promises to the layers above it, with the packets, timers and buffers   *)
(* left out.  It promises the same in both directions; the transfers of    *)
(* each device, to it or from it, are independent of the other devices.    *)
(*                                                                         *)
(* The sender transfers one payload at a time.  While or after a payload   *)
(* is being transferred the receiver may hand a payload to its network     *)
(* layer: one that was submitted, and never an older one than the last, so *)
(* that nothing is handed over out of order; nor, unless the service       *)
(* Repeats, the last one again, so that nothing is handed over twice.      *)
(* When a transfer ends, by success or by failure, nothing is promised     *)
(* about whether this payload was handed over, or ever will be.            *)
(***************************************************************************)
EXTENDS Naturals, Sequences

CONSTANTS
  Ed,        (* the devices                                               *)
  Repeats    (* whether the last payload may be handed over again         *)

VARIABLES
  pending,   (* whether a payload of the device is being transferred      *)
  sent,      (* the number of payloads submitted                          *)
  log        (* the payloads that were handed over                        *)

vars == <<pending, sent, log>>

LastHandedOver(e) == IF log[e] = <<>> THEN 0 ELSE log[e][Len(log[e])]

Init ==
  /\ pending = [e \in Ed |-> FALSE]
  /\ sent    = [e \in Ed |-> 0]
  /\ log     = [e \in Ed |-> <<>>]

Submit(e) ==
  /\ ~pending[e]
  /\ pending' = [pending EXCEPT ![e] = TRUE]
  /\ sent'    = [sent EXCEPT ![e] = @ + 1]
  /\ UNCHANGED log

HandOver(e) ==
  /\ \E n \in 1..sent[e] :
       /\ n > LastHandedOver(e) \/ (Repeats /\ n = LastHandedOver(e))
       /\ log' = [log EXCEPT ![e] = Append(@, n)]
  /\ UNCHANGED <<pending, sent>>

(* The transfers of the devices D end in one step; what breaks off several *)
(* is a router that restarts, or one tick of its clock.                    *)
End(D) ==
  /\ D # {} /\ \A e \in D : pending[e]
  /\ pending' = [e \in Ed |-> pending[e] /\ e \notin D]
  /\ UNCHANGED <<sent, log>>

Next ==
  \/ \E e \in Ed : Submit(e) \/ HandOver(e)
  \/ \E D \in SUBSET Ed : End(D)

Spec == Init /\ [][Next]_vars
=============================================================================
