----------------------------- MODULE UplinkAck -----------------------------
(***************************************************************************)
(* What an acknowledgement of the coordinator is worth to an end device.   *)
(*                                                                         *)
(* ACK and COMMIT ACK carry no number, so that one that belongs to an      *)
(* earlier payload, or an earlier payload that still occupies the slot of  *)
(* the device, is taken for the present one.  CoordUplink is extended with *)
(* a history variable that tells the transfers to which this cannot happen *)
(* from the others.                                                        *)
(***************************************************************************)
EXTENDS CoordUplink

VARIABLE
  fresh    (* history: whether the latest transfer of each device began   *)
           (* with nothing left of an earlier one, and the coordinator    *)
           (* has not restarted since                                     *)

ackVars == <<vars, fresh>>

(* Nothing of an earlier payload of e is under way or in a slot.           *)
NothingLeft(e) == up[e] = <<>> /\ down[e] = <<>> /\ SlotsOf(e) = {}

AckInit == Init /\ fresh = [e \in Ed |-> FALSE]

AckNext ==
  /\ Next
  /\ fresh' = [e \in Ed |->
       /\ restarts' = restarts
       /\ IF sent'[e] # sent[e] THEN NothingLeft(e) ELSE fresh[e]]

AckSpec == AckInit /\ [][AckNext]_ackVars

-----------------------------------------------------------------------------
(* Properties.                                                             *)

HandedOver(e) == \E k \in DOMAIN log[e] : log[e][k] = sent[e]

(* The present payload of e waits in a slot or was handed over.            *)
Kept(e) == HandedOver(e) \/ \E i \in SlotsOf(e) : rx_buffer[i].msg = sent[e]

(* In a fresh transfer an ACK under way to the device, or a device that    *)
(* has acted on one, means that the coordinator keeps this very payload or *)
(* has handed it over: DATA are acknowledged if they are stored, and BUSY  *)
(* otherwise (link.c:567-594), whoever else competes for the slots and     *)
(* whenever LINK_send_ed gets the air.                                     *)
AckMeansStored ==
  \A e \in Ed :
    /\ fresh[e]
    /\ \/ \E i \in DOMAIN down[e] : down[e][i] = "ACK"
       \/ ed_tx_buffer[e].state = COMMIT_SENT
    => Kept(e)

(* In a fresh transfer a payload that is reported as delivered was handed  *)
(* over by the coordinator: what the slot held when the COMMIT came is the *)
(* payload the device is told of.  Without fresh, DoneIsDelivered fails.   *)
DoneMeansHandedOver ==
  \A e \in Ed : fresh[e] /\ sent[e] \in done[e] => HandedOver(e)
=============================================================================
