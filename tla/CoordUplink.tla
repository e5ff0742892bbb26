---------------------------- MODULE CoordUplink ----------------------------
(***************************************************************************)
(* End devices transfer payloads to a coordinator: the sending half of     *)
(* the devices (EdLink) composed with the receiving half of the            *)
(* coordinator, router_process_packet in src/fitp/coord/link_layer/link.c. *)
(*                                                                         *)
(* The coordinator keeps the payloads that wait for their COMMIT in        *)
(* RxSize slots shared by all devices.  The action of a handler is the     *)
(* whole run of the receive interrupt, from the header check to the return.*)
(* Datagrams without acknowledgement and packets of other coordinators are *)
(* not part of this module.                                                *)
(***************************************************************************)
EXTENDS EdLink

CONSTANTS
  RxSize,        (* LINK_RX_BUFFER_SIZE: 4 in the code                    *)
  NoEd,          (* the sender of a free slot                             *)
  MaxRestarts    (* restarts of the coordinator; bounds the model         *)

ASSUME CoordUplinkAssumption ==
  /\ RxSize \in Nat \ {0}
  /\ NoEd \notin Ed
  /\ MaxRestarts \in Nat

VARIABLES
  rx_buffer,   (* the slots                                               *)
  log,         (* history: payloads of each device given to LINK_route    *)
  restarts     (* history: restarts of the coordinator                    *)

vars == <<edVars, rx_buffer, log, restarts>>

Slot == 1..RxSize

RxRecord == [empty : BOOLEAN, ed : Ed \cup {NoEd}, msg : Nat]

(* A free slot; its dead fields have one value.                            *)
EmptyRx == [empty |-> TRUE, ed |-> NoEd, msg |-> 0]

(* The slots that hold a payload of e.                                     *)
SlotsOf(e) == {i \in Slot : ~rx_buffer[i].empty /\ rx_buffer[i].ed = e}

FreeSlots == {i \in Slot : rx_buffer[i].empty}

(* A scan from the first slot upwards finds i first among the slots S.     *)
First(i, S) == i \in S /\ \A j \in S : i <= j

-----------------------------------------------------------------------------
Init ==
  /\ EdInit
  /\ rx_buffer = [i \in Slot |-> EmptyRx]
  /\ log = [e \in Ed |-> <<>>]
  /\ restarts = 0

(* The oldest packet on the way from e is of the given type and is taken.  *)
Receives(e, type) ==
  /\ up[e] # <<>>
  /\ Head(up[e]).type = type
  /\ up' = Consume(up, e)
  /\ UNCHANGED <<ed_tx_buffer, waiting, timer_counter, sent, done>>

(* DATA of a device that has a slot already: acknowledged, not looked at.  *)
DataAgain(e) ==
  /\ Receives(e, "DATA")
  /\ SlotsOf(e) # {}
  /\ down' = Transmit(down, e, "ACK")
  /\ UNCHANGED <<rx_buffer, log, restarts>>

(* The router keeps the payload of e in the first free slot.               *)
Store(e) ==
  \E i \in Slot :
    /\ First(i, FreeSlots)
    /\ rx_buffer' = [rx_buffer EXCEPT ![i] =
         [empty |-> FALSE, ed |-> e, msg |-> Head(up[e]).msg]]

DataNew_NoLookup(e) ==
  /\ Receives(e, "DATA")
  /\ \/ Store(e) /\ down' = Transmit(down, e, "ACK")
     \/ FreeSlots = {} /\ down' = Transmit(down, e, "BUSY") /\ UNCHANGED rx_buffer
  /\ UNCHANGED <<log, restarts>>

DataNew_NeverBusy(e) ==
  /\ Receives(e, "DATA")
  /\ SlotsOf(e) = {}
  /\ Store(e) \/ (FreeSlots = {} /\ UNCHANGED rx_buffer)
  /\ down' = Transmit(down, e, "ACK")
  /\ UNCHANGED <<log, restarts>>

(* DATA of a device that has no slot: stored and acknowledged, or refused  *)
(* with BUSY when no slot is free.                                         *)
DataNew(e) ==
  /\ Receives(e, "DATA")
  /\ SlotsOf(e) = {}
  /\ \/ /\ Store(e)
        /\ down' = Transmit(down, e, "ACK")
     \/ /\ FreeSlots = {}
        /\ down' = Transmit(down, e, "BUSY")
        /\ UNCHANGED rx_buffer
  /\ UNCHANGED <<log, restarts>>

Commit_KeepsSlot(e) ==
  /\ Receives(e, "COMMIT")
  /\ down' = Transmit(down, e, "COMMIT_ACK")
  /\ \/ \E i \in Slot :
          /\ First(i, SlotsOf(e))
          /\ log' = [log EXCEPT ![e] = Append(@, rx_buffer[i].msg)]
     \/ SlotsOf(e) = {} /\ UNCHANGED log
  /\ UNCHANGED <<rx_buffer, restarts>>

(* COMMIT: acknowledged in any case; if the device has a slot its payload  *)
(* goes to LINK_route, whose result the link layer does not use, and the   *)
(* slot is freed.                                                          *)
Commit(e) ==
  /\ Receives(e, "COMMIT")
  /\ down' = Transmit(down, e, "COMMIT_ACK")
  /\ \/ \E i \in Slot :
          /\ First(i, SlotsOf(e))
          /\ log' = [log EXCEPT ![e] = Append(@, rx_buffer[i].msg)]
          /\ rx_buffer' = [rx_buffer EXCEPT ![i] = EmptyRx]
     \/ /\ SlotsOf(e) = {}
        /\ UNCHANGED <<log, rx_buffer>>
  /\ UNCHANGED restarts

(* The coordinator is switched off and on: LINK_init frees every slot.     *)
Restart ==
  /\ restarts < MaxRestarts
  /\ restarts' = restarts + 1
  /\ rx_buffer' = [i \in Slot |-> EmptyRx]
  /\ UNCHANGED <<edVars, log>>

Next ==
  \/ \E e \in Ed :
       \/ EdNext(e) /\ UNCHANGED <<rx_buffer, log, restarts>>
       \/ DataAgain(e)
       \/ DataNew(e)
       \/ Commit(e)
  \/ Restart

Spec == Init /\ [][Next]_vars

(* The timer interrupt of every device goes off again and again; nothing   *)
(* is assumed of the radio or of the application.                          *)
TimerFairness == \A e \in Ed : WF_vars(PHY_timer_interrupt(e)
                                       /\ UNCHANGED <<rx_buffer, log, restarts>>)

TimedSpec == Spec /\ TimerFairness

-----------------------------------------------------------------------------
(* Properties.                                                             *)

(* Every variable has its type.                                            *)
TypeOK ==
  /\ EdTypeOK
  /\ rx_buffer \in [Slot -> RxRecord]
  /\ log \in [Ed -> Seq(Nat)]
  /\ restarts \in Nat

(* A device never occupies two slots, however often its DATA are repeated  *)
(* and whoever else competes for the slots: the check of link.c:539-565    *)
(* against DATA already stored is complete.                                *)
OneSlotPerSender ==
  \A i, j \in Slot :
    (~rx_buffer[i].empty /\ ~rx_buffer[j].empty /\ rx_buffer[i].ed = rx_buffer[j].ed)
      => i = j

(* What the coordinator's network layer gets from a device are payloads    *)
(* the device submitted, in the order of submission, over lost packets,    *)
(* repeated packets, transfers given up, and restarts of both sides.       *)
InOrder ==
  \A e \in Ed :
    /\ \A i, j \in DOMAIN log[e] : i <= j => log[e][i] <= log[e][j]
    /\ \A i \in DOMAIN log[e] : log[e][i] \in 1..sent[e]

(* Moreover it gets each of them at most once, if no interrupt comes while *)
(* LINK_send_ed waits to send DATA.                                        *)
InOrderAtMostOnce ==
  \A e \in Ed :
    /\ \A i, j \in DOMAIN log[e] : i < j => log[e][i] < log[e][j]
    /\ \A i \in DOMAIN log[e] : log[e][i] \in 1..sent[e]

(* Every transfer ends: the record of a device becomes free again, by a    *)
(* COMMIT ACK or by exhausting the retransmissions; the periodic check of  *)
(* the buffers "detects unsuccessful four-way handshake" (ed/link_layer/   *)
(* link.c:288-292).  It does when the coordinator has a slot for each      *)
(* device.                                                                 *)
TransferEnds ==
  \A e \in Ed : (~ed_tx_buffer[e].empty) ~> ed_tx_buffer[e].empty

(* The handshake implements the transfer service, one that repeats if      *)
(* interrupts come while LINK_send_ed waits to send DATA.                  *)
TransferService ==
  INSTANCE Transfer WITH pending <- [e \in Ed |-> ~ed_tx_buffer[e].empty],
                         Repeats <- Preempted

ImplementsTransfer == TransferService!Spec

(* A payload that the device reports as delivered (LINK_notify_send_done)  *)
(* was handed over by the coordinator: "data were successfully delivered"  *)
(* (ed/link_layer/link.c:242).                                             *)
DoneIsDelivered ==
  \A e \in Ed : \A n \in done[e] : \E k \in DOMAIN log[e] : log[e][k] = n
=============================================================================
