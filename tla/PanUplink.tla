----------------------------- MODULE PanUplink -----------------------------
(***************************************************************************)
(* End devices transfer payloads to the gateway: the sending half of the   *)
(* devices (EdLink) composed with the receiving half of the gateway,       *)
(* router_process_packet in src/fitp/pan/link_layer/link.cpp.              *)
(*                                                                         *)
(* It differs from the coordinator's (CoordUplink) in how DATA are looked  *)
(* up in the RX buffer: for every slot i in use, the address in slot i of  *)
(* the TX buffer is compared with the sender's.  So what the gateway sends *)
(* to devices takes part in what it receives from them.  Of the handshakes *)
(* in that direction (Downlink) only the addresses that they leave in the  *)
(* TX buffer are kept here.                                                *)
(***************************************************************************)
EXTENDS EdLink, FiniteSets

CONSTANTS
  BufferSize,    (* LINK_RX_BUFFER_SIZE and LINK_TX_BUFFER_SIZE: both 4   *)
  NoEd,          (* the sender of a free slot, the address of a slot that *)
                 (* was never used                                        *)
  MaxSends,      (* payloads sent to devices; bounds the model            *)
  MaxRestarts    (* restarts of the gateway; bounds the model             *)

ASSUME PanUplinkAssumption ==
  /\ BufferSize \in Nat \ {0}
  /\ NoEd \notin Ed
  /\ MaxSends \in Nat
  /\ MaxRestarts \in Nat

VARIABLES
  rx_buffer,   (* the reception slots                                     *)
  tx_buffer,   (* of the transmission slots: whether free, and the address*)
  log,         (* history: payloads of each device given to LINK_route    *)
  addressed,   (* history: the devices that payloads were sent to         *)
  sends,       (* history: the number of payloads sent to devices         *)
  restarts     (* history: restarts of the gateway                        *)

panVars == <<rx_buffer, tx_buffer, log, addressed, sends, restarts>>
vars == <<edVars, panVars>>

Slot == 1..BufferSize

RxRecord == [empty : BOOLEAN, ed : Ed \cup {NoEd}, msg : Nat]
TxAddress == [empty : BOOLEAN, ed : Ed \cup {NoEd}]

EmptyRx == [empty |-> TRUE, ed |-> NoEd, msg |-> 0]

(* The reception slots that hold a payload of e.                           *)
SlotsOf(e) == {i \in Slot : ~rx_buffer[i].empty /\ rx_buffer[i].ed = e}

FreeSlots == {i \in Slot : rx_buffer[i].empty}

(* The transmission slots in use for e.                                    *)
TxSlotsOf(e) == {i \in Slot : ~tx_buffer[i].empty /\ tx_buffer[i].ed = e}

(* A scan from the first slot upwards finds i first among the slots S.     *)
First(i, S) == i \in S /\ \A j \in S : i <= j

AlreadyStored_NoAddress(e) == \E i \in Slot : ~rx_buffer[i].empty

(* The look-up of DATA among those already stored.                         *)
AlreadyStored(e) == \E i \in Slot : ~rx_buffer[i].empty /\ tx_buffer[i].ed = e

-----------------------------------------------------------------------------
Init ==
  /\ EdInit
  /\ rx_buffer = [i \in Slot |-> EmptyRx]
  /\ tx_buffer = [i \in Slot |-> [empty |-> TRUE, ed |-> NoEd]]
  /\ log = [e \in Ed |-> <<>>]
  /\ addressed = {}
  /\ sends = 0
  /\ restarts = 0

(* The network layer sends a payload to e: the first free slot is taken.   *)
LINK_send_coord(e) ==
  /\ sends < MaxSends
  /\ sends' = sends + 1
  /\ addressed' = addressed \cup {e}
  /\ \E i \in Slot :
       /\ First(i, {j \in Slot : tx_buffer[j].empty})
       /\ tx_buffer' = [tx_buffer EXCEPT ![i] = [empty |-> FALSE, ed |-> e]]
  /\ UNCHANGED <<edVars, rx_buffer, log, restarts>>

(* A payload sent to e is confirmed by COMMIT ACK, or all payloads for e   *)
(* are given up.  A freed slot keeps its address.                          *)
TxEnds(e) ==
  /\ TxSlotsOf(e) # {}
  /\ \/ \E i \in Slot :
          /\ First(i, TxSlotsOf(e))
          /\ tx_buffer' = [tx_buffer EXCEPT ![i].empty = TRUE]
     \/ tx_buffer' = [i \in Slot |->
          [tx_buffer[i] EXCEPT !.empty = @ \/ tx_buffer[i].ed = e]]
  /\ UNCHANGED <<edVars, rx_buffer, log, addressed, sends, restarts>>

(* The oldest packet on the way from e is of the given type and is taken.  *)
Receives(e, type) ==
  /\ up[e] # <<>>
  /\ Head(up[e]).type = type
  /\ up' = Consume(up, e)
  /\ UNCHANGED <<ed_tx_buffer, waiting, timer_counter, sent, done>>
  /\ UNCHANGED <<tx_buffer, addressed, sends, restarts>>

(* DATA that the look-up finds: acknowledged, not looked at.               *)
DataAgain(e) ==
  /\ Receives(e, "DATA")
  /\ AlreadyStored(e)
  /\ down' = Transmit(down, e, "ACK")
  /\ UNCHANGED <<rx_buffer, log>>

(* The channel down after n ACKs to e, as far as they fit.                 *)
TransmitAcks(e, n) ==
  LET room == AirCap - Len(down[e])
  IN  [down EXCEPT ![e] = @ \o [k \in 1..(IF n < room THEN n ELSE room) |-> "ACK"]]

(* DATA that the look-up does not find: stored, and acknowledged once for  *)
(* each slot that holds a payload of the sender; or refused with BUSY when *)
(* no slot is free.                                                        *)
DataNew(e) ==
  /\ Receives(e, "DATA")
  /\ ~AlreadyStored(e)
  /\ \/ /\ \E i \in Slot :
             /\ First(i, FreeSlots)
             /\ rx_buffer' = [rx_buffer EXCEPT ![i] =
                  [empty |-> FALSE, ed |-> e, msg |-> Head(up[e]).msg]]
        /\ down' = TransmitAcks(e, Cardinality(SlotsOf(e)) + 1)
     \/ /\ FreeSlots = {}
        /\ down' = Transmit(down, e, "BUSY")
        /\ UNCHANGED rx_buffer
  /\ UNCHANGED log

(* COMMIT: acknowledged in any case; the first slot of the sender goes to  *)
(* LINK_route, whose result the link layer does not use, and is freed.     *)
Commit(e) ==
  /\ Receives(e, "COMMIT")
  /\ down' = Transmit(down, e, "COMMIT_ACK")
  /\ \/ \E i \in Slot :
          /\ First(i, SlotsOf(e))
          /\ log' = [log EXCEPT ![e] = Append(@, rx_buffer[i].msg)]
          /\ rx_buffer' = [rx_buffer EXCEPT ![i] = EmptyRx]
     \/ /\ SlotsOf(e) = {}
        /\ UNCHANGED <<log, rx_buffer>>

(* The gateway's program is started anew; its storage starts as zeros.     *)
Restart ==
  /\ restarts < MaxRestarts
  /\ restarts' = restarts + 1
  /\ rx_buffer' = [i \in Slot |-> EmptyRx]
  /\ tx_buffer' = [i \in Slot |-> [empty |-> TRUE, ed |-> NoEd]]
  /\ UNCHANGED <<edVars, log, addressed, sends>>

Next ==
  \/ \E e \in Ed :
       \/ EdNext(e) /\ UNCHANGED panVars
       \/ LINK_send_coord(e)
       \/ TxEnds(e)
       \/ DataAgain(e)
       \/ DataNew(e)
       \/ Commit(e)
  \/ Restart

Spec == Init /\ [][Next]_vars

-----------------------------------------------------------------------------
(* Properties.                                                             *)

(* Every variable has its type.                                            *)
TypeOK ==
  /\ EdTypeOK
  /\ rx_buffer \in [Slot -> RxRecord]
  /\ tx_buffer \in [Slot -> TxAddress]
  /\ log \in [Ed -> Seq(Nat)]
  /\ addressed \subseteq Ed
  /\ sends \in Nat
  /\ restarts \in Nat

(* A device that the gateway has sent nothing to can rely on an ACK, as    *)
(* long as the gateway does not restart: the gateway holds a payload of    *)
(* the device or has handed one over, whatever it sends to other devices.  *)
AckMeansStoredUnlessAddressed ==
  restarts = 0 =>
    \A e \in Ed \ addressed :
      \/ \E i \in DOMAIN down[e] : down[e][i] = "ACK"
      \/ ed_tx_buffer[e].state = COMMIT_SENT
      => SlotsOf(e) # {} \/ log[e] # <<>>

(* DATA that are in the RX buffer are not stored in it once more: the      *)
(* look-up is there to "verify if received packet has not been already     *)
(* stored in RX buffer" (link.cpp:427).                                    *)
StoredOnce ==
  \A e \in Ed : \A i, j \in SlotsOf(e) :
    rx_buffer[i].msg = rx_buffer[j].msg => i = j
=============================================================================
