------------------------------ MODULE Downlink ------------------------------
(***************************************************************************)
(* A coordinator transfers payloads to end devices: the transmission slots *)
(* of src/fitp/coord/link_layer/link.c and the receiving half of the end   *)
(* device, src/fitp/ed/link_layer/link.c.                                  *)
(*                                                                         *)
(* The router keeps up to TxSize payloads in its TX buffer and runs a      *)
(* four-way handshake for each of them at once.  ACK and COMMIT ACK carry  *)
(* no number: they are matched with a slot by the address of their sender. *)
(* A device holds one payload that waits for its COMMIT.                   *)
(*                                                                         *)
(* LINK_send_coord marks its slot in use before it waits for the air with  *)
(* a copy of the DATA.  Payloads for devices come from LINK_route, that    *)
(* is, from the handler of the radio's interrupt; whether other interrupts *)
(* come meanwhile is decided by the code that calls the handlers, which is *)
(* not part of the library.  If they do, DATA can leave after the transfer *)
(* they belong to has ended.  The sends of check_buffers_state and of the  *)
(* answers to packets are one step with what causes them.                  *)
(*                                                                         *)
(* Slots addressed to other coordinators are not part of this module.  As  *)
(* in EdLink, the msg of a COMMIT is not in the packet and read by nobody. *)
(***************************************************************************)
EXTENDS Radio, Functions

CONSTANTS
  Ed,            (* the end devices whose parent is the router            *)
  NoEd,          (* the address of a free slot                            *)
  TxSize,        (* LINK_TX_BUFFER_SIZE: 4 in the code                    *)
  MaxRetries,    (* LINK_init_t.tx_max_retries                            *)
  Overlap,       (* whether the network layer sends to a device for which *)
                 (* a slot is in use or an earlier call still waits       *)
  Preempted,     (* whether interrupts come while LINK_send_coord waits   *)
                 (* for the air                                           *)
  MaxMsg,        (* payloads for all devices; bounds the model            *)
  MaxRestarts    (* restarts, of both sides; bounds the model             *)

ASSUME DownlinkAssumption ==
  /\ NoEd \notin Ed
  /\ TxSize \in Nat \ {0}
  /\ MaxRetries \in Nat
  /\ Overlap \in BOOLEAN
  /\ Preempted \in BOOLEAN
  /\ MaxMsg \in Nat
  /\ MaxRestarts \in Nat

VARIABLES
  tx_buffer,      (* the slots                                            *)
  waiting,        (* per device, the payloads whose DATA wait for the air *)
  timer_counter,  (* the tick count of the router                         *)
  ed_rx_buffer,   (* the reception record of each device                  *)
  down,           (* packets on their way from the router to a device     *)
  up,             (* packets on their way from a device to the router     *)
  sent,           (* history: payloads handed to LINK_send_coord          *)
  log,            (* history: payloads given to LINK_process_packet       *)
  restarts        (* history: restarts                                    *)

vars == <<tx_buffer, waiting, timer_counter, ed_rx_buffer, down, up, sent, log,
          restarts>>

-----------------------------------------------------------------------------
(* Packets and records.                                                    *)

DATA_SENT   == "DATA_SENT"
COMMIT_SENT == "COMMIT_SENT"

DownPacket == [type : {"DATA", "COMMIT"}, msg : Nat]
UpPacket   == {"ACK", "COMMIT_ACK"}

DataPacket(n)   == [type |-> "DATA", msg |-> n]
CommitPacket(n) == [type |-> "COMMIT", msg |-> n]

Slot == 1..TxSize

TxRecord == [empty : BOOLEAN, ed : Ed \cup {NoEd}, state : {DATA_SENT, COMMIT_SENT},
             expiration_time : 0..(TimerMod - 1),
             transmits_to_error : 0..MaxRetries, msg : Nat]

RxRecord == [empty : BOOLEAN, msg : Nat]

(* Free records; their dead fields have one value.                         *)
EmptyTx == [empty |-> TRUE, ed |-> NoEd, state |-> DATA_SENT,
            expiration_time |-> 0, transmits_to_error |-> 0, msg |-> 0]
EmptyRx == [empty |-> TRUE, msg |-> 0]

FreeSlots  == {i \in Slot : tx_buffer[i].empty}
SlotsOf(e) == {i \in Slot : ~tx_buffer[i].empty /\ tx_buffer[i].ed = e}

(* A scan from the first slot upwards finds i first among the slots S.     *)
First(i, S) == i \in S /\ \A j \in S : i <= j

-----------------------------------------------------------------------------
Init ==
  /\ tx_buffer = [i \in Slot |-> EmptyTx]
  /\ waiting = [e \in Ed |-> {}]
  /\ timer_counter = 0
  /\ ed_rx_buffer = [e \in Ed |-> EmptyRx]
  /\ down = [e \in Ed |-> <<>>]
  /\ up   = [e \in Ed |-> <<>>]
  /\ sent = [e \in Ed |-> 0]
  /\ log  = [e \in Ed |-> <<>>]
  /\ restarts = 0

LINK_send_coord_Reentered(e) ==
  /\ Overlap \/ SlotsOf(e) = {}
  /\ SumFunction(sent) < MaxMsg
  /\ \E i \in Slot :
       /\ First(i, FreeSlots)
       /\ tx_buffer' = [tx_buffer EXCEPT ![i] =
            [empty |-> FALSE, ed |-> e, state |-> DATA_SENT,
             expiration_time |-> Later(timer_counter, 2),
             transmits_to_error |-> MaxRetries, msg |-> sent[e] + 1]]
  /\ sent' = [sent EXCEPT ![e] = @ + 1]
  /\ \/ /\ down' = Transmit(down, e, DataPacket(sent[e] + 1))
        /\ UNCHANGED waiting
     \/ /\ Preempted
        /\ waiting' = [waiting EXCEPT ![e] = @ \cup {sent[e] + 1}]
        /\ UNCHANGED down
  /\ UNCHANGED <<timer_counter, ed_rx_buffer, up, log, restarts>>

(* The network layer sends a payload to a device: the first free slot is   *)
(* taken, and DATA are sent at once or wait for the air.  A call that      *)
(* finds no free slot returns false and changes nothing.                   *)
LINK_send_coord(e) ==
  /\ Overlap \/ (SlotsOf(e) = {} /\ waiting[e] = {})
  /\ SumFunction(sent) < MaxMsg
  /\ \E i \in Slot :
       /\ First(i, FreeSlots)
       /\ tx_buffer' = [tx_buffer EXCEPT ![i] =
            [empty |-> FALSE, ed |-> e, state |-> DATA_SENT,
             expiration_time |-> Later(timer_counter, 2),
             transmits_to_error |-> MaxRetries, msg |-> sent[e] + 1]]
  /\ sent' = [sent EXCEPT ![e] = @ + 1]
  /\ \/ /\ down' = Transmit(down, e, DataPacket(sent[e] + 1))
        /\ UNCHANGED waiting
     \/ /\ Preempted
        /\ waiting' = [waiting EXCEPT ![e] = @ \cup {sent[e] + 1}]
        /\ UNCHANGED down
  /\ UNCHANGED <<timer_counter, ed_rx_buffer, up, log, restarts>>

(* The air is free for DATA that wait: they leave, whatever has become of  *)
(* their slot.                                                             *)
PHY_send_with_cca(e) ==
  /\ \E n \in waiting[e] :
       /\ down' = Transmit(down, e, DataPacket(n))
       /\ waiting' = [waiting EXCEPT ![e] = @ \ {n}]
  /\ UNCHANGED <<tx_buffer, timer_counter, ed_rx_buffer, up, sent, log, restarts>>

(* The oldest packet on the way from e is of the given type and is taken.  *)
RouterReceives(e, type) ==
  /\ up[e] # <<>>
  /\ Head(up[e]) = type
  /\ up' = Consume(up, e)
  /\ UNCHANGED <<waiting, timer_counter, ed_rx_buffer, sent, log, restarts>>

(* ACK: the first slot addressed to the sender, whichever payload the ACK  *)
(* is for, goes on to COMMIT.                                              *)
router_process_ack(e) ==
  /\ RouterReceives(e, "ACK")
  /\ \/ \E i \in Slot :
          /\ First(i, SlotsOf(e))
          /\ tx_buffer' = [tx_buffer EXCEPT
               ![i].state = COMMIT_SENT,
               ![i].transmits_to_error = MaxRetries,
               ![i].expiration_time = Later(timer_counter, 2)]
          /\ down' = Transmit(down, e, CommitPacket(tx_buffer[i].msg))
     \/ /\ SlotsOf(e) = {}
        /\ UNCHANGED <<tx_buffer, down>>

(* COMMIT ACK: the first slot addressed to the sender is freed.            *)
router_process_commit_ack(e) ==
  /\ RouterReceives(e, "COMMIT_ACK")
  /\ \/ \E i \in Slot :
          /\ First(i, SlotsOf(e))
          /\ tx_buffer' = [tx_buffer EXCEPT ![i] = EmptyTx]
     \/ /\ SlotsOf(e) = {}
        /\ UNCHANGED tx_buffer
  /\ UNCHANGED down

(* The slots whose time is now.                                            *)
DueSlots ==
  {i \in Slot : ~tx_buffer[i].empty /\ tx_buffer[i].expiration_time = timer_counter'}

SpentSlots_Never == {i \in DueSlots : tx_buffer[i].transmits_to_error < 0}

(* Those of them that have no retransmission left.                         *)
SpentSlots == {i \in DueSlots : tx_buffer[i].transmits_to_error = 0}

GivenUp_Everyone == IF SpentSlots = {} THEN {} ELSE Ed

(* The devices that are given up: every slot addressed to them is freed.   *)
GivenUp == {tx_buffer[i].ed : i \in SpentSlots}

(* The slots that send again.  The scan goes from the first slot to the    *)
(* last: one that a spent slot before it has freed does not get its turn.  *)
ResentSlots ==
  {i \in DueSlots \ SpentSlots :
     \A j \in SpentSlots : tx_buffer[j].ed = tx_buffer[i].ed => i < j}

(* What a slot sends when its time has come again.                         *)
Resent(r) == IF r.state = COMMIT_SENT THEN CommitPacket(r.msg) ELSE DataPacket(r.msg)

Rescheduled_SameTime(r) == [r EXCEPT !.transmits_to_error = @ - 1]

Rescheduled_NotCounted(r) == [r EXCEPT !.expiration_time = Later(timer_counter', 2)]

(* The record of a slot after it sent again.                               *)
Rescheduled(r) == [r EXCEPT !.expiration_time = Later(timer_counter', 2),
                            !.transmits_to_error = @ - 1]

(* The channels down after the scan has come past the first i slots.       *)
DownAfter[i \in 0..TxSize] ==
  IF i = 0 THEN down
  ELSE IF i \in ResentSlots
       THEN Transmit(DownAfter[i - 1], tx_buffer[i].ed, Resent(tx_buffer[i]))
       ELSE DownAfter[i - 1]

(* The scan of the slots: what is due is sent again or given up, and slots *)
(* of a device that is given up are freed.                                 *)
check_buffers_state ==
  /\ tx_buffer' = [i \in Slot |->
       IF ~tx_buffer[i].empty /\ tx_buffer[i].ed \in GivenUp THEN EmptyTx
       ELSE IF i \in ResentSlots THEN Rescheduled(tx_buffer[i])
       ELSE tx_buffer[i]]
  /\ down' = DownAfter[TxSize]

(* The 50 ms timer interrupt of the router.                                *)
PHY_timer_interrupt ==
  /\ timer_counter' = Later(timer_counter, 1)
  /\ check_buffers_state
  /\ UNCHANGED <<waiting, ed_rx_buffer, up, sent, log, restarts>>

(* The oldest packet on the way to e is of the given type and is taken.    *)
EdReceives(e, type) ==
  /\ down[e] # <<>>
  /\ Head(down[e]).type = type
  /\ down' = Consume(down, e)
  /\ UNCHANGED <<tx_buffer, waiting, timer_counter, sent, restarts>>

(* DATA: stored if the record is free, and acknowledged in any case.       *)
ed_process_data(e) ==
  /\ EdReceives(e, "DATA")
  /\ up' = Transmit(up, e, "ACK")
  /\ \/ /\ ed_rx_buffer[e].empty
        /\ ed_rx_buffer' =
             [ed_rx_buffer EXCEPT ![e] = [empty |-> FALSE, msg |-> Head(down[e]).msg]]
     \/ /\ ~ed_rx_buffer[e].empty
        /\ UNCHANGED ed_rx_buffer
  /\ UNCHANGED log

(* COMMIT: what the record holds goes to the network layer, and COMMIT ACK *)
(* is sent in any case.                                                    *)
ed_process_commit(e) ==
  /\ EdReceives(e, "COMMIT")
  /\ up' = Transmit(up, e, "COMMIT_ACK")
  /\ \/ /\ ~ed_rx_buffer[e].empty
        /\ log' = [log EXCEPT ![e] = Append(@, ed_rx_buffer[e].msg)]
     \/ /\ ed_rx_buffer[e].empty
        /\ UNCHANGED log
  /\ ed_rx_buffer' = [ed_rx_buffer EXCEPT ![e] = EmptyRx]

(* A side is switched off and on: the router, or a device.                 *)
LINK_init ==
  /\ restarts < MaxRestarts
  /\ restarts' = restarts + 1
  /\ \/ /\ tx_buffer' = [i \in Slot |-> EmptyTx]
        /\ waiting' = [e \in Ed |-> {}]
        /\ timer_counter' = 0
        /\ UNCHANGED ed_rx_buffer
     \/ /\ \E e \in Ed : ed_rx_buffer' = [ed_rx_buffer EXCEPT ![e] = EmptyRx]
        /\ UNCHANGED <<tx_buffer, waiting, timer_counter>>
  /\ UNCHANGED <<down, up, sent, log>>

(* A packet is destroyed on the way.                                       *)
Lose(e) ==
  /\ \/ up[e] # <<>> /\ up' = Consume(up, e) /\ UNCHANGED down
     \/ down[e] # <<>> /\ down' = Consume(down, e) /\ UNCHANGED up
  /\ UNCHANGED <<tx_buffer, waiting, timer_counter, ed_rx_buffer, sent, log, restarts>>

Next ==
  \/ \E e \in Ed :
       \/ LINK_send_coord(e)
       \/ PHY_send_with_cca(e)
       \/ router_process_ack(e)
       \/ router_process_commit_ack(e)
       \/ ed_process_data(e)
       \/ ed_process_commit(e)
       \/ Lose(e)
  \/ PHY_timer_interrupt
  \/ LINK_init

Spec == Init /\ [][Next]_vars

(* The timer interrupt of the router goes off again and again; nothing is  *)
(* assumed of the radio or of the network layer.                           *)
TimedSpec == Spec /\ WF_vars(PHY_timer_interrupt)

-----------------------------------------------------------------------------
(* Properties.                                                             *)

(* Every variable has its type.                                            *)
TypeOK ==
  /\ tx_buffer \in [Slot -> TxRecord]
  /\ waiting \in [Ed -> SUBSET Nat]
  /\ timer_counter \in 0..(TimerMod - 1)
  /\ ed_rx_buffer \in [Ed -> RxRecord]
  /\ down \in [Ed -> Seq(DownPacket)]
  /\ up   \in [Ed -> Seq(UpPacket)]
  /\ sent \in [Ed -> Nat]
  /\ log  \in [Ed -> Seq(Nat)]
  /\ restarts \in Nat

(* A slot in use expires one or two ticks from now, so that the equality   *)
(* test of check_buffers_state cannot miss it and leave it for a round of  *)
(* the 8-bit counter.                                                      *)
RetransmissionArmed ==
  \A i \in Slot : ~tx_buffer[i].empty =>
    \E d \in 1..2 : tx_buffer[i].expiration_time = Later(timer_counter, d)

(* What a device's network layer gets are payloads sent to it, each at     *)
(* most once and in the order they were sent, over losses, repetitions,    *)
(* transfers given up and restarts of both sides.  The calls that send are *)
(* not interrupted and do not overlap.                                     *)
InOrderAtMostOnce ==
  \A e \in Ed :
    /\ \A i, j \in DOMAIN log[e] : i < j => log[e][i] < log[e][j]
    /\ \A i \in DOMAIN log[e] : log[e][i] \in 1..sent[e]

(* "delete all messages for unavailable ED" (link.c:733): a tick that      *)
(* gives a device up leaves no slot addressed to it, and no slot of a      *)
(* device that it does not give up is freed.                               *)
GiveUpIsPerDevice ==
  [][timer_counter' = Later(timer_counter, 1) /\ UNCHANGED restarts =>
       \A e \in Ed :
         \/ SlotsOf(e)' = SlotsOf(e)
         \/ SlotsOf(e)' = {} /\ \E i \in SlotsOf(e) :
              /\ tx_buffer[i].transmits_to_error = 0
              /\ tx_buffer[i].expiration_time = timer_counter']_vars

(* Every slot is freed again, even though an ACK that belongs to another   *)
(* slot of the same device grants it all its retransmissions once more.    *)
TransferEnds ==
  \A i \in Slot : (~tx_buffer[i].empty) ~> tx_buffer[i].empty

(* The handshake implements the transfer service if the network layer does *)
(* not send to a device for which a slot is in use.  DATA that waited for  *)
(* the air while their transfer ended reach a device that has given their  *)
(* payload on already: it may then hand over its last payload again, but   *)
(* still no older one.                                                     *)
TransferService ==
  INSTANCE Transfer WITH pending <- [e \in Ed |-> SlotsOf(e) # {}],
                         Repeats <- Preempted

ImplementsTransfer == TransferService!Spec
=============================================================================
