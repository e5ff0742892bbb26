------------------------------- MODULE EdLink -------------------------------
(***************************************************************************)
(* The sending half of the end device's link layer                         *)
(* (src/fitp/ed/link_layer/link.c) and the radio between a set of end      *)
(* devices and the one router that is their parent.                        *)
(*                                                                         *)
(* An end device has one transmission record, ed_tx_buffer.  A payload     *)
(* handed to LINK_send_ed goes through the four-way handshake              *)
(*                                                                         *)
(*      device            router                                           *)
(*        | ---- DATA ----->  |    stored in a slot of the RX buffer       *)
(*        | <---- ACK ------  |    or BUSY, when no slot is free           *)
(*        | --- COMMIT ---->  |    handed to the network layer             *)
(*        | <- COMMIT ACK --  |    slot and transmission record freed      *)
(*                                                                         *)
(* and the 50 ms timer interrupt resends what is not answered in time.     *)
(* The router's half differs between the coordinator and the PAN gateway:  *)
(* CoordUplink and PanUplink complete this module to a specification.      *)
(*                                                                         *)
(* A payload is represented by its number: the n-th payload that a device  *)
(* hands to its link layer is n.  COMMIT carries no payload in the code;   *)
(* its field msg records which payload the sender was transferring and is  *)
(* read by no action.                                                      *)
(*                                                                         *)
(* A definition whose name has a suffix after the name of another one, as  *)
(* in Resent_AlwaysData, is a plausible mistake in that other one.  No     *)
(* specification uses it; with it in place of the original, a property     *)
(* fails, as PROJECT.json tells.  The other modules do the same.           *)
(***************************************************************************)
EXTENDS Radio, Functions

CONSTANTS
  Ed,          (* the end devices whose parent is the router              *)
  MaxRetries,  (* LINK_init_t.tx_max_retries                              *)
  MaxMsg,      (* payloads of all devices; bounds the model               *)
  Preempted,   (* whether interrupts come while LINK_send_ed waits, in    *)
               (* PHY_send_with_cca, for the air to be free               *)
  EdRestarts   (* whether devices may be switched off and on              *)

ASSUME EdLinkAssumption ==
  /\ MaxRetries \in Nat
  /\ MaxMsg \in Nat
  /\ Preempted \in BOOLEAN
  /\ EdRestarts \in BOOLEAN

VARIABLES
  ed_tx_buffer,   (* the transmission record of each device               *)
  waiting,        (* the payload whose DATA LINK_send_ed is yet to send,  *)
                  (* or 0                                                 *)
  timer_counter,  (* the tick count of each device                        *)
  up,             (* packets on their way from a device to the router     *)
  down,           (* packets on their way from the router to a device     *)
  sent,           (* history: payloads handed to the link layer           *)
  done            (* history: payloads reported by LINK_notify_send_done  *)

edVars == <<ed_tx_buffer, waiting, timer_counter, up, down, sent, done>>

-----------------------------------------------------------------------------
(* Packets and records.                                                    *)

DATA_SENT   == "DATA_SENT"
COMMIT_SENT == "COMMIT_SENT"

UpPacket   == [type : {"DATA", "COMMIT"}, msg : Nat]
DownPacket == {"ACK", "BUSY", "COMMIT_ACK"}

DataPacket(n)   == [type |-> "DATA", msg |-> n]
CommitPacket(n) == [type |-> "COMMIT", msg |-> n]

TxRecord == [empty : BOOLEAN, state : {DATA_SENT, COMMIT_SENT},
             expiration_time : 0..(TimerMod - 1),
             transmits_to_error : 0..MaxRetries, msg : Nat]

(* A record whose flag empty is set.  Its other fields are dead, for       *)
(* LINK_send_ed writes all of them before anything reads them, and have    *)
(* one value here.                                                         *)
EmptyTx == [empty |-> TRUE, state |-> DATA_SENT, expiration_time |-> 0,
            transmits_to_error |-> 0, msg |-> 0]

(* A record in use: payload msg in the given state of the handshake, with  *)
(* so many retransmissions left and the next one due at the given time.    *)
InUse(state, expiration_time, transmits_to_error, msg) ==
  [empty |-> FALSE, state |-> state, expiration_time |-> expiration_time,
   transmits_to_error |-> transmits_to_error, msg |-> msg]

-----------------------------------------------------------------------------
EdInit ==
  /\ ed_tx_buffer  = [e \in Ed |-> EmptyTx]
  /\ waiting = [e \in Ed |-> 0]
  /\ timer_counter = [e \in Ed |-> 0]
  /\ up     = [e \in Ed |-> <<>>]
  /\ down   = [e \in Ed |-> <<>>]
  /\ sent   = [e \in Ed |-> 0]
  /\ done   = [e \in Ed |-> {}]

(* The network layer hands a payload over for the four-way handshake.  A   *)
(* call that finds the record in use returns false and changes nothing.    *)
(* The record is filled before DATA are sent; unless the air is free at    *)
(* once, interrupts may find the record in use and DATA not sent.          *)
LINK_send_ed(e) ==
  /\ ed_tx_buffer[e].empty
  /\ waiting[e] = 0
  /\ SumFunction(sent) < MaxMsg
  /\ sent' = [sent EXCEPT ![e] = @ + 1]
  /\ ed_tx_buffer' =
       [ed_tx_buffer EXCEPT ![e] =
          InUse(DATA_SENT, Later(timer_counter[e], 3), MaxRetries, sent[e] + 1)]
  /\ \/ /\ up' = Transmit(up, e, DataPacket(sent[e] + 1))
        /\ UNCHANGED waiting
     \/ /\ Preempted
        /\ waiting' = [waiting EXCEPT ![e] = sent[e] + 1]
        /\ UNCHANGED up
  /\ UNCHANGED <<timer_counter, down, done>>

(* The air is free and LINK_send_ed returns, whatever has become of the    *)
(* record: DATA were copied to a packet before the wait.                   *)
PHY_send_with_cca(e) ==
  /\ waiting[e] # 0
  /\ waiting' = [waiting EXCEPT ![e] = 0]
  /\ up' = Transmit(up, e, DataPacket(waiting[e]))
  /\ UNCHANGED <<ed_tx_buffer, timer_counter, down, sent, done>>

(* The oldest packet on the way to e is of the given type and is taken.    *)
EdReceives(e, type) ==
  /\ down[e] # <<>>
  /\ Head(down[e]) = type
  /\ down' = Consume(down, e)

(* ACK: the router says it has the data, the device asks it to accept      *)
(* them.  The acknowledgement of an earlier payload looks the same.        *)
ed_process_ack(e) ==
  /\ EdReceives(e, "ACK")
  /\ \/ /\ ~ed_tx_buffer[e].empty
        /\ ed_tx_buffer' =
             [ed_tx_buffer EXCEPT ![e] =
                InUse(COMMIT_SENT, Later(timer_counter[e], 2), MaxRetries, @.msg)]
        /\ up' = Transmit(up, e, CommitPacket(ed_tx_buffer[e].msg))
     \/ /\ ed_tx_buffer[e].empty
        /\ UNCHANGED <<ed_tx_buffer, up>>
  /\ UNCHANGED <<waiting, timer_counter, sent, done>>

(* BUSY ACK: all retransmissions are granted again, after a longer pause.  *)
ed_process_busy(e) ==
  /\ EdReceives(e, "BUSY")
  /\ \/ /\ ~ed_tx_buffer[e].empty
        /\ ed_tx_buffer' =
             [ed_tx_buffer EXCEPT ![e] =
                InUse(@.state, Later(timer_counter[e], 3), MaxRetries, @.msg)]
     \/ /\ ed_tx_buffer[e].empty
        /\ UNCHANGED ed_tx_buffer
  /\ UNCHANGED <<waiting, timer_counter, up, sent, done>>

(* COMMIT ACK: whatever the record holds, it is freed and the application  *)
(* is told that its latest payload is through.                             *)
ed_process_commit_ack(e) ==
  /\ EdReceives(e, "COMMIT_ACK")
  /\ ed_tx_buffer' = [ed_tx_buffer EXCEPT ![e] = EmptyTx]
  /\ done' = [done EXCEPT ![e] = @ \cup {sent[e]}]
  /\ UNCHANGED <<waiting, timer_counter, up, sent>>

(* The time of the record of e has come.                                   *)
Due(e) ==
  /\ ~ed_tx_buffer[e].empty
  /\ ed_tx_buffer[e].expiration_time = timer_counter'[e]

Resent_AlwaysData(r) == DataPacket(r.msg)

(* What a record sends when its time comes again.                          *)
Resent(r) ==
  IF r.state = COMMIT_SENT THEN CommitPacket(r.msg) ELSE DataPacket(r.msg)

Rescheduled_SameTime(e, r) ==
  InUse(r.state, r.expiration_time, r.transmits_to_error - 1, r.msg)

Rescheduled_NotCounted(e, r) ==
  InUse(r.state, Later(timer_counter'[e], 2), r.transmits_to_error, r.msg)

(* The record r after it sent again.                                       *)
Rescheduled(e, r) ==
  InUse(r.state, Later(timer_counter'[e], 2), r.transmits_to_error - 1, r.msg)

check_buffers_state_NeverGivesUp(e) ==
  \/ /\ ~Due(e)
     /\ UNCHANGED <<ed_tx_buffer, up>>
  \/ /\ Due(e)
     /\ ed_tx_buffer' = [ed_tx_buffer EXCEPT ![e] = Rescheduled(e, @)]
     /\ up' = Transmit(up, e, Resent(ed_tx_buffer[e]))

(* The record of e, when its time has come: given up after the last        *)
(* retransmission (LINK_error_handler_ed starts the move to another        *)
(* parent), otherwise DATA or COMMIT is sent again.                        *)
check_buffers_state(e) ==
  \/ /\ ~Due(e)
     /\ UNCHANGED <<ed_tx_buffer, up>>
  \/ /\ Due(e) /\ ed_tx_buffer[e].transmits_to_error = 0
     /\ ed_tx_buffer' = [ed_tx_buffer EXCEPT ![e] = EmptyTx]
     /\ UNCHANGED up
  \/ /\ Due(e) /\ ed_tx_buffer[e].transmits_to_error # 0
     /\ ed_tx_buffer' = [ed_tx_buffer EXCEPT ![e] = Rescheduled(e, @)]
     /\ up' = Transmit(up, e, Resent(ed_tx_buffer[e]))

(* The 50 ms timer interrupt of e.                                         *)
PHY_timer_interrupt(e) ==
  /\ timer_counter' = [timer_counter EXCEPT ![e] = Later(@, 1)]
  /\ check_buffers_state(e)
  /\ UNCHANGED <<waiting, down, sent, done>>

(* The device is switched off and on.                                      *)
LINK_init(e) ==
  /\ EdRestarts
  /\ ed_tx_buffer' = [ed_tx_buffer EXCEPT ![e] = EmptyTx]
  /\ waiting' = [waiting EXCEPT ![e] = 0]
  /\ timer_counter' = [timer_counter EXCEPT ![e] = 0]
  /\ UNCHANGED <<up, down, sent, done>>

(* A packet is destroyed on the way.                                       *)
Lose(e) ==
  /\ \/ up[e] # <<>> /\ up' = Consume(up, e) /\ UNCHANGED down
     \/ down[e] # <<>> /\ down' = Consume(down, e) /\ UNCHANGED up
  /\ UNCHANGED <<ed_tx_buffer, waiting, timer_counter, sent, done>>

EdNext(e) ==
  \/ LINK_send_ed(e)
  \/ PHY_send_with_cca(e)
  \/ ed_process_ack(e)
  \/ ed_process_busy(e)
  \/ ed_process_commit_ack(e)
  \/ PHY_timer_interrupt(e)
  \/ LINK_init(e)
  \/ Lose(e)

-----------------------------------------------------------------------------
EdTypeOK ==
  /\ ed_tx_buffer  \in [Ed -> TxRecord]
  /\ waiting \in [Ed -> Nat]
  /\ timer_counter \in [Ed -> 0..(TimerMod - 1)]
  /\ up     \in [Ed -> Seq(UpPacket)]
  /\ down   \in [Ed -> Seq(DownPacket)]
  /\ sent   \in [Ed -> Nat]
  /\ done   \in [Ed -> SUBSET Nat]

(* A record in use expires one, two or three ticks from now.  The code     *)
(* compares expiration_time and timer_counter for equality, so a record    *)
(* whose time is already past would wait for the 8-bit counter to come     *)
(* round before DATA or COMMIT is sent again.                              *)
RetransmissionArmed ==
  \A e \in Ed : ~ed_tx_buffer[e].empty =>
    \E d \in 1..3 : ed_tx_buffer[e].expiration_time = Later(timer_counter[e], d)
=============================================================================
