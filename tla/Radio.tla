------------------------------- MODULE Radio -------------------------------
(***************************************************************************)
(* What the handshakes of both directions share: the 8-bit tick counter    *)
(* that retransmissions are timed with, and the radio.                     *)
(*                                                                         *)
(* Between a device and its router there is one channel for each           *)
(* direction.  A channel holds the packets that are in the air or in the   *)
(* receiver's radio, in the order they were sent; the receiver takes them  *)
(* from the front.  A packet that finds AirCap packets before it is lost,  *)
(* and the modules that use the channels let any other be lost as well.    *)
(***************************************************************************)
EXTENDS Naturals, Sequences

CONSTANTS
  TimerMod,    (* values of the uint8_t timer_counter: 256 in the code    *)
  AirCap       (* packets under way from one radio to one other           *)

ASSUME RadioAssumption ==
  /\ TimerMod \in Nat /\ TimerMod > 3
  /\ AirCap \in Nat \ {0}

(* The value of timer_counter d ticks after the value t.                   *)
Later(t, d) == (t + d) % TimerMod

(* The channels ch after packet p was sent on the one to or from e.        *)
Transmit(ch, e, p) ==
  IF Len(ch[e]) < AirCap THEN [ch EXCEPT ![e] = Append(@, p)] ELSE ch

(* The channels ch after the oldest packet has left the one to or from e.  *)
Consume(ch, e) == [ch EXCEPT ![e] = Tail(@)]
=============================================================================
