----------------------------- MODULE GatewayPhy -----------------------------
(***************************************************************************)
(* The gateway's physical layer (src/fitp/pan/phy_layer/phy.cpp): several  *)
(* threads share one radio behind one SPI bus.                             *)
(*                                                                         *)
(*   Sender   the timer's thread and the application's: they call          *)
(*            PHY_send_with_cca, under the mutex mm;                       *)
(*   Radio    the thread of the GLib loop.  On an edge of IRQ1 it tests    *)
(*            the mode, measures the noise, takes mm, empties the radio's  *)
(*            FIFO and hands the packet to PHY_process_packet, which may   *)
(*            send acknowledgements and answers, in this thread.           *)
(*                                                                         *)
(* A call is the sequence of its elementary steps; at[t] is the number of  *)
(* the step thread t has before it.  Any thread may take its next step.    *)
(*                                                                         *)
(* A transfer over SPI describes itself in the global array xfer (Fill)    *)
(* and then calls ioctl, which transfers what xfer describes by then.  The *)
(* transfers that read hold a mutex of their own, mmm; those that write    *)
(* are made under mm.  So a read that is made without mm (Radio's of the   *)
(* noise) may get mixed up with a write.  read_fifo uses a system call of  *)
(* its own, not xfer.                                                      *)
(***************************************************************************)
EXTENDS Naturals, Sequences

CONSTANTS
  Sender,      (* the threads that send of their own accord               *)
  Radio,       (* the thread of the radio's events                        *)
  Nobody,      (* the owner of a free mutex                               *)
  MaxPolls,    (* the polls for the end of a transmission: 4001           *)
  FifoSize,    (* bytes the radio's FIFO holds                            *)
  MaxAnswers   (* the packets one packet makes Radio send                 *)

ASSUME GatewayPhyAssumption ==
  /\ Radio \notin Sender /\ Nobody \notin Sender \cup {Radio}
  /\ MaxPolls \in Nat \ {0}
  /\ FifoSize \in Nat /\ FifoSize >= 2
  /\ MaxAnswers \in Nat

Thread == Sender \cup {Radio}

VARIABLES
  at,        (* the number of a thread's next step, 0 if it is idle       *)
  handling,  (* Radio is in HW_irq1_occurred                              *)
  answers,   (* the packets Radio has yet to send                         *)
  filled,    (* the threads between filling xfer and ioctl                *)
  xfer,      (* the step that xfer describes                              *)
  reg,       (* whether the bit was set in the register a thread read     *)
  mm,        (* the owner of the mutex mm                                 *)
  mode,      (* PHY_STORAGE.mode                                          *)
  irq,       (* irq0_enabled and irq1_enabled, always equal               *)
  polls,     (* polls of the thread in PHY_send                           *)
  received,  (* PHY_STORAGE.received_packet, so far as it is read         *)
  hw_mode,   (* the mode the radio is in                                  *)
  fifo,      (* the radio's FIFO                                          *)
  tx_done,   (* bit 5 of FTPRIREG                                         *)
  edge,      (* IRQ1 has risen and the GLib loop has not seen it          *)
  mixed      (* history: a transfer was mixed up, and no thread has       *)
             (* started afresh since                                      *)

calls == <<at, handling, answers, reg, polls>>
spi   == <<filled, xfer, mixed>>
layer == <<mm, mode, irq, received>>
chip  == <<hw_mode, fifo, tx_done, edge>>
vars  == <<calls, spi, layer, chip>>

-----------------------------------------------------------------------------
(* Elementary steps.                                                       *)

RF_SLEEP       == "RF_SLEEP"
RF_STANDBY     == "RF_STANDBY"
RF_RECEIVER    == "RF_RECEIVER"
RF_TRANSMITTER == "RF_TRANSMITTER"
Modes == {RF_SLEEP, RF_STANDBY, RF_RECEIVER, RF_TRANSMITTER}

(* Payloads are abstract.  A frame consists of two bytes, its length and   *)
(* its data: those of thread t are t twice, those of a packet that comes   *)
(* in "packet" twice.  Garbage is a byte nobody meant to write.            *)
Incoming == "packet"
Garbage  == "garbage"
Bytes    == Thread \cup {Incoming, Garbage}

(* The noise, whether the FIFO holds a byte, the end of a transmission.    *)
Registers == {"RSTSREG", "FTXRXIREG", "FTPRIREG"}

NoArg == "none"

Step(op, arg) == [do |-> op, arg |-> arg]

(* The steps that are transfers over SPI described in xfer.                *)
Writes(m) == Step("set_mode", m)
Clears    == Step("clear_fifo", NoArg)
Pushes    == Step("write_fifo", NoArg)
Reads(r)  == Step("get_register", r)

SpiSteps == {Writes(m) : m \in Modes} \cup {Reads(r) : r \in Registers}
              \cup {Clears, Pushes}

set_rf_mode(m) == <<Writes(m), Step("store_mode", m)>>

PHY_send_StaysStandby ==
  <<Step("irq", "off")>> \o set_rf_mode(RF_STANDBY)
    \o <<Clears, Pushes, Pushes>> \o set_rf_mode(RF_TRANSMITTER)
    \o <<Step("irq", "on"), Reads("FTPRIREG"), Step("poll", NoArg)>>
    \o set_rf_mode(RF_STANDBY)
PHY_send ==
  <<Step("irq", "off")>> \o set_rf_mode(RF_STANDBY)
    \o <<Clears, Pushes, Pushes>> \o set_rf_mode(RF_TRANSMITTER)
    \o <<Step("irq", "on"), Reads("FTPRIREG"), Step("poll", NoArg)>>
    \o set_rf_mode(RF_STANDBY) \o set_rf_mode(RF_RECEIVER)

PHY_send_with_cca ==
  <<Step("lock", NoArg), Reads("RSTSREG"), Step("cca", NoArg)>>
    \o PHY_send \o <<Step("unlock", NoArg)>>

HW_irq1_occurred_Unlocked ==
  <<Step("test_mode", NoArg), Reads("RSTSREG"), Step("irq", "off"),
    Reads("FTXRXIREG"), Step("drain", NoArg), Step("irq", "on"), Step("deliver", NoArg)>>
HW_irq1_occurred ==
  <<Step("test_mode", NoArg), Reads("RSTSREG"), Step("lock", NoArg), Step("irq", "off"),
    Reads("FTXRXIREG"), Step("drain", NoArg), Step("irq", "on"), Step("unlock", NoArg),
    Step("deliver", NoArg)>>

Handles(t) == t = Radio /\ handling

Program(t) == IF Handles(t) THEN HW_irq1_occurred ELSE PHY_send_with_cca

NextStep(t) == Program(t)[at[t]]

At(t, op) == at[t] # 0 /\ NextStep(t).do = op

(* After its last step a thread is idle.                                   *)
Advance(t) ==
  at' = [at EXCEPT ![t] = IF @ = Len(Program(t)) THEN 0 ELSE @ + 1]

(* The value of a register decides that the step before, which reads it,   *)
(* is done again.                                                          *)
Again(t) == at' = [at EXCEPT ![t] = @ - 1]

-----------------------------------------------------------------------------
(* After PHY_init.                                                         *)
Init ==
  /\ at = [t \in Thread |-> 0] /\ handling = FALSE /\ answers = 0
  /\ filled = {} /\ xfer = Writes(RF_RECEIVER) /\ mixed = FALSE
  /\ reg = [t \in Thread |-> FALSE]
  /\ mm = Nobody
  /\ mode = RF_RECEIVER /\ irq = TRUE
  /\ polls = 0
  /\ received = <<>>
  /\ hw_mode = RF_RECEIVER /\ fifo = <<>> /\ tx_done = FALSE /\ edge = FALSE

-----------------------------------------------------------------------------
(* The threads.                                                            *)

(* A handshake or the application has a frame to send; Radio's thread      *)
(* sends what the packet asks for before it looks for the next edge.       *)
Send(t) ==
  /\ at[t] = 0
  /\ t = Radio => answers > 0
  /\ answers' = IF t = Radio THEN answers - 1 ELSE answers
  /\ at' = [at EXCEPT ![t] = 1]
  /\ UNCHANGED <<handling, reg, polls, spi, layer, chip>>

(* The GLib loop sees the edge.  It is lost while interrupts are disabled. *)
on_irq1_event ==
  /\ at[Radio] = 0 /\ answers = 0
  /\ edge
  /\ edge' = FALSE
  /\ handling' = irq
  /\ at' = IF irq THEN [at EXCEPT ![Radio] = 1] ELSE at
  /\ UNCHANGED <<answers, reg, polls, spi, layer, hw_mode, fifo, tx_done>>

(* The test of HW_irq1_occurred, before the mutex is taken.                *)
TestMode ==
  /\ At(Radio, "test_mode")
  /\ IF mode = RF_RECEIVER
       THEN Advance(Radio) /\ UNCHANGED handling
       ELSE at' = [at EXCEPT ![Radio] = 0] /\ handling' = FALSE
  /\ UNCHANGED <<answers, reg, polls, spi, layer, chip>>

Lock(t) ==
  /\ At(t, "lock")
  /\ mm = Nobody
  /\ mm' = t
  /\ Advance(t)
  /\ UNCHANGED <<handling, answers, reg, polls, spi, mode, irq, received, chip>>

Unlock(t) ==
  /\ At(t, "unlock")
  /\ mm' = Nobody
  /\ Advance(t)
  /\ UNCHANGED <<handling, answers, reg, polls, spi, mode, irq, received, chip>>

(* PHY_send_with_cca: the noise is within its bounds, or it is measured    *)
(* once more.  The wait has no end of its own, and mm is held.             *)
QuietAir(t) ==
  /\ At(t, "cca")
  /\ Advance(t)
  /\ UNCHANGED <<handling, answers, reg, polls, spi, layer, chip>>

NoisyAir(t) ==
  /\ At(t, "cca")
  /\ Again(t)
  /\ UNCHANGED <<handling, answers, reg, polls, spi, layer, chip>>

SetIrq(t) ==
  /\ At(t, "irq")
  /\ irq' = (NextStep(t).arg = "on")
  /\ Advance(t)
  /\ UNCHANGED <<handling, answers, reg, polls, spi, mm, mode, received, chip>>

StoreMode(t) ==
  /\ At(t, "store_mode")
  /\ mode' = NextStep(t).arg
  /\ polls' = 0
  /\ Advance(t)
  /\ UNCHANGED <<handling, answers, reg, spi, mm, irq, received, chip>>

(* The wait for the end of the transmission, MaxPolls times at most.       *)
Poll_Forever(t) ==
  /\ At(t, "poll")
  /\ IF reg[t] THEN Advance(t) ELSE Again(t)
  /\ UNCHANGED <<handling, answers, reg, polls, spi, layer, chip>>
Poll_OneMore(t) ==
  /\ At(t, "poll")
  /\ IF reg[t] \/ polls > MaxPolls
       THEN Advance(t) /\ UNCHANGED polls
       ELSE Again(t) /\ polls' = polls + 1
  /\ UNCHANGED <<handling, answers, reg, spi, layer, chip>>
Poll(t) ==
  /\ At(t, "poll")
  /\ IF reg[t] \/ polls = MaxPolls
       THEN Advance(t) /\ UNCHANGED polls
       ELSE Again(t) /\ polls' = polls + 1
  /\ UNCHANGED <<handling, answers, reg, spi, layer, chip>>

(* A FIFO that is empty all the same gives some byte.                      *)
read_fifo ==
  IF fifo = <<>>
    THEN received' = Append(received, Garbage) /\ UNCHANGED fifo
    ELSE received' = Append(received, Head(fifo)) /\ fifo' = Tail(fifo)

(* A byte of the FIFO, or its end, as the register read before says.       *)
Drain ==
  /\ At(Radio, "drain")
  /\ IF reg[Radio]
       THEN read_fifo /\ Again(Radio)
       ELSE Advance(Radio) /\ UNCHANGED <<received, fifo>>
  /\ UNCHANGED <<handling, answers, reg, polls, spi, mm, mode, irq, hw_mode, tx_done,
                 edge>>

(* A packet as long as its first byte says goes up, and makes this thread  *)
(* send; anything else is dropped.                                         *)
AsLongAsItSays ==
  /\ received # <<>>
  /\ received[1] = Garbage \/ Len(received) = 2

Deliver ==
  /\ At(Radio, "deliver")
  /\ answers' \in (IF AsLongAsItSays THEN 0..MaxAnswers ELSE {0})
  /\ received' = <<>>
  /\ handling' = FALSE
  /\ Advance(Radio)
  /\ UNCHANGED <<reg, polls, spi, mm, mode, irq, chip>>

-----------------------------------------------------------------------------
(* SPI.                                                                    *)

IsRead(s) == s.do = "get_register"

(* A transfer is described; one that reads waits for the mutex mmm, which  *)
(* it holds until its ioctl is done.                                       *)
Fill(t) ==
  /\ at[t] # 0 /\ NextStep(t) \in SpiSteps
  /\ t \notin filled
  /\ IsRead(NextStep(t)) => \A u \in filled : ~IsRead(NextStep(u))
  /\ xfer' = NextStep(t)
  /\ filled' = filled \cup {t}
  /\ UNCHANGED <<mixed, calls, layer, chip>>

(* What may be transferred when a thread about to take step s calls ioctl  *)
(* while xfer describes x.  On the chip select of the FIFO one byte goes   *)
(* out.  A register is not written where the address of one to be read     *)
(* went out.  A read that finds a write makes it, or reads after all, or   *)
(* sends one byte, be it the address of GCONREG, and a zero after it: the  *)
(* array has no lock, so the length of one transfer may come with the      *)
(* buffer of the other.  (Registers not modelled are left out.)            *)
Transferred(s, x) ==
  IF s = x THEN {s}
  ELSE CASE s.do = "write_fifo" -> {Pushes}
         [] IsRead(s)           -> {s, Writes(RF_SLEEP)} \cup ({x} \ {Pushes})
         [] OTHER               -> {Reads("RSTSREG")}

(* What the radio does with the transfer x, b being the byte if it is one  *)
(* for the FIFO.  It empties its FIFO when it leaves the transmitter mode. *)
Transfers(x, b) ==
  /\ hw_mode' = IF x.do = "set_mode" THEN x.arg ELSE hw_mode
  /\ tx_done' = (tx_done /\ x.do # "set_mode")
  /\ fifo' = CASE x.do = "clear_fifo" -> <<>>
               [] x.do = "set_mode" /\ hw_mode = RF_TRANSMITTER -> <<>>
               [] x.do = "write_fifo" /\ Len(fifo) < FifoSize -> Append(fifo, b)
               [] OTHER -> fifo

BitOf(r) ==
  CASE r = "FTXRXIREG" -> fifo # <<>>
    [] r = "FTPRIREG"  -> tx_done
    [] OTHER           -> FALSE

ioctl(t) ==
  /\ t \in filled
  /\ LET s == NextStep(t) IN
     /\ \E x \in Transferred(s, xfer) : Transfers(x, IF s = xfer THEN t ELSE Garbage)
     /\ reg' = IF IsRead(s) THEN [reg EXCEPT ![t] = BitOf(s.arg)] ELSE reg
     /\ mixed' = \/ s # xfer
                 \/ mixed /\ ~(s = Clears /\ hw_mode = RF_STANDBY /\ received = <<>>)
  /\ filled' = filled \ {t}
  /\ Advance(t)
  /\ UNCHANGED <<xfer, handling, answers, polls, layer, edge>>

-----------------------------------------------------------------------------
(* The radio chip.                                                         *)

(* A packet arrives while the radio listens, and IRQ1 rises.  The FIFO is  *)
(* emptied faster than it fills: while it is, its size bounds the bytes.   *)
PacketArrives ==
  /\ hw_mode = RF_RECEIVER
  /\ Len(received) + Len(fifo) + 2 <= FifoSize
  /\ fifo' = fifo \o <<Incoming, Incoming>>
  /\ edge' = TRUE
  /\ UNCHANGED <<calls, spi, layer, hw_mode, tx_done>>

(* The radio sends what is in the FIFO.                                    *)
Transmits ==
  /\ hw_mode = RF_TRANSMITTER
  /\ fifo # <<>>
  /\ fifo' = <<>>
  /\ tx_done' = TRUE
  /\ UNCHANGED <<calls, spi, layer, hw_mode, edge>>

-----------------------------------------------------------------------------
ThreadStep(t) ==
  \/ Lock(t) \/ Unlock(t) \/ SetIrq(t) \/ StoreMode(t) \/ Poll(t)
  \/ QuietAir(t) \/ NoisyAir(t)
  \/ Fill(t) \/ ioctl(t)
  \/ t = Radio /\ (TestMode \/ Drain \/ Deliver)

Next ==
  \/ \E t \in Thread : Send(t) \/ ThreadStep(t)
  \/ on_irq1_event
  \/ PacketArrives
  \/ Transmits

(* Every thread is run again and again.  That the wait for a quiet channel *)
(* ends is an assumption on the surroundings; that a thread which waits    *)
(* for mm gets it is not assumed.                                          *)
Spec == /\ Init /\ [][Next]_vars
        /\ \A t \in Thread : WF_vars(ThreadStep(t)) /\ SF_vars(QuietAir(t))

-----------------------------------------------------------------------------
(* Properties.                                                             *)

(* Every variable has its type, and nobody polls more often than MaxPolls. *)
TypeOK ==
  /\ at \in [Thread -> 0..Len(PHY_send_with_cca)]
  /\ handling \in BOOLEAN /\ answers \in 0..MaxAnswers
  /\ filled \subseteq Thread /\ xfer \in SpiSteps /\ mixed \in BOOLEAN
  /\ reg \in [Thread -> BOOLEAN]
  /\ mm \in Thread \cup {Nobody}
  /\ mode \in Modes /\ irq \in BOOLEAN
  /\ polls \in 0..MaxPolls
  /\ received \in Seq(Bytes)
  /\ hw_mode \in Modes
  /\ fifo \in Seq(Bytes) /\ Len(fifo) <= FifoSize
  /\ tx_done \in BOOLEAN /\ edge \in BOOLEAN

(* What goes on the air is the whole frame of the thread that holds the    *)
(* mutex, and the bytes that go up are those of packets that came in,      *)
(* although all threads fill and empty the one FIFO of the radio           *)
(* (phy.cpp:620, phy.cpp:773).  After a mixed-up transfer (phy.cpp:90,     *)
(* phy.cpp:615) this holds again from the moment on a thread that sends    *)
(* has got the radio into standby and emptied its FIFO.                    *)
PacketsIntact ==
  ~mixed =>
    /\ hw_mode = RF_TRANSMITTER /\ fifo # <<>> =>
         \E t \in Thread : mm = t /\ fifo = <<t, t>>
    /\ \A i \in 1..Len(received) : received[i] = Incoming

(* Whenever the mutex is free the layer takes the radio for listening and  *)
(* its interrupts are enabled, whatever got mixed up; and the radio does   *)
(* listen, once a thread has sent after the last mix-up (phy.cpp:747,      *)
(* phy.cpp:762).                                                           *)
ListensAtRest ==
  mm = Nobody =>
    /\ mode = RF_RECEIVER /\ irq
    /\ ~mixed => hw_mode = RF_RECEIVER

(* A thread that holds the mutex gives it back, also when the radio never  *)
(* reports the end of a transmission (phy.cpp:754) or gets garbled bytes.  *)
LockReleased == mm # Nobody ~> mm = Nobody

(* When no thread is at work the radio is in the mode that set_rf_mode     *)
(* was last called for ("Sets MRF89XA transceiver operating mode to sleep, *)
(* transmit, receive or standby.", phy.cpp:437).  This does not hold: a    *)
(* set_register whose xfer Radio's measurement of the noise overwrites     *)
(* (phy.cpp:615) is lost, and the gateway hears nothing until it sends.    *)
ModeIsSet == (\A t \in Thread : at[t] = 0) => hw_mode = mode
=============================================================================
