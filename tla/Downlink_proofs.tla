-------------------------- MODULE Downlink_proofs --------------------------
(***************************************************************************)
(* Proofs about the transfer of payloads from a coordinator to end         *)
(* devices, for any number of devices, slots and retransmissions, any      *)
(* radio capacity and any clock range.                                     *)
(***************************************************************************)
EXTENDS Downlink, NaturalsInduction, WellFoundedInduction, TLAPS

-----------------------------------------------------------------------------
(* Induction.  The induction rules of the library take a predicate, the    *)
(* ones here a set.                                                        *)

(* A set of natural numbers that is not empty has a least element.         *)
LEMMA Least ==
  ASSUME NEW T \in SUBSET Nat, T # {}
  PROVE  \E n \in T : \A m \in T : n <= m
<1> DEFINE Less == OpToRel(<, Nat)
<1>1. IsWellFoundedOn(Less, Nat)
  BY NatLessThanWellFounded, Zenon
<1>2. \A x, y \in Nat : x < y => <<x, y>> \in Less
  BY Zenon DEF OpToRel
<1> HIDE DEF Less
<1>3. PICK n \in T : \A m \in T : <<m, n>> \notin Less
  BY <1>1, WFMin, Zenon
<1>4. \A m \in T : ~(m < n)
  BY <1>2, <1>3
<1> QED BY <1>3, <1>4

(* What holds at 0 and goes on from each number to the next holds up to n. *)
LEMMA UpTo ==
  ASSUME NEW n \in Nat, NEW P \in SUBSET (0..n),
         0 \in P, \A i \in 1..n : i - 1 \in P => i \in P
  PROVE  P = 0..n
<1> SUFFICES ASSUME (0..n) \ P # {} PROVE FALSE
  OBVIOUS
<1>1. PICK k \in (0..n) \ P : \A m \in (0..n) \ P : k <= m
  <2>1. (0..n) \ P \in SUBSET Nat
    OBVIOUS
  <2> QED BY <2>1, Least
<1>2. k \in 1..n /\ k - 1 \in P
  BY <1>1
<1> QED BY <1>1, <1>2

(* There is a sequence of values that begins with d and goes on by the     *)
(* given steps.                                                            *)
LEMMA Iterates ==
  ASSUME NEW D, NEW d \in D, NEW n \in Nat, NEW step \in [1..n -> [D -> D]]
  PROVE  \E f \in [0..n -> D] : /\ f[0] = d
                                /\ \A i \in 1..n : f[i] = step[i][f[i - 1]]
<1> DEFINE Reaches(k, f) == /\ f \in [0..k -> D]
                            /\ f[0] = d
                            /\ \A i \in 1..k : f[i] = step[i][f[i - 1]]
           P == {k \in 0..n : \E f : Reaches(k, f)}
<1>1. 0 \in P
  <2>1. Reaches(0, [i \in 0..0 |-> d])
    OBVIOUS
  <2>2. 0 \in 0..n
    OBVIOUS
  <2> HIDE DEF Reaches
  <2> QED BY <2>1, <2>2
<1>2. ASSUME NEW k \in 1..n, k - 1 \in P PROVE k \in P
  <2>1. PICK f : Reaches(k - 1, f)
    BY <1>2
  <2> DEFINE g == [i \in 0..k |-> IF i = k THEN step[k][f[k - 1]] ELSE f[i]]
  <2>2. f[k - 1] \in D /\ step[k] \in [D -> D]
    BY <2>1
  <2>3. step[k][f[k - 1]] \in D
    BY <2>2
  <2>4. \A i \in 0..(k - 1) : g[i] = f[i] /\ f[i] \in D
    BY <2>1
  <2>5. g \in [0..k -> D]
    <3>1. \A i \in 0..k : i = k \/ i \in 0..(k - 1)
      OBVIOUS
    <3>2. g[k] \in D
      BY <2>3
    <3>3. \A i \in 0..k : g[i] \in D
      BY <2>4, <3>1, <3>2
    <3> QED BY <3>3
  <2>6. \A i \in 1..k : g[i] = step[i][g[i - 1]]
    BY <2>1, <2>4
  <2>7. g[0] = d
    BY <2>1, <2>4
  <2>8. Reaches(k, g)
    BY <2>5, <2>6, <2>7
  <2> HIDE DEF Reaches
  <2> QED BY <2>8
<1>3. P = 0..n
  <2> HIDE DEF P
  <2>1. P \in SUBSET (0..n)
    BY DEF P
  <2> QED BY <1>1, <1>2, <2>1, UpTo
<1>4. PICK f : Reaches(n, f)
  <2>1. n \in P
    BY <1>3
  <2> QED BY <2>1
<1> QED BY <1>4

-----------------------------------------------------------------------------
(* The scan of the slots.                                                  *)

Channels == [Ed -> Seq(DownPacket)]

(* A slot in use has the address of a device.                              *)
Addressed == \A i \in Slot : ~tx_buffer[i].empty => tx_buffer[i].ed \in Ed

LEMMA TransmitDownType ==
  ASSUME NEW e \in Ed, NEW ch \in Channels, NEW p \in DownPacket
  PROVE  Transmit(ch, e, p) \in Channels
BY DEF Transmit, Channels

LEMMA TransmitUpType ==
  ASSUME NEW e \in Ed, NEW ch \in [Ed -> Seq(UpPacket)], NEW p \in UpPacket
  PROVE  Transmit(ch, e, p) \in [Ed -> Seq(UpPacket)]
BY DEF Transmit

LEMMA ConsumeType ==
  ASSUME NEW S, NEW e \in Ed, NEW ch \in [Ed -> Seq(S)], ch[e] # <<>>
  PROVE  Consume(ch, e) \in [Ed -> Seq(S)]
BY DEF Consume

LEMMA PacketType ==
  \A n \in Nat : DataPacket(n) \in DownPacket /\ CommitPacket(n) \in DownPacket
BY DEF DataPacket, CommitPacket, DownPacket

LEMMA ResentType ==
  \A r \in TxRecord : Resent(r) \in DownPacket
<1> SUFFICES ASSUME NEW r \in TxRecord PROVE Resent(r) \in DownPacket
  OBVIOUS
<1>1. r.msg \in Nat
  BY DEF TxRecord
<1> QED BY <1>1, PacketType DEF Resent

(* One step of the scan, at slot i.                                        *)
ScanStep(i, ch) ==
  IF i \in ResentSlots THEN Transmit(ch, tx_buffer[i].ed, Resent(tx_buffer[i]))
                       ELSE ch

LEMMA ScanStepType ==
  ASSUME TypeOK, Addressed, NEW i \in Slot, NEW ch \in Channels
  PROVE  ScanStep(i, ch) \in Channels
<1>1. CASE i \notin ResentSlots
  BY <1>1 DEF ScanStep
<1>2. CASE i \in ResentSlots
  <2>1. tx_buffer[i].ed \in Ed
    BY <1>2 DEF ResentSlots, DueSlots, Addressed
  <2>2. Resent(tx_buffer[i]) \in DownPacket
    BY ResentType DEF TypeOK
  <2> QED BY <1>2, <2>1, <2>2, TransmitDownType DEF ScanStep
<1> QED BY <1>1, <1>2

(* The scan of the slots is well defined, and each of its steps leads from *)
(* channels to channels.                                                   *)
LEMMA Scan ==
  ASSUME TypeOK, Addressed
  PROVE  /\ DownAfter \in [0..TxSize -> Channels]
         /\ DownAfter[0] = down
         /\ \A i \in Slot : DownAfter[i] = ScanStep(i, DownAfter[i - 1])
<1> DEFINE step == [i \in Slot |-> [ch \in Channels |-> ScanStep(i, ch)]]
           Scans(g) == g = [i \in 0..TxSize |-> IF i = 0 THEN down
                                                ELSE ScanStep(i, g[i - 1])]
<1>0. TxSize \in Nat /\ down \in Channels /\ Slot = 1..TxSize
  BY DownlinkAssumption DEF TypeOK, Slot, Channels
<1>1. step \in [1..TxSize -> [Channels -> Channels]]
  BY <1>0, ScanStepType
<1>2. PICK f \in [0..TxSize -> Channels] :
        f[0] = down /\ \A i \in 1..TxSize : f[i] = step[i][f[i - 1]]
  <2> HIDE DEF step
  <2> QED BY <1>0, <1>1, Iterates
<1>3. ASSUME NEW i \in 1..TxSize PROVE f[i] = ScanStep(i, f[i - 1])
  <2>1. i - 1 \in 0..TxSize
    BY <1>0
  <2>2. f[i - 1] \in Channels /\ i \in Slot
    BY <1>0, <2>1
  <2>3. \A j \in Slot, ch \in Channels : step[j][ch] = ScanStep(j, ch)
    OBVIOUS
  <2> HIDE DEF step
  <2> QED BY <1>2, <2>2, <2>3
<1>4. Scans(f)
  BY <1>0, <1>2, <1>3
<1>5. DownAfter = CHOOSE g : Scans(g)
  BY Zenon DEF DownAfter, ScanStep
<1>6. Scans(DownAfter)
  <2> HIDE DEF Scans
  <2> QED BY <1>4, <1>5
<1>7. /\ DownAfter[0] = down
      /\ \A i \in 1..TxSize : DownAfter[i] = ScanStep(i, DownAfter[i - 1])
  BY <1>0, <1>6
<1>8. \A i \in 0..TxSize : DownAfter[i] \in Channels
  <2> DEFINE P == {i \in 0..TxSize : DownAfter[i] \in Channels}
  <2>1. 0 \in P
    BY <1>0, <1>7
  <2>2. ASSUME NEW i \in 1..TxSize, i - 1 \in P PROVE i \in P
    <3>1. DownAfter[i] = ScanStep(i, DownAfter[i - 1]) /\ i \in 0..TxSize
      BY <1>7
    <3> QED BY <1>0, <2>2, <3>1, ScanStepType
  <2>3. P \in SUBSET (0..TxSize)
    OBVIOUS
  <2>4. P = 0..TxSize
    <3> HIDE DEF P
    <3> QED BY <1>0, <2>1, <2>2, <2>3, UpTo
  <2> QED BY <2>4
<1>9. DownAfter \in [0..TxSize -> Channels]
  <2>1. DownAfter = [i \in 0..TxSize |-> DownAfter[i]]
    BY <1>6
  <2> QED BY <1>8, <2>1
<1> QED BY <1>0, <1>7, <1>9

-----------------------------------------------------------------------------
(* Type correctness.                                                       *)

TypeInv == TypeOK /\ Addressed

LEMMA LaterType ==
  \A t \in 0..(TimerMod - 1), d \in Nat : Later(t, d) \in 0..(TimerMod - 1)
BY RadioAssumption DEF Later

LEMMA EmptyTxType == EmptyTx \in TxRecord /\ EmptyTx.empty
BY DownlinkAssumption, RadioAssumption
DEF EmptyTx, TxRecord, DATA_SENT, COMMIT_SENT

LEMMA EmptyRxType == EmptyRx \in RxRecord /\ EmptyRx.empty
BY DEF EmptyRx, RxRecord

(* The record of a payload that was just taken.                            *)
Fresh(e, t, n) ==
  [empty |-> FALSE, ed |-> e, state |-> DATA_SENT, expiration_time |-> t,
   transmits_to_error |-> MaxRetries, msg |-> n]

LEMMA FreshType ==
  ASSUME NEW e \in Ed, NEW t \in 0..(TimerMod - 1), NEW n \in Nat
  PROVE  Fresh(e, t, n) \in TxRecord /\ Fresh(e, t, n).ed \in Ed
BY DownlinkAssumption DEF Fresh, TxRecord, DATA_SENT

(* The record of a payload after its ACK.                                  *)
Committed(r, t) ==
  [r EXCEPT !.state = COMMIT_SENT, !.transmits_to_error = MaxRetries,
            !.expiration_time = t]

LEMMA CommittedType ==
  ASSUME NEW r \in TxRecord, NEW t \in 0..(TimerMod - 1)
  PROVE  /\ Committed(r, t) \in TxRecord
         /\ Committed(r, t).ed = r.ed
         /\ Committed(r, t).empty = r.empty
         /\ Committed(r, t).msg = r.msg
         /\ Committed(r, t).state = COMMIT_SENT
         /\ Committed(r, t).expiration_time = t
<1>1. COMMIT_SENT \in {DATA_SENT, COMMIT_SENT} /\ MaxRetries \in 0..MaxRetries
  BY DownlinkAssumption
<1>2. /\ Committed(r, t).state = COMMIT_SENT
      /\ Committed(r, t).expiration_time = t
      /\ Committed(r, t).transmits_to_error = MaxRetries
      /\ Committed(r, t).ed = r.ed
      /\ Committed(r, t).empty = r.empty
      /\ Committed(r, t).msg = r.msg
  BY DEF Committed, TxRecord
<1> QED BY <1>1, <1>2 DEF Committed, TxRecord

LEMMA RescheduledType ==
  ASSUME NEW r \in TxRecord, timer_counter' \in 0..(TimerMod - 1),
         r.transmits_to_error # 0
  PROVE  /\ Rescheduled(r) \in TxRecord
         /\ Rescheduled(r).ed = r.ed
         /\ Rescheduled(r).empty = r.empty
         /\ Rescheduled(r).msg = r.msg
         /\ Rescheduled(r).state = r.state
         /\ Rescheduled(r).expiration_time = Later(timer_counter', 2)
<1>1. Later(timer_counter', 2) \in 0..(TimerMod - 1)
  BY LaterType
<1>2. r.transmits_to_error - 1 \in 0..MaxRetries
  BY DownlinkAssumption DEF TxRecord
<1> QED BY <1>1, <1>2 DEF Rescheduled, TxRecord

(* The slots after a step that writes slot i.                              *)
LEMMA SlotWritten ==
  ASSUME TypeInv, NEW i \in Slot, NEW r \in TxRecord, ~r.empty => r.ed \in Ed,
         tx_buffer' = [tx_buffer EXCEPT ![i] = r]
  PROVE  tx_buffer' \in [Slot -> TxRecord] /\ Addressed'
BY DEF TypeInv, TypeOK, Addressed

LEMMA SendType ==
  ASSUME TypeInv, NEW e \in Ed, LINK_send_coord(e)
  PROVE  TypeInv'
<1>1. sent[e] + 1 \in Nat /\ Later(timer_counter, 2) \in 0..(TimerMod - 1)
  <2>1. sent[e] \in Nat /\ timer_counter \in 0..(TimerMod - 1)
    BY DEF TypeInv, TypeOK
  <2>2. Later(timer_counter, 2) \in 0..(TimerMod - 1)
    BY <2>1, LaterType
  <2> QED BY <2>1, <2>2
<1>2. PICK i \in Slot :
        tx_buffer' = [tx_buffer EXCEPT ![i] =
                        Fresh(e, Later(timer_counter, 2), sent[e] + 1)]
  BY Zenon DEF LINK_send_coord, Fresh
<1>3. tx_buffer' \in [Slot -> TxRecord] /\ Addressed'
  <2>1. /\ Fresh(e, Later(timer_counter, 2), sent[e] + 1) \in TxRecord
        /\ Fresh(e, Later(timer_counter, 2), sent[e] + 1).ed \in Ed
    BY <1>1, FreshType
  <2> QED BY <1>2, <2>1, SlotWritten
<1>4. down' \in Channels /\ waiting' \in [Ed -> SUBSET Nat]
  <2>1. /\ DataPacket(sent[e] + 1) \in DownPacket /\ down \in Channels
        /\ waiting \in [Ed -> SUBSET Nat]
    BY <1>1, PacketType DEF TypeInv, TypeOK, Channels
  <2>2. CASE UNCHANGED waiting /\ down' = Transmit(down, e, DataPacket(sent[e] + 1))
    BY <2>1, <2>2, TransmitDownType
  <2>3. CASE /\ UNCHANGED down
             /\ waiting' = [waiting EXCEPT ![e] = @ \cup {sent[e] + 1}]
    BY <1>1, <2>1, <2>3
  <2> QED BY <2>2, <2>3 DEF LINK_send_coord
<1>5. sent' \in [Ed -> Nat]
  BY <1>1 DEF LINK_send_coord, TypeInv, TypeOK
<1> QED
  BY <1>3, <1>4, <1>5 DEF LINK_send_coord, TypeInv, TypeOK, Channels

LEMMA SendCcaType ==
  ASSUME TypeInv, NEW e \in Ed, PHY_send_with_cca(e)
  PROVE  TypeInv'
<1>0. waiting \in [Ed -> SUBSET Nat] /\ down \in Channels
  BY DEF TypeInv, TypeOK, Channels
<1>1. PICK n \in waiting[e] : /\ down' = Transmit(down, e, DataPacket(n))
                              /\ waiting' = [waiting EXCEPT ![e] = @ \ {n}]
  BY DEF PHY_send_with_cca
<1>2. n \in Nat
  BY <1>0
<1>3. down' \in Channels
  BY <1>0, <1>1, <1>2, PacketType, TransmitDownType
<1>4. waiting' \in [Ed -> SUBSET Nat]
  BY <1>0, <1>1
<1> QED
  BY <1>3, <1>4 DEF PHY_send_with_cca, TypeInv, TypeOK, Addressed, Channels

LEMMA AckType ==
  ASSUME TypeInv, NEW e \in Ed, router_process_ack(e)
  PROVE  TypeInv'
<1>1. up' \in [Ed -> Seq(UpPacket)]
  BY ConsumeType DEF TypeInv, TypeOK, router_process_ack, RouterReceives
<1>2. CASE SlotsOf(e) = {} /\ UNCHANGED <<tx_buffer, down>>
  BY <1>1, <1>2
  DEF TypeInv, TypeOK, Addressed, router_process_ack, RouterReceives
<1>3. ASSUME NEW i \in SlotsOf(e),
             tx_buffer' = [tx_buffer EXCEPT
               ![i].state = COMMIT_SENT,
               ![i].transmits_to_error = MaxRetries,
               ![i].expiration_time = Later(timer_counter, 2)],
             down' = Transmit(down, e, CommitPacket(tx_buffer[i].msg))
      PROVE  TypeInv'
  <2>1. /\ i \in Slot /\ tx_buffer[i] \in TxRecord /\ tx_buffer[i].msg \in Nat
        /\ tx_buffer[i].ed \in Ed /\ tx_buffer \in [Slot -> TxRecord]
        /\ Later(timer_counter, 2) \in 0..(TimerMod - 1)
    BY LaterType DEF TypeInv, TypeOK, SlotsOf, TxRecord
  <2>2. tx_buffer' = [tx_buffer EXCEPT ![i] =
                        Committed(tx_buffer[i], Later(timer_counter, 2))]
    BY <1>3, <2>1 DEF Committed, TxRecord
  <2>3. tx_buffer' \in [Slot -> TxRecord] /\ Addressed'
    <3>1. /\ Committed(tx_buffer[i], Later(timer_counter, 2)) \in TxRecord
          /\ Committed(tx_buffer[i], Later(timer_counter, 2)).ed \in Ed
      BY <2>1, CommittedType
    <3> QED BY <2>1, <2>2, <3>1, SlotWritten
  <2>4. down' \in Channels
    <3>1. CommitPacket(tx_buffer[i].msg) \in DownPacket /\ down \in Channels
      BY <2>1, PacketType DEF TypeInv, TypeOK, Channels
    <3> QED BY <1>3, <3>1, TransmitDownType
  <2> QED
    BY <1>1, <2>3, <2>4
    DEF TypeInv, TypeOK, Channels, router_process_ack, RouterReceives
<1> QED BY <1>2, <1>3 DEF router_process_ack, First

LEMMA CommitAckType ==
  ASSUME TypeInv, NEW e \in Ed, router_process_commit_ack(e)
  PROVE  TypeInv'
<1>1. up' \in [Ed -> Seq(UpPacket)]
  BY ConsumeType
  DEF TypeInv, TypeOK, router_process_commit_ack, RouterReceives
<1>2. tx_buffer' \in [Slot -> TxRecord] /\ Addressed'
  <2>1. CASE UNCHANGED tx_buffer
    BY <2>1 DEF TypeInv, TypeOK, Addressed
  <2>2. ASSUME NEW i \in Slot, tx_buffer' = [tx_buffer EXCEPT ![i] = EmptyTx]
        PROVE  tx_buffer' \in [Slot -> TxRecord] /\ Addressed'
    BY <2>2, EmptyTxType, SlotWritten
  <2> QED BY <2>1, <2>2 DEF router_process_commit_ack
<1> QED
  BY <1>1, <1>2
  DEF TypeInv, TypeOK, router_process_commit_ack, RouterReceives

(* The slots after a tick.                                                 *)
LEMMA TickSlots ==
  ASSUME TypeInv, PHY_timer_interrupt
  PROVE  /\ timer_counter' \in 0..(TimerMod - 1)
         /\ tx_buffer' \in [Slot -> TxRecord]
         /\ \A i \in Slot :
              \/ tx_buffer'[i] = EmptyTx /\ tx_buffer[i].ed \in GivenUp
              \/ tx_buffer'[i] = tx_buffer[i]
                 /\ i \notin ResentSlots
                 /\ (tx_buffer[i].empty \/ tx_buffer[i].ed \notin GivenUp)
              \/ /\ i \in ResentSlots
                 /\ tx_buffer'[i] = Rescheduled(tx_buffer[i])
                 /\ tx_buffer[i].ed \notin GivenUp
<1>1. timer_counter' \in 0..(TimerMod - 1)
  <2>1. timer_counter \in 0..(TimerMod - 1)
    BY DEF TypeInv, TypeOK
  <2> QED BY <2>1, LaterType DEF PHY_timer_interrupt
<1>2. \A i \in Slot :
        tx_buffer'[i] =
          IF ~tx_buffer[i].empty /\ tx_buffer[i].ed \in GivenUp THEN EmptyTx
          ELSE IF i \in ResentSlots THEN Rescheduled(tx_buffer[i])
          ELSE tx_buffer[i]
  BY DEF PHY_timer_interrupt, check_buffers_state
<1>3. \A i \in ResentSlots : /\ ~tx_buffer[i].empty
                             /\ tx_buffer[i].transmits_to_error # 0
  BY DEF ResentSlots, SpentSlots, DueSlots
<1>4. \A i \in Slot : tx_buffer'[i] \in TxRecord
  <2> SUFFICES ASSUME NEW i \in Slot PROVE tx_buffer'[i] \in TxRecord
    OBVIOUS
  <2>1. tx_buffer[i] \in TxRecord
    BY DEF TypeInv, TypeOK
  <2>2. i \in ResentSlots => Rescheduled(tx_buffer[i]) \in TxRecord
    BY <1>1, <1>3, <2>1, RescheduledType
  <2> QED BY <1>2, <2>1, <2>2, EmptyTxType
<1>5. tx_buffer' \in [Slot -> TxRecord]
  <2>1. tx_buffer' = [i \in Slot |-> tx_buffer'[i]]
    BY <1>2 DEF PHY_timer_interrupt, check_buffers_state
  <2> QED BY <1>4, <2>1
<1>6. ASSUME NEW i \in Slot
      PROVE  \/ tx_buffer'[i] = EmptyTx /\ tx_buffer[i].ed \in GivenUp
             \/ tx_buffer'[i] = tx_buffer[i]
                /\ i \notin ResentSlots
                /\ (tx_buffer[i].empty \/ tx_buffer[i].ed \notin GivenUp)
             \/ /\ i \in ResentSlots
                /\ tx_buffer'[i] = Rescheduled(tx_buffer[i])
                /\ tx_buffer[i].ed \notin GivenUp
  BY <1>2, <1>3
<1> QED BY <1>1, <1>5, <1>6

LEMMA TickType ==
  ASSUME TypeInv, PHY_timer_interrupt
  PROVE  TypeInv'
<1>1. Addressed'
  <2> SUFFICES ASSUME NEW i \in Slot, ~tx_buffer'[i].empty
               PROVE  tx_buffer'[i].ed \in Ed
    BY DEF Addressed
  <2>1. tx_buffer[i] \in TxRecord /\ (~tx_buffer[i].empty => tx_buffer[i].ed \in Ed)
    BY DEF TypeInv, TypeOK, Addressed
  <2>2. CASE tx_buffer'[i] = tx_buffer[i]
    BY <2>1, <2>2
  <2>3. CASE i \in ResentSlots /\ tx_buffer'[i] = Rescheduled(tx_buffer[i])
    <3>1. tx_buffer[i].transmits_to_error # 0 /\ ~tx_buffer[i].empty
      BY <2>3 DEF ResentSlots, SpentSlots, DueSlots
    <3>2. Rescheduled(tx_buffer[i]).ed = tx_buffer[i].ed
      BY <2>1, <3>1, TickSlots, RescheduledType
    <3> QED BY <2>1, <2>3, <3>1, <3>2
  <2>4. tx_buffer'[i] # EmptyTx
    BY EmptyTxType
  <2> QED BY <2>2, <2>3, <2>4, TickSlots
<1>2. down' \in Channels
  <2>1. TxSize \in 0..TxSize
    BY DownlinkAssumption
  <2> QED BY <2>1, Scan DEF TypeInv, PHY_timer_interrupt, check_buffers_state
<1> QED
  BY <1>1, <1>2, TickSlots DEF TypeInv, TypeOK, Channels, PHY_timer_interrupt

LEMMA DataType ==
  ASSUME TypeInv, NEW e \in Ed, ed_process_data(e)
  PROVE  TypeInv'
<1>1. down' \in [Ed -> Seq(DownPacket)]
  BY ConsumeType DEF TypeInv, TypeOK, ed_process_data, EdReceives
<1>2. up' \in [Ed -> Seq(UpPacket)]
  BY TransmitUpType DEF TypeInv, TypeOK, ed_process_data, UpPacket
<1>3. ed_rx_buffer' \in [Ed -> RxRecord]
  <2>1. Head(down[e]) \in DownPacket
    BY DEF TypeInv, TypeOK, ed_process_data, EdReceives
  <2>2. [empty |-> FALSE, msg |-> Head(down[e]).msg] \in RxRecord
    BY <2>1 DEF DownPacket, RxRecord
  <2>3. ed_rx_buffer \in [Ed -> RxRecord]
    BY DEF TypeInv, TypeOK
  <2> QED BY <2>2, <2>3 DEF ed_process_data
<1> QED
  BY <1>1, <1>2, <1>3 DEF TypeInv, TypeOK, Addressed, ed_process_data, EdReceives

LEMMA CommitType ==
  ASSUME TypeInv, NEW e \in Ed, ed_process_commit(e)
  PROVE  TypeInv'
<1>1. down' \in [Ed -> Seq(DownPacket)]
  BY ConsumeType DEF TypeInv, TypeOK, ed_process_commit, EdReceives
<1>2. up' \in [Ed -> Seq(UpPacket)]
  BY TransmitUpType DEF TypeInv, TypeOK, ed_process_commit, UpPacket
<1>3. ed_rx_buffer' \in [Ed -> RxRecord]
  BY EmptyRxType DEF TypeInv, TypeOK, ed_process_commit
<1>4. log' \in [Ed -> Seq(Nat)]
  <2>1. ed_rx_buffer[e].msg \in Nat /\ log \in [Ed -> Seq(Nat)]
    BY DEF TypeInv, TypeOK, RxRecord
  <2>2. [log EXCEPT ![e] = Append(@, ed_rx_buffer[e].msg)] \in [Ed -> Seq(Nat)]
    BY <2>1
  <2> QED BY <2>1, <2>2 DEF ed_process_commit
<1> QED
  BY <1>1, <1>2, <1>3, <1>4
  DEF TypeInv, TypeOK, Addressed, ed_process_commit, EdReceives

LEMMA RestartType ==
  ASSUME TypeInv, LINK_init
  PROVE  TypeInv'
<1>1. CASE tx_buffer' = [i \in Slot |-> EmptyTx] /\ timer_counter' = 0
           /\ UNCHANGED ed_rx_buffer
  <2>1. timer_counter' \in 0..(TimerMod - 1)
    BY <1>1, RadioAssumption
  <2>2. tx_buffer' \in [Slot -> TxRecord] /\ Addressed'
    BY <1>1, EmptyTxType DEF Addressed
  <2> QED BY <1>1, <2>1, <2>2 DEF TypeInv, TypeOK, LINK_init
<1>2. ASSUME NEW e \in Ed, ed_rx_buffer' = [ed_rx_buffer EXCEPT ![e] = EmptyRx],
             UNCHANGED <<tx_buffer, timer_counter>>
      PROVE  TypeInv'
  BY <1>2, EmptyRxType DEF TypeInv, TypeOK, Addressed, LINK_init
<1> QED BY <1>1, <1>2 DEF LINK_init

LEMMA LoseType ==
  ASSUME TypeInv, NEW e \in Ed, Lose(e)
  PROVE  TypeInv'
<1>1. CASE up[e] # <<>> /\ up' = Consume(up, e) /\ UNCHANGED down
  BY <1>1, ConsumeType DEF TypeInv, TypeOK, Addressed, Lose
<1>2. CASE down[e] # <<>> /\ down' = Consume(down, e) /\ UNCHANGED up
  BY <1>2, ConsumeType DEF TypeInv, TypeOK, Addressed, Lose
<1> QED BY <1>1, <1>2 DEF Lose

LEMMA TypeInvariant == Spec => []TypeInv
<1>1. Init => TypeInv
  BY RadioAssumption, EmptyTxType, EmptyRxType DEF Init, TypeInv, TypeOK, Addressed
<1>2. TypeInv /\ [Next]_vars => TypeInv'
  <2>1. TypeInv /\ UNCHANGED vars => TypeInv'
    BY DEF TypeInv, TypeOK, Addressed, vars
  <2> QED
    BY <2>1, SendType, SendCcaType, AckType, CommitAckType, TickType, DataType, CommitType,
       RestartType, LoseType DEF Next
<1> QED BY <1>1, <1>2, PTL DEF Spec

(* Every reachable state has the types of TypeOK, whatever the slots of a  *)
(* device and however many of them are sent again in one tick.             *)
THEOREM TypeCorrect == Spec => []TypeOK
<1>1. TypeInv => TypeOK
  BY DEF TypeInv
<1> QED BY <1>1, TypeInvariant, PTL

-----------------------------------------------------------------------------
(* The clock.                                                              *)

LEMMA LaterTwice ==
  ASSUME NEW t \in 0..(TimerMod - 1)
  PROVE  Later(t, 2) = Later(Later(t, 1), 1)
<1>1. Later(t, 1) = IF t + 1 < TimerMod THEN t + 1 ELSE 0
  BY RadioAssumption DEF Later
<1>2. Later(t, 2) = IF t + 2 < TimerMod THEN t + 2 ELSE t + 2 - TimerMod
  BY RadioAssumption DEF Later
<1>3. \A u \in 0..(TimerMod - 1) :
        Later(u, 1) = IF u + 1 < TimerMod THEN u + 1 ELSE 0
  BY RadioAssumption DEF Later
<1>4. Later(t, 1) \in 0..(TimerMod - 1)
  BY LaterType
<1> QED BY RadioAssumption, <1>1, <1>2, <1>3, <1>4

Armed(i) ==
  ~tx_buffer[i].empty =>
    \E d \in 1..2 : tx_buffer[i].expiration_time = Later(timer_counter, d)

LEMMA TickArmed ==
  ASSUME TypeInv, PHY_timer_interrupt, NEW i \in Slot, Armed(i)
  PROVE  Armed(i)'
<1> SUFFICES ASSUME ~tx_buffer'[i].empty
             PROVE  \E d \in 1..2 :
                      tx_buffer'[i].expiration_time = Later(timer_counter', d)
  BY DEF Armed
<1>0. /\ timer_counter \in 0..(TimerMod - 1) /\ tx_buffer[i] \in TxRecord
      /\ timer_counter' = Later(timer_counter, 1)
      /\ timer_counter' \in 0..(TimerMod - 1)
  BY TickSlots DEF TypeInv, TypeOK, PHY_timer_interrupt
<1>1. CASE i \in ResentSlots /\ tx_buffer'[i] = Rescheduled(tx_buffer[i])
  <2>1. tx_buffer[i].transmits_to_error # 0
    BY <1>1 DEF ResentSlots, SpentSlots, DueSlots
  <2>2. tx_buffer'[i].expiration_time = Later(timer_counter', 2)
    BY <1>0, <1>1, <2>1, RescheduledType
  <2> QED BY <2>2
<1>2. CASE /\ tx_buffer'[i] = tx_buffer[i] /\ i \notin ResentSlots
           /\ (tx_buffer[i].empty \/ tx_buffer[i].ed \notin GivenUp)
  <2>1. i \notin DueSlots
    <3>1. \A j \in SpentSlots : tx_buffer[j].ed \in GivenUp
      BY DEF GivenUp
    <3>2. i \notin SpentSlots
      BY <1>2, <3>1
    <3> QED BY <1>2, <3>1, <3>2 DEF ResentSlots
  <2>2. tx_buffer[i].expiration_time # Later(timer_counter, 1)
    BY <1>0, <1>2, <2>1 DEF DueSlots
  <2>3. tx_buffer[i].expiration_time = Later(timer_counter, 2)
    BY <1>2, <2>2 DEF Armed
  <2>4. tx_buffer'[i].expiration_time = Later(timer_counter', 1)
    BY <1>0, <1>2, <2>3, LaterTwice
  <2> QED BY <2>4
<1>3. tx_buffer'[i] # EmptyTx
  BY EmptyTxType
<1> QED BY <1>1, <1>2, <1>3, TickSlots

(* No transfer is left without a retransmission in sight, not even when a  *)
(* tick sends several slots again and gives up others.                     *)
THEOREM ClockCorrect == Spec => []RetransmissionArmed
<1>1. RetransmissionArmed <=> \A i \in Slot : Armed(i)
  BY DEF RetransmissionArmed, Armed
<1>2. Init => \A i \in Slot : Armed(i)
  BY EmptyTxType DEF Init, Armed
<1>3. TypeInv /\ (\A i \in Slot : Armed(i)) /\ [Next]_vars
        => (\A i \in Slot : Armed(i))'
  <2> SUFFICES ASSUME TypeInv, \A i \in Slot : Armed(i), [Next]_vars, NEW i \in Slot
               PROVE  Armed(i)'
    OBVIOUS
  <2>0. tx_buffer \in [Slot -> TxRecord] /\ timer_counter \in 0..(TimerMod - 1)
    BY DEF TypeInv, TypeOK
  <2>1. CASE UNCHANGED <<tx_buffer, timer_counter>>
    BY <2>1 DEF Armed
  <2>2. ASSUME NEW e \in Ed, LINK_send_coord(e) PROVE Armed(i)'
    <3>1. PICK j \in Slot :
            tx_buffer' = [tx_buffer EXCEPT ![j] =
                            Fresh(e, Later(timer_counter, 2), sent[e] + 1)]
      BY <2>2, Zenon DEF LINK_send_coord, Fresh
    <3>2. timer_counter' = timer_counter
      BY <2>2 DEF LINK_send_coord
    <3> QED BY <2>0, <3>1, <3>2 DEF Armed, Fresh
  <2>3. ASSUME NEW e \in Ed, router_process_ack(e) PROVE Armed(i)'
    <3>1. timer_counter' = timer_counter
      BY <2>3 DEF router_process_ack, RouterReceives
    <3>2. CASE UNCHANGED tx_buffer
      BY <3>1, <3>2 DEF Armed
    <3>3. ASSUME NEW j \in Slot,
                 tx_buffer' = [tx_buffer EXCEPT
                   ![j].state = COMMIT_SENT,
                   ![j].transmits_to_error = MaxRetries,
                   ![j].expiration_time = Later(timer_counter, 2)]
          PROVE  Armed(i)'
      <4>1. tx_buffer'[j].expiration_time = Later(timer_counter, 2)
        BY <2>0, <3>3 DEF TxRecord
      <4>2. i # j => tx_buffer'[i] = tx_buffer[i]
        BY <2>0, <3>3
      <4> QED BY <3>1, <4>1, <4>2 DEF Armed
    <3> QED BY <2>3, <3>2, <3>3 DEF router_process_ack
  <2>4. ASSUME NEW e \in Ed, router_process_commit_ack(e) PROVE Armed(i)'
    <3>1. timer_counter' = timer_counter
      BY <2>4 DEF router_process_commit_ack, RouterReceives
    <3>2. tx_buffer'[i] \in {tx_buffer[i], EmptyTx}
      BY <2>0, <2>4 DEF router_process_commit_ack
    <3> QED BY <3>1, <3>2, EmptyTxType DEF Armed
  <2>5. CASE PHY_timer_interrupt
    BY <2>5, TickArmed
  <2>6. CASE LINK_init
    <3>1. UNCHANGED <<tx_buffer, timer_counter>> \/ tx_buffer'[i] = EmptyTx
      BY <2>6 DEF LINK_init
    <3> QED BY <2>1, <3>1, EmptyTxType DEF Armed
  <2>7. UNCHANGED vars => UNCHANGED <<tx_buffer, timer_counter>>
    BY DEF vars
  <2>8. ASSUME NEW e \in Ed, \/ PHY_send_with_cca(e) \/ ed_process_data(e)
                             \/ ed_process_commit(e) \/ Lose(e)
        PROVE  UNCHANGED <<tx_buffer, timer_counter>>
    BY <2>8 DEF PHY_send_with_cca, ed_process_data, ed_process_commit, EdReceives, Lose
  <2> QED BY <2>1, <2>2, <2>3, <2>4, <2>5, <2>6, <2>7, <2>8 DEF Next
<1> QED BY <1>1, <1>2, <1>3, TypeInvariant, PTL DEF Spec

-----------------------------------------------------------------------------
(* The order of payloads.                                                  *)

(* The order in which packets may follow each other: the DATA of a payload *)
(* before its COMMITs.                                                     *)
Rank(p) == IF p.type = "COMMIT" THEN 2 * p.msg + 1 ELSE 2 * p.msg

Sorted(s)   == \A i, j \in 1..Len(s) : i <= j => Rank(s[i]) <= Rank(s[j])
Above(s, b) == \A i \in 1..Len(s) : b <= Rank(s[i])
Below(s, b) == \A i \in 1..Len(s) : Rank(s[i]) <= b

(* A channel ch to a device, of payloads up to last, with payload rec in   *)
(* the record of the device (0 when it is free) and those of got handed    *)
(* over: the packets are sorted; none is older than the record, and all    *)
(* are younger than what was handed over, which the record is, too.        *)
Ordered(ch, last, rec, got) ==
  /\ Sorted(ch) /\ Above(ch, 2) /\ Below(ch, 2 * last + 1)
  /\ rec \in 0..last
  /\ rec # 0 => Above(ch, 2 * rec)
  /\ \A k \in 1..Len(got) : /\ got[k] \in 1..last
                            /\ Above(ch, 2 * got[k] + 1)
                            /\ rec # 0 => got[k] < rec
  /\ \A i, j \in 1..Len(got) : i < j => got[i] < got[j]

(* The DATA of payload last may be sent again: no COMMIT of it is under    *)
(* way and it was not handed over.                                         *)
Young(ch, last, got) ==
  /\ Below(ch, 2 * last)
  /\ \A k \in 1..Len(got) : got[k] < last

(* What the record of a device holds, 0 for nothing.                       *)
Held(e) == IF ed_rx_buffer[e].empty THEN 0 ELSE ed_rx_buffer[e].msg

(* The slot of a device, never more than one, holds its latest payload.    *)
OwnSlot(e) ==
  \A i \in SlotsOf(e) :
    /\ \A j \in SlotsOf(e) : i = j
    /\ tx_buffer[i].msg = sent[e] /\ sent[e] > 0
    /\ tx_buffer[i].state = DATA_SENT => Young(down[e], sent[e], log[e])

InOrder(e) ==
  /\ Ordered(down[e], sent[e], Held(e), log[e])
  /\ ~ed_rx_buffer[e].empty => ed_rx_buffer[e].msg > 0
  /\ OwnSlot(e)

LEMMA RankType == \A p \in DownPacket : Rank(p) \in Nat
BY DEF Rank, DownPacket

LEMMA RankValue ==
  \A n \in Nat : Rank(DataPacket(n)) = 2 * n /\ Rank(CommitPacket(n)) = 2 * n + 1
BY DEF Rank, DataPacket, CommitPacket

(* What is left of a channel after its oldest packet left it.              *)
LEMMA TailOrder ==
  ASSUME NEW ch \in Seq(DownPacket), ch # <<>>
  PROVE  /\ Tail(ch) \in Seq(DownPacket)
         /\ Head(ch) \in DownPacket
         /\ Sorted(ch) => Sorted(Tail(ch)) /\ Above(Tail(ch), Rank(Head(ch)))
         /\ \A b : Above(ch, b) => Above(Tail(ch), b) /\ b <= Rank(Head(ch))
         /\ \A b : Below(ch, b) => Below(Tail(ch), b) /\ Rank(Head(ch)) <= b
<1>1. /\ Len(ch) \in Nat /\ Len(ch) > 0 /\ Len(Tail(ch)) = Len(ch) - 1
      /\ Tail(ch) \in Seq(DownPacket) /\ Head(ch) \in DownPacket
  OBVIOUS
<1>2. \A i \in 1..Len(Tail(ch)) : Tail(ch)[i] = ch[i + 1] /\ i + 1 \in 1..Len(ch)
  BY <1>1
<1>3. Head(ch) = ch[1] /\ 1 \in 1..Len(ch)
  BY <1>1
<1>4. ASSUME Sorted(ch) PROVE Sorted(Tail(ch)) /\ Above(Tail(ch), Rank(Head(ch)))
  <2>1. Sorted(Tail(ch))
    BY <1>1, <1>2, <1>4 DEF Sorted
  <2>2. Above(Tail(ch), Rank(Head(ch)))
    BY <1>1, <1>2, <1>3, <1>4 DEF Sorted, Above
  <2> QED BY <2>1, <2>2
<1>5. ASSUME NEW b, Above(ch, b) PROVE Above(Tail(ch), b) /\ b <= Rank(Head(ch))
  BY <1>2, <1>3, <1>5 DEF Above
<1>6. ASSUME NEW b, Below(ch, b) PROVE Below(Tail(ch), b) /\ Rank(Head(ch)) <= b
  BY <1>2, <1>3, <1>6 DEF Below
<1> QED BY <1>1, <1>4, <1>5, <1>6

(* A channel into which a packet was put that is not lower than any in it. *)
LEMMA AppendOrder ==
  ASSUME NEW ch \in Seq(DownPacket), NEW p \in DownPacket,
         NEW t \in {ch, Append(ch, p)}
  PROVE  /\ t \in Seq(DownPacket)
         /\ \A b : Above(ch, b) /\ b <= Rank(p) => Above(t, b)
         /\ \A b : Below(ch, b) /\ Rank(p) <= b => Below(t, b)
         /\ Sorted(ch) /\ Below(ch, Rank(p)) => Sorted(t)
<1>1. CASE t = ch
  BY <1>1
<1>2. CASE t = Append(ch, p)
  <2>1. t \in Seq(DownPacket) /\ Len(t) = Len(ch) + 1 /\ Len(ch) \in Nat
    BY <1>2
  <2>2. t[Len(t)] = p /\ \A i \in 1..Len(ch) : t[i] = ch[i]
    BY <1>2, <2>1
  <2>3. \A i \in 1..Len(t) : i = Len(t) \/ i \in 1..Len(ch)
    BY <2>1
  <2>4. ASSUME NEW b, Above(ch, b), b <= Rank(p) PROVE Above(t, b)
    BY <2>2, <2>3, <2>4 DEF Above
  <2>5. ASSUME NEW b, Below(ch, b), Rank(p) <= b PROVE Below(t, b)
    BY <2>2, <2>3, <2>5 DEF Below
  <2>6. ASSUME Sorted(ch), Below(ch, Rank(p)) PROVE Sorted(t)
    <3> SUFFICES ASSUME NEW i \in 1..Len(t), NEW j \in 1..Len(t), i <= j
                 PROVE  Rank(t[i]) <= Rank(t[j])
      BY DEF Sorted
    <3>0. Rank(p) \in Nat
      BY RankType
    <3>1. CASE j = Len(t)
      BY <2>2, <2>3, <2>6, <3>0, <3>1 DEF Below
    <3>2. CASE j \in 1..Len(ch)
      <4>1. i \in 1..Len(ch)
        BY <2>1, <3>2
      <4> QED BY <2>2, <2>6, <3>2, <4>1 DEF Sorted
    <3> QED BY <2>3, <3>1, <3>2
  <2> QED BY <2>1, <2>4, <2>5, <2>6
<1> QED BY <1>1, <1>2

LEMMA BelowMore ==
  ASSUME NEW ch \in Seq(DownPacket), NEW b \in Nat, NEW c \in Nat, b <= c, Below(ch, b)
  PROVE  Below(ch, c)
<1>1. \A i \in 1..Len(ch) : Rank(ch[i]) \in Nat
  BY RankType
<1> QED BY <1>1 DEF Below

(* A packet is lost, or taken without a change to the record.              *)
LEMMA OrderedTail ==
  ASSUME NEW ch \in Seq(DownPacket), ch # <<>>,
         NEW last \in Nat, NEW rec \in Nat, NEW got \in Seq(Nat),
         Ordered(ch, last, rec, got)
  PROVE  /\ Ordered(Tail(ch), last, rec, got)
         /\ Young(ch, last, got) => Young(Tail(ch), last, got)
<1>1. Young(ch, last, got) => Young(Tail(ch), last, got)
  BY TailOrder DEF Young
<1>2. Ordered(Tail(ch), last, rec, got)
  BY TailOrder DEF Ordered
<1> QED BY <1>1, <1>2

(* The DATA of a new payload are sent.                                     *)
LEMMA OrderedNew ==
  ASSUME NEW ch \in Seq(DownPacket),
         NEW last \in Nat, NEW rec \in Nat, NEW got \in Seq(Nat),
         Ordered(ch, last, rec, got),
         NEW t \in {ch, Append(ch, DataPacket(last + 1))}
  PROVE  Ordered(t, last + 1, rec, got) /\ Young(t, last + 1, got)
<1> DEFINE p == DataPacket(last + 1)
<1>1. p \in DownPacket /\ Rank(p) = 2 * last + 2
  <2>1. last + 1 \in Nat
    OBVIOUS
  <2>2. p \in DownPacket /\ Rank(p) = 2 * (last + 1)
    BY <2>1, PacketType, RankValue
  <2> QED BY <2>2
<1> HIDE DEF p
<1>2. Below(ch, 2 * last + 2)
  <2>1. 2 * last + 1 \in Nat /\ 2 * last + 2 \in Nat
    OBVIOUS
  <2> QED BY <2>1, BelowMore DEF Ordered
<1>3. t \in {ch, Append(ch, p)}
  BY DEF p
<1>4. /\ \A b : Above(ch, b) /\ b <= 2 * last + 2 => Above(t, b)
      /\ \A b : Below(ch, b) /\ 2 * last + 2 <= b => Below(t, b)
      /\ Sorted(t) /\ t \in Seq(DownPacket)
  BY <1>1, <1>2, <1>3, AppendOrder DEF Ordered
<1>5. Below(t, 2 * (last + 1)) /\ Below(t, 2 * (last + 1) + 1)
  <2>1. Below(t, 2 * last + 2)
    BY <1>2, <1>4
  <2>2. 2 * last + 2 \in Nat /\ 2 * last + 3 \in Nat
    OBVIOUS
  <2>3. Below(t, 2 * last + 3)
    BY <1>4, <2>1, <2>2, BelowMore
  <2>4. 2 * (last + 1) = 2 * last + 2 /\ 2 * (last + 1) + 1 = 2 * last + 3
    OBVIOUS
  <2> QED BY <2>1, <2>3, <2>4
<1>6. Above(t, 2) /\ (rec # 0 => Above(t, 2 * rec))
  <2>1. 2 <= 2 * last + 2 /\ (rec \in 0..last => 2 * rec <= 2 * last + 2)
    OBVIOUS
  <2> QED BY <1>4, <2>1 DEF Ordered
<1>7. \A k \in 1..Len(got) : /\ got[k] \in 1..(last + 1)
                             /\ got[k] < last + 1
                             /\ Above(t, 2 * got[k] + 1)
  <2>1. \A n \in 1..last : n \in 1..(last + 1) /\ n < last + 1 /\ 2 * n + 1 <= 2 * last + 2
    OBVIOUS
  <2> QED BY <1>4, <2>1 DEF Ordered
<1>8. rec \in 0..(last + 1)
  BY DEF Ordered
<1>9. /\ \A i, j \in 1..Len(got) : i < j => got[i] < got[j]
      /\ \A k \in 1..Len(got) : rec # 0 => got[k] < rec
  BY DEF Ordered
<1>10. Young(t, last + 1, got)
  BY <1>5, <1>7 DEF Young
<1>11. Ordered(t, last + 1, rec, got)
  BY <1>4, <1>5, <1>6, <1>7, <1>8, <1>9 DEF Ordered
<1> QED BY <1>10, <1>11

(* DATA or COMMIT of the latest payload are sent again or the COMMIT for   *)
(* the first time.                                                         *)
LEMMA OrderedAgain ==
  ASSUME NEW ch \in Seq(DownPacket),
         NEW last \in Nat, NEW rec \in Nat, NEW got \in Seq(Nat),
         Ordered(ch, last, rec, got), last > 0,
         NEW p \in DownPacket, NEW t \in {ch, Append(ch, p)},
         \/ p = DataPacket(last) /\ Young(ch, last, got)
         \/ p = CommitPacket(last)
  PROVE  /\ Ordered(t, last, rec, got)
         /\ p = DataPacket(last) => Young(t, last, got)
<1>1. /\ Rank(p) \in {2 * last, 2 * last + 1} /\ Below(ch, Rank(p))
      /\ p = DataPacket(last) => Rank(p) = 2 * last
      /\ \A k \in 1..Len(got) : 2 * got[k] + 1 <= Rank(p)
  <2>1. CASE p = DataPacket(last) /\ Young(ch, last, got)
    <3>1. Rank(p) = 2 * last /\ Below(ch, Rank(p))
      BY <2>1, RankValue DEF Young
    <3>2. \A n \in 1..last : n < last => 2 * n + 1 <= 2 * last
      OBVIOUS
    <3>3. \A k \in 1..Len(got) : got[k] \in 1..last /\ got[k] < last
      BY <2>1 DEF Ordered, Young
    <3> QED BY <3>1, <3>2, <3>3
  <2>2. CASE p = CommitPacket(last)
    <3>1. Rank(p) = 2 * last + 1 /\ Below(ch, Rank(p))
      BY <2>2, RankValue DEF Ordered
    <3>2. \A n \in 1..last : 2 * n + 1 <= 2 * last + 1
      OBVIOUS
    <3>3. \A k \in 1..Len(got) : got[k] \in 1..last
      BY DEF Ordered
    <3>4. p # DataPacket(last)
      BY <2>2 DEF DataPacket, CommitPacket
    <3> QED BY <3>1, <3>2, <3>3, <3>4
  <2> QED BY <2>1, <2>2
<1>2. /\ \A b : Above(ch, b) /\ b <= Rank(p) => Above(t, b)
      /\ \A b : Below(ch, b) /\ Rank(p) <= b => Below(t, b)
      /\ Sorted(t) /\ t \in Seq(DownPacket)
  BY <1>1, AppendOrder DEF Ordered
<1>3. Below(t, 2 * last + 1) /\ (p = DataPacket(last) => Young(t, last, got))
  <2>1. Rank(p) <= 2 * last + 1
    BY <1>1
  <2>2. Below(t, 2 * last + 1)
    BY <1>2, <2>1 DEF Ordered
  <2>3. ASSUME p = DataPacket(last) PROVE Young(t, last, got)
    <3>1. Rank(p) = 2 * last /\ Rank(p) <= 2 * last
      BY <1>1, <2>3
    <3>2. Below(t, 2 * last)
      BY <1>1, <1>2, <3>1
    <3>3. p # CommitPacket(last)
      BY <2>3 DEF DataPacket, CommitPacket
    <3> QED BY <3>2, <3>3 DEF Young
  <2> QED BY <2>2, <2>3
<1>4. Above(t, 2) /\ (rec # 0 => Above(t, 2 * rec))
  <2>1. 2 <= Rank(p) /\ (rec \in 0..last => 2 * rec <= Rank(p))
    BY <1>1
  <2> QED BY <1>2, <2>1 DEF Ordered
<1>5. \A k \in 1..Len(got) : Above(t, 2 * got[k] + 1)
  BY <1>1, <1>2 DEF Ordered
<1>6. Ordered(t, last, rec, got)
  BY <1>2, <1>3, <1>4, <1>5 DEF Ordered
<1> QED BY <1>3, <1>6

(* DATA are stored in the free record.                                     *)
LEMMA OrderedStore ==
  ASSUME NEW ch \in Seq(DownPacket), ch # <<>>, Head(ch).type = "DATA",
         NEW last \in Nat, NEW got \in Seq(Nat), Ordered(ch, last, 0, got)
  PROVE  Ordered(Tail(ch), last, Head(ch).msg, got) /\ Head(ch).msg > 0
<1> DEFINE n == Head(ch).msg
<1>1. n \in Nat /\ Rank(Head(ch)) = 2 * n
  <2>1. Head(ch) \in DownPacket
    BY TailOrder
  <2> QED BY <2>1 DEF DownPacket, Rank
<1>2. Ordered(Tail(ch), last, 0, got)
  BY OrderedTail
<1>3. 2 <= 2 * n /\ 2 * n <= 2 * last + 1 /\ Above(Tail(ch), 2 * n)
  BY <1>1, TailOrder DEF Ordered
<1>4. n > 0 /\ n \in 0..last
  BY <1>1, <1>3
<1>5. \A k \in 1..Len(got) : got[k] < n
  <2>1. \A k \in 1..Len(got) : got[k] \in Nat /\ 2 * got[k] + 1 <= 2 * n
    BY <1>1, TailOrder DEF Ordered
  <2>2. \A m \in Nat : 2 * m + 1 <= 2 * n => m < n
    BY <1>1
  <2> QED BY <2>1, <2>2
<1> HIDE DEF n
<1>6. Ordered(Tail(ch), last, n, got)
  BY <1>2, <1>3, <1>4, <1>5 DEF Ordered
<1> QED BY <1>4, <1>6 DEF n

(* COMMIT: what the record holds is handed over.                           *)
LEMMA OrderedDeliver ==
  ASSUME NEW ch \in Seq(DownPacket), ch # <<>>, Head(ch).type = "COMMIT",
         NEW last \in Nat, NEW rec \in Nat, rec > 0, NEW got \in Seq(Nat),
         Ordered(ch, last, rec, got)
  PROVE  /\ Ordered(Tail(ch), last, 0, Append(got, rec))
         /\ Young(ch, last, got) => Young(Tail(ch), last, Append(got, rec))
<1> DEFINE h == Rank(Head(ch))
           more == Append(got, rec)
<1>1. h \in Nat /\ 2 * rec + 1 <= h /\ Above(Tail(ch), 2 * rec + 1)
  <2>1. Head(ch) \in DownPacket
    BY TailOrder
  <2>2. PICK n \in Nat : h = 2 * n + 1
    BY <2>1 DEF DownPacket, Rank
  <2>3. 2 * rec <= h
    BY TailOrder DEF Ordered
  <2>4. Above(Tail(ch), h) /\ Tail(ch) \in Seq(DownPacket)
    BY TailOrder DEF Ordered
  <2>5. 2 * rec + 1 <= h /\ h \in Nat
    BY <2>2, <2>3
  <2> HIDE DEF h
  <2>6. \A i \in 1..Len(Tail(ch)) : h <= Rank(Tail(ch)[i]) /\ Rank(Tail(ch)[i]) \in Nat
    BY <2>4, RankType DEF Above
  <2>7. Above(Tail(ch), 2 * rec + 1)
    BY <2>5, <2>6 DEF Above
  <2> QED BY <2>5, <2>7
<1>2. Ordered(Tail(ch), last, rec, got)
  BY OrderedTail
<1>3. Len(more) = Len(got) + 1 /\ Len(got) \in Nat /\ more[Len(more)] = rec
      /\ \A k \in 1..Len(got) : more[k] = got[k]
  OBVIOUS
<1>4. \A k \in 1..Len(more) : k = Len(more) \/ k \in 1..Len(got)
  BY <1>3
<1>5. \A k \in 1..Len(more) : more[k] \in 1..last /\ Above(Tail(ch), 2 * more[k] + 1)
  <2>1. rec \in 1..last
    BY DEF Ordered
  <2> HIDE DEF more
  <2> QED BY <1>1, <1>2, <1>3, <1>4, <2>1 DEF Ordered
<1>6. \A i, j \in 1..Len(more) : i < j => more[i] < more[j]
  <2> HIDE DEF more
  <2> SUFFICES ASSUME NEW i \in 1..Len(more), NEW j \in 1..Len(more), i < j
               PROVE  more[i] < more[j]
    OBVIOUS
  <2>1. i \in 1..Len(got)
    BY <1>3, <1>4
  <2>2. CASE j = Len(more)
    <3>1. more[i] = got[i] /\ more[j] = rec
      BY <1>3, <2>1, <2>2
    <3>2. got[i] < rec
      BY <2>1 DEF Ordered
    <3> QED BY <3>1, <3>2
  <2>3. CASE j \in 1..Len(got)
    BY <1>3, <2>1, <2>3 DEF Ordered
  <2> QED BY <1>4, <2>2, <2>3
<1>7. Ordered(Tail(ch), last, 0, more)
  <2> HIDE DEF more
  <2> QED BY <1>2, <1>5, <1>6 DEF Ordered
<1>8. ASSUME Young(ch, last, got) PROVE Young(Tail(ch), last, more)
  <2>1. Below(Tail(ch), 2 * last) /\ h <= 2 * last
    BY <1>8, TailOrder DEF Young
  <2>2. rec < last
    <3> HIDE DEF h
    <3> QED BY <1>1, <2>1
  <2> HIDE DEF more
  <2> QED BY <1>3, <1>4, <1>8, <2>1, <2>2 DEF Young
<1> QED BY <1>7, <1>8

(* The record is freed and what it held is forgotten.                      *)
LEMMA OrderedForget ==
  ASSUME NEW ch, NEW last \in Nat, NEW rec, NEW got, Ordered(ch, last, rec, got)
  PROVE  Ordered(ch, last, 0, got)
BY DEF Ordered

(* The slots of f after the step were slots of f before it, with the same  *)
(* payload, and none of them sends DATA again that did not do so before.   *)
KeepsSlots(f) ==
  \A i \in SlotsOf(f)' :
    /\ i \in SlotsOf(f)
    /\ tx_buffer'[i].msg = tx_buffer[i].msg
    /\ tx_buffer'[i].state = DATA_SENT => tx_buffer[i].state = DATA_SENT

(* A step in which no new payload is sent to f and nothing is sent again.  *)
LEMMA QuietStep ==
  ASSUME NEW f \in Ed, InOrder(f), sent'[f] = sent[f],
         Ordered(down'[f], sent[f], Held(f)', log'[f]),
         Young(down[f], sent[f], log[f]) => Young(down'[f], sent[f], log'[f]),
         ~ed_rx_buffer'[f].empty => ed_rx_buffer'[f].msg > 0,
         KeepsSlots(f)
  PROVE  InOrder(f)'
BY DEF InOrder, OwnSlot, KeepsSlots

(* A step that has nothing to do with f.                                   *)
LEMMA OtherStep ==
  ASSUME NEW f \in Ed, InOrder(f), sent'[f] = sent[f], down'[f] = down[f],
         ed_rx_buffer'[f] = ed_rx_buffer[f], log'[f] = log[f], KeepsSlots(f)
  PROVE  InOrder(f)'
<1>1. Held(f)' = Held(f)
  BY DEF Held
<1>2. Ordered(down'[f], sent[f], Held(f)', log'[f])
  BY <1>1 DEF InOrder
<1> QED BY <1>2, QuietStep DEF InOrder

LEMMA HeldType ==
  ASSUME TypeInv, NEW f \in Ed
  PROVE  /\ Held(f) \in Nat /\ sent[f] \in Nat
         /\ log[f] \in Seq(Nat) /\ down[f] \in Seq(DownPacket)
BY DEF TypeInv, TypeOK, Held, RxRecord

(* What a packet sent to e does to the channels.                           *)
LEMMA TransmitResult ==
  ASSUME NEW e \in Ed, NEW ch \in [Ed -> Seq(DownPacket)], NEW p
  PROVE  Transmit(ch, e, p)[e] \in {ch[e], Append(ch[e], p)}
BY DEF Transmit

LEMMA TransmitOther ==
  ASSUME NEW e \in Ed, NEW f \in Ed, f # e, NEW ch \in [Ed -> Seq(DownPacket)], NEW p
  PROVE  Transmit(ch, e, p)[f] = ch[f]
BY DEF Transmit

LEMMA ConsumeResult ==
  ASSUME NEW e \in Ed, NEW f \in Ed, NEW ch \in [Ed -> Seq(DownPacket)]
  PROVE  Consume(ch, e)[f] = IF f = e THEN Tail(ch[f]) ELSE ch[f]
BY DEF Consume

LEMMA SendInOrder ==
  ASSUME ~Overlap, ~Preempted, TypeInv, NEW e \in Ed, LINK_send_coord(e),
         NEW f \in Ed, InOrder(f)
  PROVE  InOrder(f)'
<1>0. /\ tx_buffer \in [Slot -> TxRecord] /\ sent \in [Ed -> Nat]
      /\ down \in [Ed -> Seq(DownPacket)]
  BY DEF TypeInv, TypeOK
<1>1. PICK i \in Slot :
        /\ i \in FreeSlots
        /\ tx_buffer' = [tx_buffer EXCEPT ![i] =
                          Fresh(e, Later(timer_counter, 2), sent[e] + 1)]
  BY Zenon DEF LINK_send_coord, First, Fresh
<1>2. /\ SlotsOf(e) = {} /\ sent' = [sent EXCEPT ![e] = @ + 1]
      /\ down' = Transmit(down, e, DataPacket(sent[e] + 1))
      /\ UNCHANGED <<ed_rx_buffer, log>>
  BY DEF LINK_send_coord
<1>3. /\ \A j \in Slot : j # i => tx_buffer'[j] = tx_buffer[j]
      /\ tx_buffer'[i] = Fresh(e, Later(timer_counter, 2), sent[e] + 1)
  BY <1>0, <1>1
<1>4. CASE f # e
  <2>1. KeepsSlots(f)
    BY <1>3, <1>4 DEF KeepsSlots, SlotsOf, Fresh
  <2>2. down'[f] = down[f] /\ sent'[f] = sent[f]
    BY <1>0, <1>2, <1>4, TransmitOther
  <2> QED BY <1>2, <2>1, <2>2, OtherStep
<1>5. CASE f = e
  <2>1. /\ \A j \in SlotsOf(f)' : j = i
        /\ tx_buffer'[i].msg = sent[f] + 1
    BY <1>2, <1>3, <1>5 DEF SlotsOf, Fresh
  <2>2. down'[f] \in {down[f], Append(down[f], DataPacket(sent[f] + 1))}
    BY <1>0, <1>2, <1>5, TransmitResult
  <2>3. sent'[f] = sent[f] + 1 /\ sent[f] + 1 > 0
    BY <1>0, <1>2, <1>5
  <2>4. /\ Ordered(down'[f], sent[f] + 1, Held(f), log[f])
        /\ Young(down'[f], sent[f] + 1, log[f])
    BY <2>2, HeldType, OrderedNew DEF InOrder
  <2>5. Held(f)' = Held(f)
    BY <1>2 DEF Held
  <2>6. /\ Ordered(down'[f], sent'[f], Held(f)', log'[f])
        /\ Young(down'[f], sent'[f], log'[f])
        /\ ~ed_rx_buffer'[f].empty => ed_rx_buffer'[f].msg > 0
    BY <1>2, <2>3, <2>4, <2>5 DEF InOrder
  <2>7. OwnSlot(f)'
    BY <2>1, <2>3, <2>6 DEF OwnSlot
  <2> QED BY <2>6, <2>7 DEF InOrder
<1> QED BY <1>4, <1>5

LEMMA AckInOrder ==
  ASSUME TypeInv, NEW e \in Ed, router_process_ack(e), NEW f \in Ed, InOrder(f)
  PROVE  InOrder(f)'
<1>0. /\ tx_buffer \in [Slot -> TxRecord] /\ down \in [Ed -> Seq(DownPacket)]
      /\ UNCHANGED <<ed_rx_buffer, sent, log>>
  BY DEF TypeInv, TypeOK, router_process_ack, RouterReceives
<1>1. CASE UNCHANGED <<tx_buffer, down>>
  <2>1. KeepsSlots(f)
    BY <1>1 DEF KeepsSlots, SlotsOf
  <2> QED BY <1>0, <1>1, <2>1, OtherStep
<1>2. ASSUME NEW i \in SlotsOf(e),
             tx_buffer' = [tx_buffer EXCEPT
               ![i].state = COMMIT_SENT,
               ![i].transmits_to_error = MaxRetries,
               ![i].expiration_time = Later(timer_counter, 2)],
             down' = Transmit(down, e, CommitPacket(tx_buffer[i].msg))
      PROVE  InOrder(f)'
  <2>1. /\ i \in Slot /\ tx_buffer[i].ed = e
        /\ tx_buffer'[i].state = COMMIT_SENT /\ tx_buffer'[i].ed = tx_buffer[i].ed
        /\ tx_buffer'[i].msg = tx_buffer[i].msg
        /\ tx_buffer'[i].empty = tx_buffer[i].empty
        /\ \A j \in Slot : j # i => tx_buffer'[j] = tx_buffer[j]
    BY <1>0, <1>2 DEF TxRecord, SlotsOf
  <2>2. KeepsSlots(f)
    BY <2>1 DEF KeepsSlots, SlotsOf, DATA_SENT, COMMIT_SENT
  <2>3. CASE f # e
    <3>1. down'[f] = down[f]
      BY <1>0, <1>2, <2>3, TransmitOther
    <3> QED BY <1>0, <2>2, <3>1, OtherStep
  <2>4. CASE f = e
    <3>1. /\ tx_buffer[i].msg = sent[f] /\ sent[f] > 0
          /\ \A j \in SlotsOf(f) : j = i
      BY <2>4 DEF InOrder, OwnSlot
    <3>2. down'[f] \in {down[f], Append(down[f], CommitPacket(sent[f]))}
      BY <1>0, <1>2, <2>4, <3>1, TransmitResult
    <3>3. CommitPacket(sent[f]) \in DownPacket
      BY HeldType, PacketType
    <3>4. Ordered(down'[f], sent[f], Held(f), log[f])
      BY <3>1, <3>2, <3>3, HeldType, OrderedAgain DEF InOrder
    <3>5. Held(f)' = Held(f)
      BY <1>0 DEF Held
    <3>6. \A j \in SlotsOf(f)' : j = i
      BY <2>2, <3>1 DEF KeepsSlots
    <3>7. COMMIT_SENT # DATA_SENT
      BY DEF COMMIT_SENT, DATA_SENT
    <3>8. OwnSlot(f)'
      BY <1>0, <2>1, <3>1, <3>6, <3>7 DEF OwnSlot
    <3> QED BY <1>0, <3>4, <3>5, <3>8 DEF InOrder
  <2> QED BY <2>3, <2>4
<1> QED BY <1>1, <1>2 DEF router_process_ack, First

LEMMA CommitAckInOrder ==
  ASSUME TypeInv, NEW e \in Ed, router_process_commit_ack(e),
         NEW f \in Ed, InOrder(f)
  PROVE  InOrder(f)'
<1>1. \A i \in Slot : tx_buffer'[i] \in {tx_buffer[i], EmptyTx}
  BY DEF TypeInv, TypeOK, router_process_commit_ack
<1>2. KeepsSlots(f)
  BY <1>1, EmptyTxType DEF KeepsSlots, SlotsOf
<1> QED BY <1>2, OtherStep DEF router_process_commit_ack, RouterReceives

(* What the scan of a tick sends to a device that has at most one slot.    *)
LEMMA ScanOfDevice ==
  ASSUME TypeInv, NEW f \in Ed, \A i, j \in SlotsOf(f) : i = j
  PROVE  \/ DownAfter[TxSize][f] = down[f]
         \/ \E i \in SlotsOf(f) \cap ResentSlots :
              DownAfter[TxSize][f] \in {down[f], Append(down[f], Resent(tx_buffer[i]))}
<1>0. /\ TxSize \in Nat /\ Slot = 1..TxSize
      /\ ResentSlots \subseteq Slot
      /\ \A i \in ResentSlots : i \in SlotsOf(tx_buffer[i].ed) /\ tx_buffer[i].ed \in Ed
  BY DownlinkAssumption
  DEF Slot, ResentSlots, DueSlots, SlotsOf, TypeInv, Addressed
<1>1. /\ DownAfter[0] = down
      /\ \A i \in 0..TxSize : DownAfter[i] \in Channels
      /\ \A i \in 1..TxSize : DownAfter[i] = ScanStep(i, DownAfter[i - 1])
  BY <1>0, Scan DEF TypeInv
<1>2. ASSUME NEW i \in 1..TxSize, ~(i \in ResentSlots /\ tx_buffer[i].ed = f)
      PROVE  DownAfter[i][f] = DownAfter[i - 1][f]
  <2>1. i - 1 \in 0..TxSize
    BY <1>0
  <2>2. DownAfter[i - 1] \in [Ed -> Seq(DownPacket)]
    BY <1>1, <2>1 DEF Channels
  <2>3. DownAfter[i] = ScanStep(i, DownAfter[i - 1])
    BY <1>1
  <2>4. CASE i \notin ResentSlots
    BY <2>3, <2>4 DEF ScanStep
  <2>5. CASE i \in ResentSlots /\ f # tx_buffer[i].ed
    BY <1>0, <2>2, <2>3, <2>5, TransmitOther DEF ScanStep
  <2> QED BY <1>2, <2>4, <2>5
<1>3. CASE \A i \in ResentSlots : tx_buffer[i].ed # f
  <2> DEFINE P == {i \in 0..TxSize : DownAfter[i][f] = down[f]}
  <2>1. 0 \in P
    BY <1>0, <1>1
  <2>2. ASSUME NEW i \in 1..TxSize, i - 1 \in P PROVE i \in P
    <3>1. DownAfter[i][f] = DownAfter[i - 1][f] /\ i \in 0..TxSize
      BY <1>0, <1>2, <1>3
    <3> QED BY <2>2, <3>1
  <2>3. P \in SUBSET (0..TxSize)
    OBVIOUS
  <2>4. P = 0..TxSize
    <3> HIDE DEF P
    <3> QED BY <1>0, <2>1, <2>2, <2>3, UpTo
  <2>5. TxSize \in P
    BY <1>0, <2>4
  <2> QED BY <2>5
<1>4. ASSUME NEW k \in ResentSlots, tx_buffer[k].ed = f
      PROVE  \E i \in SlotsOf(f) \cap ResentSlots :
               DownAfter[TxSize][f] \in {down[f], Append(down[f], Resent(tx_buffer[i]))}
  <2>0. k \in SlotsOf(f) /\ k \in 1..TxSize
    BY <1>0, <1>4
  <2>1. \A i \in ResentSlots : tx_buffer[i].ed = f => i = k
    BY <1>0, <1>4, <2>0
  <2> DEFINE Sent == {down[f], Append(down[f], Resent(tx_buffer[k]))}
             P == {i \in 0..TxSize : IF i < k THEN DownAfter[i][f] = down[f]
                                              ELSE DownAfter[i][f] \in Sent}
  <2>2. 0 \in P
    BY <1>0, <1>1, <2>0
  <2>3. ASSUME NEW i \in 1..TxSize, i - 1 \in P PROVE i \in P
    <3>0. i \in 0..TxSize /\ i - 1 \in 0..TxSize
      BY <1>0
    <3>1. CASE i # k
      <4>1. DownAfter[i][f] = DownAfter[i - 1][f]
        BY <1>2, <2>1, <3>1
      <4>2. i < k <=> i - 1 < k
        BY <2>0, <3>1
      <4> QED BY <2>3, <3>0, <4>1, <4>2
    <3>2. CASE i = k
      <4>1. DownAfter[i - 1][f] = down[f]
        <5>1. i - 1 < k
          BY <2>0, <3>2
        <5> QED BY <2>3, <5>1
      <4>2. DownAfter[i - 1] \in [Ed -> Seq(DownPacket)]
        BY <1>1, <3>0 DEF Channels
      <4>3. DownAfter[i] = Transmit(DownAfter[i - 1], f, Resent(tx_buffer[k]))
        BY <1>1, <1>4, <3>2 DEF ScanStep
      <4>4. DownAfter[i][f] \in Sent
        BY <4>1, <4>2, <4>3, TransmitResult
      <4>5. ~(i < k)
        BY <2>0, <3>2
      <4> HIDE DEF Sent
      <4> QED BY <3>0, <4>4, <4>5
    <3> QED BY <3>1, <3>2
  <2>4. P \in SUBSET (0..TxSize)
    OBVIOUS
  <2>5. P = 0..TxSize
    <3> HIDE DEF P
    <3> QED BY <1>0, <2>2, <2>3, <2>4, UpTo
  <2>6. TxSize \in P /\ ~(TxSize < k)
    BY <1>0, <2>0, <2>5
  <2>7. DownAfter[TxSize][f] \in Sent
    BY <2>6
  <2> QED BY <1>4, <2>0, <2>7
<1> QED BY <1>3, <1>4

LEMMA TickInOrder ==
  ASSUME TypeInv, PHY_timer_interrupt, NEW f \in Ed, InOrder(f)
  PROVE  InOrder(f)'
<1>0. /\ down' = DownAfter[TxSize]
      /\ UNCHANGED <<ed_rx_buffer, sent, log>>
  BY DEF PHY_timer_interrupt, check_buffers_state
<1>1. \A i \in ResentSlots : /\ tx_buffer[i] \in TxRecord
                             /\ tx_buffer[i].transmits_to_error # 0
                             /\ ~tx_buffer[i].empty
  BY DEF ResentSlots, SpentSlots, DueSlots, TypeInv, TypeOK
<1>2. \A i \in ResentSlots : /\ Rescheduled(tx_buffer[i]).empty = tx_buffer[i].empty
                             /\ Rescheduled(tx_buffer[i]).ed = tx_buffer[i].ed
                             /\ Rescheduled(tx_buffer[i]).msg = tx_buffer[i].msg
                             /\ Rescheduled(tx_buffer[i]).state = tx_buffer[i].state
  BY <1>1, TickSlots, RescheduledType
<1>3. KeepsSlots(f)
  BY <1>2, TickSlots, EmptyTxType DEF KeepsSlots, SlotsOf
<1>4. CASE down'[f] = down[f]
  BY <1>0, <1>3, <1>4, OtherStep
<1>5. ASSUME NEW i \in SlotsOf(f) \cap ResentSlots,
             down'[f] \in {down[f], Append(down[f], Resent(tx_buffer[i]))}
      PROVE  InOrder(f)'
  <2>1. /\ tx_buffer[i].msg = sent[f] /\ sent[f] > 0
        /\ \A j \in SlotsOf(f) : j = i
        /\ tx_buffer[i].state = DATA_SENT => Young(down[f], sent[f], log[f])
    BY <1>5 DEF InOrder, OwnSlot
  <2> DEFINE p == Resent(tx_buffer[i])
  <2>2. /\ tx_buffer[i].state = DATA_SENT => p = DataPacket(sent[f])
        /\ tx_buffer[i].state # DATA_SENT => p = CommitPacket(sent[f])
    <3>1. tx_buffer[i].state \in {DATA_SENT, COMMIT_SENT}
      BY <1>1, <1>5 DEF TxRecord
    <3>2. DATA_SENT # COMMIT_SENT
      BY DEF DATA_SENT, COMMIT_SENT
    <3> QED BY <2>1, <3>1, <3>2 DEF Resent
  <2>3. p \in DownPacket
    BY <1>1, <1>5, ResentType
  <2>4. /\ Ordered(down'[f], sent[f], Held(f), log[f])
        /\ p = DataPacket(sent[f]) => Young(down'[f], sent[f], log[f])
    <3>1. down'[f] \in {down[f], Append(down[f], p)}
      BY <1>5
    <3>2. \/ p = DataPacket(sent[f]) /\ Young(down[f], sent[f], log[f])
          \/ p = CommitPacket(sent[f])
      BY <2>1, <2>2
    <3>3. /\ Ordered(down[f], sent[f], Held(f), log[f]) /\ sent[f] > 0
          /\ sent[f] \in Nat /\ Held(f) \in Nat /\ log[f] \in Seq(Nat)
          /\ down[f] \in Seq(DownPacket)
      BY <2>1, HeldType DEF InOrder
    <3> HIDE DEF p
    <3> QED BY <2>3, <3>1, <3>2, <3>3, OrderedAgain
  <2>5. Held(f)' = Held(f)
    BY <1>0 DEF Held
  <2>6. OwnSlot(f)'
    <3> HIDE DEF p
    <3> SUFFICES ASSUME NEW j \in SlotsOf(f)'
                 PROVE  /\ \A k \in SlotsOf(f)' : j = k
                        /\ tx_buffer'[j].msg = sent'[f] /\ sent'[f] > 0
                        /\ tx_buffer'[j].state = DATA_SENT
                             => Young(down'[f], sent'[f], log'[f])
      BY DEF OwnSlot
    <3>1. \A k \in SlotsOf(f)' : k = i
      BY <1>3, <2>1 DEF KeepsSlots
    <3>2. /\ tx_buffer'[i].msg = tx_buffer[i].msg
          /\ tx_buffer'[i].state = DATA_SENT => tx_buffer[i].state = DATA_SENT
      BY <1>3, <3>1 DEF KeepsSlots
    <3> QED BY <1>0, <2>1, <2>2, <2>4, <3>1, <3>2
  <2> QED BY <1>0, <2>4, <2>5, <2>6 DEF InOrder
<1>6. \A i, j \in SlotsOf(f) : i = j
  BY DEF InOrder, OwnSlot
<1> QED BY <1>0, <1>4, <1>5, <1>6, ScanOfDevice

LEMMA DataInOrder ==
  ASSUME TypeInv, NEW e \in Ed, ed_process_data(e), NEW f \in Ed, InOrder(f)
  PROVE  InOrder(f)'
<1>0. /\ down \in [Ed -> Seq(DownPacket)] /\ ed_rx_buffer \in [Ed -> RxRecord]
      /\ UNCHANGED <<tx_buffer, sent, log>>
      /\ down[e] # <<>> /\ Head(down[e]).type = "DATA"
      /\ down' = Consume(down, e)
  BY DEF TypeInv, TypeOK, ed_process_data, EdReceives
<1>1. KeepsSlots(f)
  BY <1>0 DEF KeepsSlots, SlotsOf
<1>2. CASE f # e
  <2>1. down'[f] = down[f] /\ ed_rx_buffer'[f] = ed_rx_buffer[f]
    BY <1>0, <1>2, ConsumeResult DEF ed_process_data
  <2> QED BY <1>0, <1>1, <2>1, OtherStep
<1>3. CASE f = e
  <2>1. down'[f] = Tail(down[f])
    BY <1>0, <1>3, ConsumeResult
  <2>2. /\ Ordered(Tail(down[f]), sent[f], Held(f), log[f])
        /\ Young(down[f], sent[f], log[f]) => Young(Tail(down[f]), sent[f], log[f])
    BY <1>0, <1>3, HeldType, OrderedTail DEF InOrder
  <2>3. CASE ~ed_rx_buffer[f].empty
    <3>1. ed_rx_buffer' = ed_rx_buffer
      BY <1>3, <2>3 DEF ed_process_data
    <3>2. Held(f)' = Held(f)
      BY <3>1 DEF Held
    <3> QED BY <1>0, <1>1, <2>1, <2>2, <3>1, <3>2, QuietStep DEF InOrder
  <2>4. CASE ed_rx_buffer[f].empty
    <3>1. ed_rx_buffer'[f] = [empty |-> FALSE, msg |-> Head(down[f]).msg]
      BY <1>0, <1>3, <2>4 DEF ed_process_data
    <3>2. Held(f)' = Head(down[f]).msg
      BY <3>1 DEF Held
    <3>3. Held(f) = 0
      BY <2>4 DEF Held
    <3>4. Ordered(Tail(down[f]), sent[f], Head(down[f]).msg, log[f])
          /\ Head(down[f]).msg > 0
      BY <1>0, <1>3, <3>3, HeldType, OrderedStore DEF InOrder
    <3>5. ed_rx_buffer'[f].msg > 0
      BY <3>1, <3>4
    <3>6. /\ Ordered(down'[f], sent[f], Held(f)', log'[f])
          /\ Young(down[f], sent[f], log[f]) => Young(down'[f], sent[f], log'[f])
      BY <1>0, <2>1, <2>2, <3>2, <3>4
    <3> QED BY <1>0, <1>1, <3>5, <3>6, QuietStep
  <2> QED BY <2>3, <2>4
<1> QED BY <1>2, <1>3

LEMMA CommitInOrder ==
  ASSUME TypeInv, NEW e \in Ed, ed_process_commit(e), NEW f \in Ed, InOrder(f)
  PROVE  InOrder(f)'
<1>0. /\ down \in [Ed -> Seq(DownPacket)] /\ ed_rx_buffer \in [Ed -> RxRecord]
      /\ log \in [Ed -> Seq(Nat)]
      /\ UNCHANGED <<tx_buffer, sent>>
      /\ down[e] # <<>> /\ Head(down[e]).type = "COMMIT"
      /\ down' = Consume(down, e)
      /\ ed_rx_buffer' = [ed_rx_buffer EXCEPT ![e] = EmptyRx]
  BY DEF TypeInv, TypeOK, ed_process_commit, EdReceives
<1>1. KeepsSlots(f)
  BY <1>0 DEF KeepsSlots, SlotsOf
<1>2. CASE f # e
  <2>1. down'[f] = down[f] /\ ed_rx_buffer'[f] = ed_rx_buffer[f] /\ log'[f] = log[f]
    BY <1>0, <1>2, ConsumeResult DEF ed_process_commit
  <2> QED BY <1>0, <1>1, <2>1, OtherStep
<1>3. CASE f = e
  <2>1. down'[f] = Tail(down[f]) /\ ed_rx_buffer'[f].empty
    BY <1>0, <1>3, ConsumeResult, EmptyRxType
  <2>2. Held(f)' = 0
    BY <2>1 DEF Held
  <2>3. CASE ed_rx_buffer[f].empty
    <3>1. log' = log /\ Held(f) = 0
      BY <1>3, <2>3 DEF ed_process_commit, Held
    <3>2. /\ Ordered(Tail(down[f]), sent[f], 0, log[f])
          /\ Young(down[f], sent[f], log[f]) => Young(Tail(down[f]), sent[f], log[f])
      BY <1>0, <1>3, <3>1, HeldType, OrderedTail DEF InOrder
    <3> QED BY <1>0, <1>1, <2>1, <2>2, <3>1, <3>2, QuietStep
  <2>4. CASE ~ed_rx_buffer[f].empty
    <3>1. Held(f) = ed_rx_buffer[f].msg /\ Held(f) > 0
      BY <2>4 DEF Held, InOrder
    <3>2. log'[f] = Append(log[f], Held(f))
      BY <1>0, <1>3, <2>4, <3>1 DEF ed_process_commit
    <3>3. /\ Ordered(Tail(down[f]), sent[f], 0, Append(log[f], Held(f)))
          /\ Young(down[f], sent[f], log[f])
               => Young(Tail(down[f]), sent[f], Append(log[f], Held(f)))
      BY <1>0, <1>3, <3>1, HeldType, OrderedDeliver DEF InOrder
    <3> QED BY <1>0, <1>1, <2>1, <2>2, <3>2, <3>3, QuietStep
  <2> QED BY <2>3, <2>4
<1> QED BY <1>2, <1>3

LEMMA RestartInOrder ==
  ASSUME TypeInv, LINK_init, NEW f \in Ed, InOrder(f)
  PROVE  InOrder(f)'
<1>0. UNCHANGED <<down, up, sent, log>>
  BY DEF LINK_init
<1>1. CASE tx_buffer' = [i \in Slot |-> EmptyTx] /\ UNCHANGED ed_rx_buffer
  <2>1. KeepsSlots(f)
    BY <1>1, EmptyTxType DEF KeepsSlots, SlotsOf
  <2> QED BY <1>0, <1>1, <2>1, OtherStep
<1>2. ASSUME NEW e \in Ed, ed_rx_buffer' = [ed_rx_buffer EXCEPT ![e] = EmptyRx],
             UNCHANGED tx_buffer
      PROVE  InOrder(f)'
  <2>1. KeepsSlots(f)
    BY <1>2 DEF KeepsSlots, SlotsOf
  <2>2. CASE f # e
    <3>1. ed_rx_buffer'[f] = ed_rx_buffer[f]
      BY <1>2, <2>2 DEF TypeInv, TypeOK
    <3> QED BY <1>0, <2>1, <3>1, OtherStep
  <2>3. CASE f = e
    <3>1. ed_rx_buffer'[f].empty
      BY <1>2, <2>3, EmptyRxType DEF TypeInv, TypeOK
    <3>2. Held(f)' = 0
      BY <3>1 DEF Held
    <3>3. Ordered(down[f], sent[f], 0, log[f])
      BY HeldType, OrderedForget DEF InOrder
    <3> QED BY <1>0, <2>1, <3>1, <3>2, <3>3, QuietStep
  <2> QED BY <2>2, <2>3
<1> QED BY <1>1, <1>2 DEF LINK_init

LEMMA LoseInOrder ==
  ASSUME TypeInv, NEW e \in Ed, Lose(e), NEW f \in Ed, InOrder(f)
  PROVE  InOrder(f)'
<1>0. UNCHANGED <<tx_buffer, ed_rx_buffer, sent, log>>
  BY DEF Lose
<1>1. KeepsSlots(f) /\ Held(f)' = Held(f)
  BY <1>0 DEF KeepsSlots, SlotsOf, Held
<1>2. CASE down'[f] = down[f]
  BY <1>0, <1>1, <1>2, OtherStep
<1>3. CASE down[f] # <<>> /\ down'[f] = Tail(down[f])
  <2>1. /\ Ordered(Tail(down[f]), sent[f], Held(f), log[f])
        /\ Young(down[f], sent[f], log[f]) => Young(Tail(down[f]), sent[f], log[f])
    BY <1>3, HeldType, OrderedTail DEF InOrder
  <2> QED BY <1>0, <1>1, <1>3, <2>1, QuietStep DEF InOrder
<1>4. down'[f] = down[f] \/ (down[f] # <<>> /\ down'[f] = Tail(down[f]))
  <2>1. down \in [Ed -> Seq(DownPacket)]
    BY DEF TypeInv, TypeOK
  <2>2. CASE down[e] # <<>> /\ down' = Consume(down, e)
    BY <2>1, <2>2, ConsumeResult
  <2> QED BY <2>2 DEF Lose
<1> QED BY <1>2, <1>3, <1>4

InOrderInv == \A e \in Ed : InOrder(e)

(* No DATA wait for the air in a program that is not interrupted.          *)
Prompt == ~Preempted => \A e \in Ed : waiting[e] = {}

LEMMA PromptInvariant == Spec => []Prompt
<1>1. Init => Prompt
  BY DEF Init, Prompt
<1>2. TypeInv /\ Prompt /\ [Next]_vars => Prompt'
  <2> SUFFICES ASSUME TypeInv, Prompt, [Next]_vars, ~Preempted, NEW f \in Ed
               PROVE  waiting'[f] = {}
    BY DEF Prompt
  <2>1. \A e \in Ed : waiting[e] = {} /\ ~PHY_send_with_cca(e)
    BY DEF Prompt, PHY_send_with_cca
  <2>2. UNCHANGED waiting \/ waiting' = [e \in Ed |-> {}]
    BY <2>1
    DEF Next, vars, LINK_send_coord, router_process_ack, router_process_commit_ack,
        RouterReceives, PHY_timer_interrupt, ed_process_data, ed_process_commit,
        EdReceives, LINK_init, Lose
  <2> QED BY <2>1, <2>2
<1> QED BY <1>1, <1>2, TypeInvariant, PTL DEF Spec

LEMMA OrderInvariant == ~Overlap /\ ~Preempted => (Spec => []InOrderInv)
<1> SUFFICES ASSUME ~Overlap, ~Preempted PROVE Spec => []InOrderInv
  OBVIOUS
<1>1. Init => InOrderInv
  <2> SUFFICES ASSUME Init, NEW e \in Ed PROVE InOrder(e)
    BY DEF InOrderInv
  <2>1. /\ down[e] = <<>> /\ sent[e] = 0 /\ log[e] = <<>> /\ ed_rx_buffer[e] = EmptyRx
        /\ SlotsOf(e) = {}
    BY EmptyTxType DEF Init, SlotsOf
  <2>2. Held(e) = 0
    BY <2>1, EmptyRxType DEF Held
  <2>3. Ordered(<<>>, 0, 0, <<>>)
    BY DEF Ordered, Sorted, Above, Below
  <2> QED BY <2>1, <2>2, <2>3, EmptyRxType DEF InOrder, OwnSlot
<1>2. TypeInv /\ Prompt /\ InOrderInv /\ [Next]_vars => InOrderInv'
  <2> SUFFICES ASSUME TypeInv, Prompt, InOrderInv, [Next]_vars, NEW f \in Ed
               PROVE  InOrder(f)'
    BY DEF InOrderInv
  <2>0. InOrder(f) /\ \A e \in Ed : ~PHY_send_with_cca(e)
    BY DEF InOrderInv, Prompt, PHY_send_with_cca
  <2>1. CASE UNCHANGED vars
    BY <2>0, <2>1, OtherStep DEF vars, KeepsSlots, SlotsOf
  <2> QED
    BY <2>0, <2>1, SendInOrder, AckInOrder, CommitAckInOrder, TickInOrder,
       DataInOrder, CommitInOrder, RestartInOrder, LoseInOrder DEF Next
<1> QED BY <1>1, <1>2, TypeInvariant, PromptInvariant, PTL DEF Spec

(* As long as the network layer does not send to a device for which a slot *)
(* is in use, and no interrupt comes while a call waits for the air, a     *)
(* device gets payloads that were sent to it, each at most once and in the *)
(* order they were sent.                                                   *)
THEOREM DeliveryCorrect ==
  ~Overlap /\ ~Preempted => (Spec => []InOrderAtMostOnce)
<1>1. TypeInv /\ InOrderInv => InOrderAtMostOnce
  <2> SUFFICES ASSUME TypeInv, InOrderInv, NEW e \in Ed
               PROVE  /\ \A i, j \in DOMAIN log[e] : i < j => log[e][i] < log[e][j]
                      /\ \A i \in DOMAIN log[e] : log[e][i] \in 1..sent[e]
    BY DEF InOrderAtMostOnce
  <2>1. DOMAIN log[e] = 1..Len(log[e])
    BY HeldType
  <2> QED BY <2>1 DEF InOrderInv, InOrder, Ordered
<1> QED BY <1>1, TypeInvariant, OrderInvariant, PTL

-----------------------------------------------------------------------------
(* The order of payloads when interrupts may come at any time.             *)

(* The packets of a channel carry payloads up to number n, in order.       *)
Ascends(s, n) ==
  /\ \A i \in 1..Len(s) : s[i].msg \in 1..n
  /\ \A i, j \in 1..Len(s) : i <= j => s[i].msg <= s[j].msg

(* All of them are at least payload m.                                     *)
From(s, m) == \A i \in 1..Len(s) : m <= s[i].msg

(* The latest payload of a device is the only one in a slot or waiting.    *)
Latest(f) ==
  /\ \A i \in SlotsOf(f) : /\ \A j \in SlotsOf(f) : i = j
                           /\ tx_buffer[i].msg = sent[f] /\ sent[f] > 0
  /\ \A n \in waiting[f] : n = sent[f] /\ sent[f] > 0

(* Payloads are ordered from what was handed over through the record of    *)
(* the device to the channel; equal ones may follow each other.            *)
Aged(f) ==
  /\ Latest(f)
  /\ Ascends(down[f], sent[f])
  /\ ~ed_rx_buffer[f].empty => /\ ed_rx_buffer[f].msg \in 1..sent[f]
                               /\ From(down[f], ed_rx_buffer[f].msg)
  /\ \A j, k \in 1..Len(log[f]) : j <= k => log[f][j] <= log[f][k]
  /\ \A k \in 1..Len(log[f]) :
       /\ log[f][k] \in 1..sent[f]
       /\ From(down[f], log[f][k])
       /\ ~ed_rx_buffer[f].empty => log[f][k] <= ed_rx_buffer[f].msg

LEMMA AscendsTail ==
  ASSUME NEW s \in Seq(DownPacket), s # <<>>, NEW n \in Nat, Ascends(s, n)
  PROVE  /\ Ascends(Tail(s), n)
         /\ Head(s).msg \in 1..n /\ From(Tail(s), Head(s).msg)
         /\ \A m \in Nat : From(s, m) => From(Tail(s), m) /\ m <= Head(s).msg
<1>1. Len(Tail(s)) = Len(s) - 1 /\ Len(s) \in Nat /\ Len(s) > 0
  OBVIOUS
<1>2. \A i \in 1..Len(Tail(s)) : Tail(s)[i] = s[i + 1] /\ i + 1 \in 1..Len(s)
  BY <1>1
<1>3. Head(s) = s[1] /\ 1 \in 1..Len(s)
  BY <1>1
<1>4. Ascends(Tail(s), n)
  BY <1>1, <1>2 DEF Ascends
<1>5. Head(s).msg \in 1..n /\ From(Tail(s), Head(s).msg)
  BY <1>1, <1>2, <1>3 DEF Ascends, From
<1>6. ASSUME NEW m \in Nat, From(s, m) PROVE From(Tail(s), m) /\ m <= Head(s).msg
  BY <1>2, <1>3, <1>6 DEF From
<1> QED BY <1>4, <1>5, <1>6

LEMMA AscendsAppend ==
  ASSUME NEW s \in Seq(DownPacket), NEW n \in Nat, Ascends(s, n),
         NEW p \in DownPacket, p.msg > 0, p.msg >= n
  PROVE  /\ Ascends(Append(s, p), p.msg)
         /\ \A m \in 0..n : From(s, m) => From(Append(s, p), m)
<1> DEFINE t == Append(s, p)
<1>1. Len(t) = Len(s) + 1 /\ Len(s) \in Nat /\ t[Len(t)] = p /\ p.msg \in Nat
  BY DEF DownPacket
<1>2. \A i \in 1..Len(s) : t[i] = s[i]
  OBVIOUS
<1> HIDE DEF t
<1>3. \A i \in 1..Len(t) : i = Len(t) \/ i \in 1..Len(s)
  BY <1>1
<1>4. \A i \in 1..Len(t) : t[i].msg \in 1..p.msg
  BY <1>1, <1>2, <1>3 DEF Ascends
<1>5. \A i, j \in 1..Len(t) : i <= j => t[i].msg <= t[j].msg
  <2> SUFFICES ASSUME NEW i \in 1..Len(t), NEW j \in 1..Len(t), i <= j
               PROVE  t[i].msg <= t[j].msg
    OBVIOUS
  <2>1. CASE j = Len(t)
    BY <1>1, <1>4, <2>1
  <2>2. CASE j \in 1..Len(s)
    <3>1. i \in 1..Len(s)
      BY <1>1, <2>2
    <3> QED BY <1>2, <2>2, <3>1 DEF Ascends
  <2> QED BY <1>3, <2>1, <2>2
<1>6. \A m \in 0..n : From(s, m) => From(t, m)
  BY <1>1, <1>2, <1>3 DEF From
<1> QED BY <1>4, <1>5, <1>6 DEF Ascends, t

(* The channel to f is as it was, or without its oldest packet, or has a   *)
(* packet of the latest payload at its end.                                *)
SendsLatest(f) ==
  \/ down'[f] = down[f]
  \/ down[f] # <<>> /\ down'[f] = Tail(down[f])
  \/ \E p \in DownPacket : /\ down'[f] = Append(down[f], p)
                           /\ p.msg = sent'[f] /\ sent'[f] > 0

LEMMA TransmitLatest ==
  ASSUME TypeInv, NEW e \in Ed, NEW f \in Ed, NEW p \in DownPacket,
         f = e => p.msg = sent'[f] /\ sent'[f] > 0,
         down' = Transmit(down, e, p)
  PROVE  SendsLatest(f)
<1>0. down \in [Ed -> Seq(DownPacket)]
  BY DEF TypeInv, TypeOK
<1>1. CASE f # e
  BY <1>0, <1>1, TransmitOther DEF SendsLatest
<1>2. CASE f = e
  BY <1>0, <1>2, TransmitResult DEF SendsLatest
<1> QED BY <1>1, <1>2

(* A step that sends f no new payload and uses no slot for it that was not *)
(* in use.                                                                 *)
LEMMA LatestKept ==
  ASSUME NEW f \in Ed, Latest(f), sent'[f] = sent[f], waiting'[f] \subseteq waiting[f],
         \A i \in SlotsOf(f)' : i \in SlotsOf(f) /\ tx_buffer'[i].msg = tx_buffer[i].msg
  PROVE  Latest(f)'
BY DEF Latest

LEMMA SendLatest ==
  ASSUME ~Overlap, TypeInv, NEW e \in Ed, LINK_send_coord(e), NEW f \in Ed, Latest(f)
  PROVE  Latest(f)' /\ SendsLatest(f) /\ sent'[f] \in Nat /\ sent'[f] >= sent[f]
<1>0. /\ tx_buffer \in [Slot -> TxRecord] /\ sent \in [Ed -> Nat]
      /\ waiting \in [Ed -> SUBSET Nat] /\ sent[f] \in Nat
  BY DEF TypeInv, TypeOK
<1>1. PICK i \in Slot :
        /\ i \in FreeSlots
        /\ tx_buffer' = [tx_buffer EXCEPT ![i] =
                          Fresh(e, Later(timer_counter, 2), sent[e] + 1)]
  BY Zenon DEF LINK_send_coord, First, Fresh
<1>2. /\ SlotsOf(e) = {} /\ waiting[e] = {} /\ sent' = [sent EXCEPT ![e] = @ + 1]
      /\ \/ down' = Transmit(down, e, DataPacket(sent[e] + 1)) /\ UNCHANGED waiting
         \/ /\ UNCHANGED down
            /\ waiting' = [waiting EXCEPT ![e] = @ \cup {sent[e] + 1}]
  BY DEF LINK_send_coord
<1>3. /\ \A j \in Slot : j # i => tx_buffer'[j] = tx_buffer[j]
      /\ tx_buffer'[i] = Fresh(e, Later(timer_counter, 2), sent[e] + 1)
  BY <1>0, <1>1
<1>4. SendsLatest(f)
  <2>1. /\ DataPacket(sent[e] + 1) \in DownPacket
        /\ DataPacket(sent[e] + 1).msg = sent[e] + 1
        /\ f = e => sent'[f] = sent[e] + 1 /\ sent[e] + 1 > 0
    BY <1>0, <1>2 DEF DataPacket, DownPacket
  <2>2. CASE UNCHANGED down
    BY <2>2 DEF SendsLatest
  <2>3. CASE down' = Transmit(down, e, DataPacket(sent[e] + 1))
    BY <2>1, <2>3, TransmitLatest
  <2> QED BY <1>2, <2>2, <2>3
<1>5. CASE f # e
  <2>1. \A j \in SlotsOf(f)' : j \in SlotsOf(f) /\ tx_buffer'[j].msg = tx_buffer[j].msg
    BY <1>3, <1>5 DEF SlotsOf, Fresh
  <2>2. waiting'[f] = waiting[f] /\ sent'[f] = sent[f]
    BY <1>0, <1>2, <1>5
  <2> QED BY <1>0, <1>4, <2>1, <2>2, LatestKept
<1>6. CASE f = e
  <2>1. /\ \A j \in SlotsOf(f)' : j = i
        /\ tx_buffer'[i].msg = sent[f] + 1
    BY <1>2, <1>3, <1>6 DEF SlotsOf, Fresh
  <2>2. sent'[f] = sent[f] + 1 /\ waiting'[f] \subseteq {sent[f] + 1}
    BY <1>0, <1>2, <1>6
  <2>3. Latest(f)'
    BY <1>0, <2>1, <2>2 DEF Latest
  <2> QED BY <1>0, <1>4, <2>2, <2>3
<1> QED BY <1>5, <1>6

LEMMA TickLatest ==
  ASSUME TypeInv, PHY_timer_interrupt, NEW f \in Ed, Latest(f)
  PROVE  Latest(f)' /\ SendsLatest(f)
<1>0. /\ down' = DownAfter[TxSize] /\ UNCHANGED <<waiting, sent>>
  BY DEF PHY_timer_interrupt, check_buffers_state
<1>1. \A i \in ResentSlots : /\ tx_buffer[i] \in TxRecord
                             /\ tx_buffer[i].transmits_to_error # 0
                             /\ ~tx_buffer[i].empty
  BY DEF ResentSlots, SpentSlots, DueSlots, TypeInv, TypeOK
<1>2. \A i \in ResentSlots : /\ Rescheduled(tx_buffer[i]).empty = tx_buffer[i].empty
                             /\ Rescheduled(tx_buffer[i]).ed = tx_buffer[i].ed
                             /\ Rescheduled(tx_buffer[i]).msg = tx_buffer[i].msg
  BY <1>1, TickSlots, RescheduledType
<1>3. \A i \in SlotsOf(f)' : i \in SlotsOf(f) /\ tx_buffer'[i].msg = tx_buffer[i].msg
  BY <1>2, TickSlots, EmptyTxType DEF SlotsOf
<1>4. Latest(f)'
  BY <1>0, <1>3, LatestKept
<1>5. \A i, j \in SlotsOf(f) : i = j
  BY DEF Latest
<1>6. ASSUME NEW i \in SlotsOf(f) \cap ResentSlots
      PROVE  /\ Resent(tx_buffer[i]) \in DownPacket
             /\ Resent(tx_buffer[i]).msg = sent'[f] /\ sent'[f] > 0
  <2>1. tx_buffer[i].msg = sent[f] /\ sent[f] > 0 /\ sent[f] \in Nat
    BY <1>6, HeldType DEF Latest
  <2>2. Resent(tx_buffer[i]).msg = tx_buffer[i].msg
    BY DEF Resent, DataPacket, CommitPacket
  <2> QED BY <1>0, <1>1, <2>1, <2>2, ResentType
<1>7. SendsLatest(f)
  BY <1>0, <1>5, <1>6, ScanOfDevice DEF SendsLatest
<1> QED BY <1>4, <1>7

(* The steps of the router and of the radio.                               *)
RouterStep ==
  \/ \E e \in Ed : \/ LINK_send_coord(e) \/ PHY_send_with_cca(e)
                   \/ router_process_ack(e) \/ router_process_commit_ack(e)
                   \/ Lose(e)
  \/ PHY_timer_interrupt

LEMMA RouterStepLatest ==
  ASSUME ~Overlap, TypeInv, RouterStep, NEW f \in Ed, \A e \in Ed : Latest(e)
  PROVE  /\ Latest(f)' /\ SendsLatest(f) /\ sent'[f] \in Nat /\ sent'[f] >= sent[f]
         /\ UNCHANGED <<ed_rx_buffer, log>>
<1>0. /\ tx_buffer \in [Slot -> TxRecord] /\ sent \in [Ed -> Nat]
      /\ waiting \in [Ed -> SUBSET Nat] /\ sent[f] \in Nat
      /\ down \in [Ed -> Seq(DownPacket)]
      /\ sent[f] >= sent[f] /\ waiting[f] \subseteq waiting[f]
  BY DEF TypeInv, TypeOK
<1>1. UNCHANGED <<ed_rx_buffer, log>>
  BY DEF RouterStep, LINK_send_coord, PHY_send_with_cca, router_process_ack,
         router_process_commit_ack, RouterReceives, Lose, PHY_timer_interrupt
<1>2. ASSUME NEW e \in Ed, PHY_send_with_cca(e)
      PROVE  Latest(f)' /\ SendsLatest(f) /\ sent' = sent
  <2>1. PICK n \in waiting[e] : /\ down' = Transmit(down, e, DataPacket(n))
                                /\ waiting' = [waiting EXCEPT ![e] = @ \ {n}]
    BY <1>2 DEF PHY_send_with_cca
  <2>2. UNCHANGED <<tx_buffer, sent>>
    BY <1>2 DEF PHY_send_with_cca
  <2>3. n = sent[e] /\ sent[e] > 0 /\ n \in Nat
    BY <1>0 DEF Latest
  <2>4. SendsLatest(f)
    <3>1. DataPacket(n) \in DownPacket /\ DataPacket(n).msg = n
      BY <2>3 DEF DataPacket, DownPacket
    <3> QED BY <2>1, <2>2, <2>3, <3>1, TransmitLatest
  <2>5. waiting'[f] \subseteq waiting[f]
    BY <1>0, <2>1
  <2> QED BY <2>2, <2>4, <2>5, LatestKept DEF SlotsOf
<1>3. ASSUME NEW e \in Ed, router_process_ack(e)
      PROVE  Latest(f)' /\ SendsLatest(f) /\ sent' = sent
  <2>0. UNCHANGED <<sent, waiting>>
    BY <1>3 DEF router_process_ack, RouterReceives
  <2>1. CASE UNCHANGED <<tx_buffer, down>>
    BY <1>0, <2>0, <2>1, LatestKept DEF SlotsOf, SendsLatest
  <2>2. ASSUME NEW i \in SlotsOf(e),
               tx_buffer' = [tx_buffer EXCEPT
                 ![i].state = COMMIT_SENT,
                 ![i].transmits_to_error = MaxRetries,
                 ![i].expiration_time = Later(timer_counter, 2)],
               down' = Transmit(down, e, CommitPacket(tx_buffer[i].msg))
        PROVE  Latest(f)' /\ SendsLatest(f)
    <3>1. /\ i \in Slot
          /\ \A j \in Slot : /\ tx_buffer'[j].ed = tx_buffer[j].ed
                             /\ tx_buffer'[j].msg = tx_buffer[j].msg
                             /\ tx_buffer'[j].empty = tx_buffer[j].empty
      BY <1>0, <2>2 DEF TxRecord, SlotsOf
    <3>2. Latest(f)'
      BY <1>0, <2>0, <3>1, LatestKept DEF SlotsOf
    <3>3. tx_buffer[i].msg = sent[e] /\ sent[e] > 0 /\ sent[e] \in Nat
      BY <1>0 DEF Latest
    <3>4. SendsLatest(f)
      <4>1. /\ CommitPacket(tx_buffer[i].msg) \in DownPacket
            /\ CommitPacket(tx_buffer[i].msg).msg = sent[e]
        BY <3>3 DEF CommitPacket, DownPacket
      <4> QED BY <2>0, <2>2, <3>3, <4>1, TransmitLatest
    <3> QED BY <3>2, <3>4
  <2> QED BY <1>3, <2>0, <2>1, <2>2 DEF router_process_ack, First
<1>4. ASSUME NEW e \in Ed, router_process_commit_ack(e)
      PROVE  Latest(f)' /\ SendsLatest(f) /\ sent' = sent
  <2>1. UNCHANGED <<sent, waiting, down>>
    BY <1>4 DEF router_process_commit_ack, RouterReceives
  <2>2. \A i \in Slot : tx_buffer'[i] \in {tx_buffer[i], EmptyTx}
    BY <1>0, <1>4 DEF router_process_commit_ack
  <2>3. \A i \in SlotsOf(f)' : i \in SlotsOf(f) /\ tx_buffer'[i].msg = tx_buffer[i].msg
    BY <2>2, EmptyTxType DEF SlotsOf
  <2> QED BY <1>0, <2>1, <2>3, LatestKept DEF SendsLatest
<1>5. ASSUME NEW e \in Ed, Lose(e)
      PROVE  Latest(f)' /\ SendsLatest(f) /\ sent' = sent
  <2>1. UNCHANGED <<sent, waiting, tx_buffer>>
    BY <1>5 DEF Lose
  <2>2. SendsLatest(f)
    <3>1. CASE UNCHANGED down
      BY <3>1 DEF SendsLatest
    <3>2. CASE down[e] # <<>> /\ down' = Consume(down, e)
      BY <1>0, <3>2, ConsumeResult DEF SendsLatest
    <3> QED BY <1>5, <3>1, <3>2 DEF Lose
  <2> QED BY <1>0, <2>1, <2>2, LatestKept DEF SlotsOf
<1>6. ASSUME PHY_timer_interrupt
      PROVE  Latest(f)' /\ SendsLatest(f) /\ sent' = sent
  BY <1>6, TickLatest DEF PHY_timer_interrupt
<1> QED BY <1>0, <1>1, <1>2, <1>3, <1>4, <1>5, <1>6, SendLatest DEF RouterStep

(* The packets of the channel to f are in order after a step of the router *)
(* and not older than before.                                              *)
LEMMA RouterStepAged ==
  ASSUME ~Overlap, TypeInv, RouterStep, \A e \in Ed : Aged(e), NEW f \in Ed
  PROVE  Aged(f)'
<1> DEFINE s == down[f]
           t == down'[f]
<1>1. /\ s \in Seq(DownPacket) /\ sent[f] \in Nat /\ Ascends(s, sent[f])
      /\ log[f] \in Seq(Nat)
  BY HeldType DEF Aged
<1>2. /\ Latest(f)' /\ SendsLatest(f) /\ sent'[f] \in Nat /\ sent'[f] >= sent[f]
      /\ UNCHANGED <<ed_rx_buffer, log>>
  BY RouterStepLatest DEF Aged
<1>3. Ascends(t, sent'[f]) /\ \A m \in 0..sent[f] : From(s, m) => From(t, m)
  <2>1. CASE t = s
    BY <1>1, <1>2, <2>1 DEF Ascends
  <2>2. CASE s # <<>> /\ t = Tail(s)
    <3>1. Ascends(t, sent[f]) /\ t \in Seq(DownPacket)
      BY <1>1, <2>2, AscendsTail
    <3>2. ASSUME NEW i \in 1..Len(t)  PROVE  t[i].msg \in 1..sent'[f]
      <4>1. t[i].msg \in 1..sent[f]
        BY <3>1 DEF Ascends
      <4> QED BY <1>1, <1>2, <4>1
    <3>3. Ascends(t, sent'[f])
      BY <3>1, <3>2 DEF Ascends
    <3> QED BY <1>1, <2>2, <3>3, AscendsTail
  <2>3. ASSUME NEW p \in DownPacket, t = Append(s, p), p.msg = sent'[f], sent'[f] > 0
        PROVE  Ascends(t, sent'[f]) /\ \A m \in 0..sent[f] : From(s, m) => From(t, m)
    BY <1>1, <1>2, <2>3, AscendsAppend
  <2> QED BY <1>2, <2>1, <2>2, <2>3 DEF SendsLatest
<1> HIDE DEF s, t
<1>4. \A n \in 1..sent[f] : n \in 1..sent'[f] /\ n \in 0..sent[f]
  BY <1>1, <1>2
<1>5. ~ed_rx_buffer'[f].empty => /\ ed_rx_buffer'[f].msg \in 1..sent'[f]
                                 /\ From(down'[f], ed_rx_buffer'[f].msg)
  BY <1>2, <1>3, <1>4 DEF Aged, s, t
<1>6. \A k \in 1..Len(log'[f]) :
        /\ log'[f][k] \in 1..sent'[f]
        /\ From(down'[f], log'[f][k])
        /\ ~ed_rx_buffer'[f].empty => log'[f][k] <= ed_rx_buffer'[f].msg
  BY <1>2, <1>3, <1>4 DEF Aged, s, t
<1>7. \A j, k \in 1..Len(log'[f]) : j <= k => log'[f][j] <= log'[f][k]
  BY <1>2 DEF Aged
<1> QED BY <1>2, <1>3, <1>5, <1>6, <1>7 DEF Aged, t

(* What another device does leaves the payloads of f alone.                *)
LEMMA AgedFrame ==
  ASSUME NEW f \in Ed, Aged(f), sent'[f] = sent[f], down'[f] = down[f],
         ed_rx_buffer'[f] = ed_rx_buffer[f], log'[f] = log[f],
         waiting'[f] \subseteq waiting[f],
         \A i \in SlotsOf(f)' : i \in SlotsOf(f) /\ tx_buffer'[i].msg = tx_buffer[i].msg
  PROVE  Aged(f)'
<1>1. Latest(f)'
  BY LatestKept DEF Aged
<1> QED BY <1>1 DEF Aged

LEMMA EdStepAged ==
  ASSUME TypeInv, NEW e \in Ed, ed_process_data(e) \/ ed_process_commit(e),
         NEW f \in Ed, Aged(f)
  PROVE  Aged(f)'
<1> DEFINE h == Head(down[f]).msg
           m == ed_rx_buffer[f].msg
           l == log[f]
           l2 == log'[f]
<1>0. /\ down \in [Ed -> Seq(DownPacket)] /\ ed_rx_buffer \in [Ed -> RxRecord]
      /\ log \in [Ed -> Seq(Nat)] /\ sent[f] \in Nat /\ l \in Seq(Nat)
      /\ UNCHANGED <<tx_buffer, waiting, sent>>
      /\ down[e] # <<>> /\ down' = Consume(down, e)
  BY DEF TypeInv, TypeOK, ed_process_data, ed_process_commit, EdReceives
<1>1. Latest(f)'
  BY <1>0, LatestKept DEF Aged, SlotsOf
<1>2. CASE f # e
  <2>1. down'[f] = down[f] /\ ed_rx_buffer'[f] = ed_rx_buffer[f] /\ log'[f] = log[f]
    BY <1>0, <1>2, ConsumeResult DEF ed_process_data, ed_process_commit
  <2> QED BY <1>0, <2>1, AgedFrame DEF SlotsOf
<1>3. CASE f = e
  <2>1. down'[f] = Tail(down[f])
    BY <1>0, <1>3, ConsumeResult
  <2>2. /\ Ascends(down'[f], sent[f]) /\ h \in 1..sent[f] /\ From(down'[f], h)
        /\ \A n \in Nat : From(down[f], n) => From(down'[f], n) /\ n <= h
    BY <1>0, <1>3, <2>1, AscendsTail DEF Aged
  <2>3. /\ ~ed_rx_buffer[f].empty => m \in 1..sent[f] /\ From(down'[f], m)
        /\ \A k \in 1..Len(l) : /\ l[k] \in 1..sent[f]
                                /\ From(down'[f], l[k]) /\ l[k] <= h
                                /\ ~ed_rx_buffer[f].empty => l[k] <= m
        /\ \A j, k \in 1..Len(l) : j <= k => l[j] <= l[k]
    <3>1. \A n \in 1..sent[f] : n \in Nat
      OBVIOUS
    <3> QED BY <2>2, <3>1 DEF Aged
  <2>4. CASE UNCHANGED <<ed_rx_buffer, log>>
    BY <1>0, <1>1, <2>2, <2>3, <2>4 DEF Aged
  <2>5. CASE /\ ed_rx_buffer' = [ed_rx_buffer EXCEPT ![e] = [empty |-> FALSE, msg |-> h]]
             /\ UNCHANGED log
    <3>1. ed_rx_buffer'[f].msg = h
      BY <1>0, <1>3, <2>5
    <3> HIDE DEF h
    <3> QED BY <1>0, <1>1, <2>2, <2>3, <2>5, <3>1 DEF Aged
  <2>6. CASE ed_rx_buffer'[f].empty /\ UNCHANGED log
    BY <1>0, <1>1, <2>2, <2>3, <2>6 DEF Aged
  <2>7. CASE ed_rx_buffer'[f].empty /\ ~ed_rx_buffer[f].empty /\ l2 = Append(l, m)
    <3>1. m \in Nat
      BY <1>0 DEF RxRecord
    <3>2. Len(l2) = Len(l) + 1 /\ Len(l) \in Nat /\ l2[Len(l2)] = m
      BY <1>0, <2>7, <3>1
    <3>3. \A k \in 1..Len(l) : l2[k] = l[k]
      BY <1>0, <2>7, <3>1
    <3>4. \A k \in 1..Len(l2) : k = Len(l2) \/ k \in 1..Len(l)
      BY <3>2
    <3> HIDE DEF h, m, l, l2
    <3>5. \A k \in 1..Len(l2) : /\ l2[k] \in 1..sent[f]
                                /\ From(down'[f], l2[k]) /\ l2[k] <= m
      BY <2>3, <2>7, <3>1, <3>2, <3>3, <3>4
    <3>6. \A j, k \in 1..Len(l2) : j <= k => l2[j] <= l2[k]
      <4> SUFFICES ASSUME NEW j \in 1..Len(l2), NEW k \in 1..Len(l2), j <= k
                   PROVE  l2[j] <= l2[k]
        OBVIOUS
      <4>1. CASE k = Len(l2)
        BY <3>2, <3>5, <4>1
      <4>2. CASE k \in 1..Len(l)
        <5>1. j \in 1..Len(l)
          BY <3>2, <4>2
        <5> QED BY <2>3, <3>3, <4>2, <5>1
      <4> QED BY <3>4, <4>1, <4>2
    <3> QED BY <1>0, <1>1, <2>2, <2>7, <3>5, <3>6 DEF Aged, l2
  <2>8. CASE ed_process_data(e)
    BY <1>3, <2>4, <2>5, <2>8 DEF ed_process_data
  <2>9. CASE ed_process_commit(e)
    <3>1. ed_rx_buffer'[f].empty
      BY <1>0, <1>3, <2>9, EmptyRxType DEF ed_process_commit
    <3>2. UNCHANGED log \/ (~ed_rx_buffer[f].empty /\ l2 = Append(l, m))
      BY <1>0, <1>3, <2>9 DEF ed_process_commit
    <3> QED BY <2>6, <2>7, <3>1, <3>2
  <2> QED BY <2>8, <2>9
<1> QED BY <1>2, <1>3

LEMMA RestartAged ==
  ASSUME TypeInv, LINK_init, NEW f \in Ed, Aged(f)
  PROVE  Aged(f)'
<1>0. UNCHANGED <<down, sent, log>>
  BY DEF LINK_init
<1>1. CASE /\ tx_buffer' = [i \in Slot |-> EmptyTx] /\ waiting' = [e \in Ed |-> {}]
           /\ UNCHANGED ed_rx_buffer
  <2>1. SlotsOf(f)' = {}
    BY <1>1, EmptyTxType DEF SlotsOf
  <2> QED BY <1>0, <1>1, <2>1, AgedFrame
<1>2. ASSUME NEW e \in Ed, ed_rx_buffer' = [ed_rx_buffer EXCEPT ![e] = EmptyRx],
             UNCHANGED <<tx_buffer, waiting>>
      PROVE  Aged(f)'
  <2>1. ed_rx_buffer'[f] = ed_rx_buffer[f] \/ ed_rx_buffer'[f].empty
    BY <1>2, EmptyRxType DEF TypeInv, TypeOK
  <2>2. Latest(f)'
    BY <1>0, <1>2, LatestKept DEF Aged, SlotsOf
  <2> QED BY <1>0, <2>1, <2>2 DEF Aged
<1> QED BY <1>1, <1>2 DEF LINK_init

AgedInv == \A f \in Ed : Aged(f)

LEMMA AgedInvariant == ~Overlap => (Spec => []AgedInv)
<1> SUFFICES ASSUME ~Overlap PROVE Spec => []AgedInv
  OBVIOUS
<1>1. Init => AgedInv
  <2> SUFFICES ASSUME Init, NEW f \in Ed PROVE Aged(f)
    BY DEF AgedInv
  <2>1. /\ down[f] = <<>> /\ sent[f] = 0 /\ log[f] = <<>> /\ ed_rx_buffer[f].empty
        /\ SlotsOf(f) = {} /\ waiting[f] = {}
    BY EmptyTxType, EmptyRxType DEF Init, SlotsOf
  <2>2. Latest(f)
    BY <2>1 DEF Latest
  <2> QED BY <2>1, <2>2 DEF Aged, Ascends
<1>2. TypeInv /\ AgedInv /\ [Next]_vars => AgedInv'
  <2> SUFFICES ASSUME TypeInv, AgedInv, [Next]_vars, NEW f \in Ed PROVE Aged(f)'
    BY DEF AgedInv
  <2>0. Aged(f) /\ \A e \in Ed : Aged(e)
    BY DEF AgedInv
  <2>1. CASE UNCHANGED vars
    BY <2>0, <2>1, AgedFrame DEF vars, SlotsOf
  <2>2. CASE RouterStep
    BY <2>0, <2>2, RouterStepAged
  <2>3. ASSUME NEW e \in Ed, ed_process_data(e) \/ ed_process_commit(e) PROVE Aged(f)'
    BY <2>0, <2>3, EdStepAged
  <2>4. CASE LINK_init
    BY <2>0, <2>4, RestartAged
  <2> QED BY <2>1, <2>2, <2>3, <2>4 DEF Next, RouterStep
<1> QED BY <1>1, <1>2, TypeInvariant, PTL DEF Spec

-----------------------------------------------------------------------------
(* Giving up.                                                              *)

(* A tick leaves the slots of a device alone or frees all of them.         *)
LEMMA TickPerDevice ==
  ASSUME TypeInv, PHY_timer_interrupt, NEW e \in Ed
  PROVE  \/ SlotsOf(e)' = SlotsOf(e)
         \/ SlotsOf(e)' = {} /\ \E i \in SlotsOf(e) :
              /\ tx_buffer[i].transmits_to_error = 0
              /\ tx_buffer[i].expiration_time = timer_counter'
<1>1. \A i \in ResentSlots : /\ tx_buffer[i] \in TxRecord
                             /\ tx_buffer[i].transmits_to_error # 0
  BY DEF ResentSlots, SpentSlots, DueSlots, TypeInv, TypeOK
<1>2. \A i \in ResentSlots : /\ Rescheduled(tx_buffer[i]).empty = tx_buffer[i].empty
                             /\ Rescheduled(tx_buffer[i]).ed = tx_buffer[i].ed
  BY <1>1, TickSlots, RescheduledType
<1>3. CASE e \in GivenUp
  <2>1. PICK i \in SpentSlots : tx_buffer[i].ed = e
    BY <1>3 DEF GivenUp
  <2>2. /\ i \in SlotsOf(e) /\ tx_buffer[i].transmits_to_error = 0
        /\ tx_buffer[i].expiration_time = timer_counter'
    BY <2>1 DEF SpentSlots, DueSlots, SlotsOf
  <2>3. SlotsOf(e)' = {}
    BY <1>2, <1>3, TickSlots, EmptyTxType DEF SlotsOf
  <2> QED BY <2>2, <2>3
<1>4. CASE e \notin GivenUp
  <2>1. \A i \in SlotsOf(e) : i \in SlotsOf(e)'
    BY <1>2, <1>4, TickSlots DEF SlotsOf
  <2>2. \A i \in SlotsOf(e)' : i \in SlotsOf(e)
    BY <1>2, <1>4, TickSlots, EmptyTxType DEF SlotsOf
  <2> QED BY <2>1, <2>2
<1> QED BY <1>3, <1>4

(* A tick gives a device up with all its slots or with none, and only when *)
(* a slot of this device has no retransmission left.                       *)
THEOREM GivingUpCorrect == Spec => GiveUpIsPerDevice
<1> DEFINE PerDevice ==
      timer_counter' = Later(timer_counter, 1) /\ UNCHANGED restarts =>
        \A e \in Ed :
          \/ SlotsOf(e)' = SlotsOf(e)
          \/ SlotsOf(e)' = {} /\ \E i \in SlotsOf(e) :
               /\ tx_buffer[i].transmits_to_error = 0
               /\ tx_buffer[i].expiration_time = timer_counter'
<1>1. TypeInv /\ [Next]_vars => [PerDevice]_vars
  <2> SUFFICES ASSUME TypeInv, Next, timer_counter' = Later(timer_counter, 1),
                      restarts' = restarts
               PROVE  PHY_timer_interrupt
    BY TickPerDevice
  <2>1. timer_counter' # timer_counter
    <3>1. timer_counter \in 0..(TimerMod - 1)
      BY DEF TypeInv, TypeOK
    <3>2. Later(timer_counter, 1) = IF timer_counter + 1 < TimerMod
                                    THEN timer_counter + 1 ELSE 0
      BY <3>1, RadioAssumption DEF Later
    <3> QED BY <3>1, <3>2, RadioAssumption
  <2>2. ~LINK_init
    BY DEF LINK_init, TypeInv, TypeOK
  <2> QED
    BY <2>1, <2>2
    DEF Next, LINK_send_coord, PHY_send_with_cca, router_process_ack, router_process_commit_ack,
        RouterReceives, ed_process_data, ed_process_commit, EdReceives, Lose
<1> HIDE DEF PerDevice
<1>2. Spec => [][PerDevice]_vars
  BY <1>1, TypeInvariant, PTL DEF Spec
<1> QED BY <1>2 DEF GiveUpIsPerDevice, PerDevice

-----------------------------------------------------------------------------
(* The handshake implements the transfer service.                          *)

Pending == [e \in Ed |-> SlotsOf(e) # {}]

(* A step in which no transfer starts and nothing is handed over.          *)
LEMMA EndStep ==
  ASSUME UNCHANGED <<sent, log>>,
         \A e \in Ed : SlotsOf(e)' # {} => SlotsOf(e) # {}
  PROVE  [TransferService!Next]_(TransferService!vars)
<1> DEFINE D == {e \in Ed : Pending[e] /\ ~Pending'[e]}
<1>1. /\ Pending' = [e \in Ed |-> SlotsOf(e)' # {}]
      /\ \A e \in Ed : Pending'[e] => Pending[e]
  BY DEF Pending
<1>2. Pending' = [e \in Ed |-> Pending[e] /\ e \notin D]
  BY <1>1 DEF Pending
<1>3. CASE D = {}
  <2>1. Pending' = Pending
    BY <1>1, <1>3 DEF Pending
  <2> QED BY <2>1 DEF TransferService!vars, Pending
<1>4. CASE D # {}
  <2>1. D \in SUBSET Ed /\ \A e \in D : Pending[e]
    OBVIOUS
  <2> HIDE DEF D
  <2>2. TransferService!End(D)
    BY <1>2, <1>4, <2>1 DEF TransferService!End, Pending
  <2> QED BY <2>1, <2>2 DEF TransferService!Next
<1> QED BY <1>3, <1>4

LEMMA SubmitStep ==
  ASSUME ~Overlap, TypeInv, NEW e \in Ed, LINK_send_coord(e)
  PROVE  TransferService!Next
<1>0. tx_buffer \in [Slot -> TxRecord]
  BY DEF TypeInv, TypeOK
<1>1. PICK i \in Slot :
        /\ i \in FreeSlots
        /\ tx_buffer' = [tx_buffer EXCEPT ![i] =
                          Fresh(e, Later(timer_counter, 2), sent[e] + 1)]
  BY Zenon DEF LINK_send_coord, First, Fresh
<1>2. /\ SlotsOf(e) = {} /\ sent' = [sent EXCEPT ![e] = @ + 1] /\ log' = log
  BY DEF LINK_send_coord
<1>3. /\ \A j \in Slot : j # i => tx_buffer'[j] = tx_buffer[j]
      /\ tx_buffer'[i] = Fresh(e, Later(timer_counter, 2), sent[e] + 1)
      /\ tx_buffer[i].empty
  BY <1>0, <1>1 DEF FreeSlots
<1>4. i \in SlotsOf(e)'
  BY <1>3 DEF SlotsOf, Fresh
<1>5. \A f \in Ed \ {e} : SlotsOf(f)' = SlotsOf(f)
  BY <1>3 DEF SlotsOf, Fresh
<1>6. Pending' = [Pending EXCEPT ![e] = TRUE] /\ ~Pending[e]
  <2>1. ~Pending[e] /\ Pending'[e]
    BY <1>2, <1>4 DEF Pending
  <2>2. \A f \in Ed \ {e} : Pending'[f] = Pending[f]
    BY <1>5 DEF Pending
  <2>3. Pending' = [f \in Ed |-> IF f = e THEN TRUE ELSE Pending[f]]
    BY <2>1, <2>2 DEF Pending
  <2>4. [Pending EXCEPT ![e] = TRUE] = [f \in Ed |-> IF f = e THEN TRUE ELSE Pending[f]]
    BY DEF Pending
  <2> QED BY <2>1, <2>3, <2>4, Zenon
<1>7. TransferService!Submit(e)
  BY <1>2, <1>6 DEF TransferService!Submit, Pending
<1> QED BY <1>7 DEF TransferService!Next

LEMMA HandOverStep ==
  ASSUME TypeInv, NEW e \in Ed, Aged(e), ~Preempted => InOrder(e), ~ed_rx_buffer[e].empty,
         UNCHANGED <<tx_buffer, sent>>,
         log' = [log EXCEPT ![e] = Append(@, ed_rx_buffer[e].msg)]
  PROVE  TransferService!Next
<1> DEFINE m == ed_rx_buffer[e].msg
           last == TransferService!LastHandedOver(e)
<1>1. sent[e] \in Nat /\ log[e] \in Seq(Nat)
  BY HeldType
<1>2. /\ m \in 1..sent[e]
      /\ \A k \in 1..Len(log[e]) :
           log[e][k] \in 1..sent[e] /\ (log[e][k] < m \/ (Preempted /\ log[e][k] = m))
  <2>1. /\ m \in 1..sent[e]
        /\ \A k \in 1..Len(log[e]) : log[e][k] \in 1..sent[e] /\ log[e][k] <= m
    BY DEF Aged
  <2>2. ASSUME ~Preempted, NEW k \in 1..Len(log[e]) PROVE log[e][k] < m
    <3>1. m # 0 /\ Held(e) = m
      BY <2>1 DEF Held
    <3> QED BY <2>2, <3>1 DEF InOrder, Ordered
  <2> HIDE DEF m
  <2> QED BY <1>1, <2>1, <2>2
<1>3. last \in Nat /\ (last < m \/ (Preempted /\ m = last))
  <2>1. CASE log[e] = <<>>
    BY <1>1, <1>2, <2>1 DEF TransferService!LastHandedOver
  <2>2. CASE log[e] # <<>>
    <3>1. Len(log[e]) \in 1..Len(log[e]) /\ last = log[e][Len(log[e])]
      BY <1>1, <2>2 DEF TransferService!LastHandedOver
    <3> HIDE DEF last, m
    <3> QED BY <1>1, <1>2, <3>1
  <2> QED BY <2>1, <2>2
<1>4. /\ m \in 1..sent[e] /\ log' = [log EXCEPT ![e] = Append(@, m)]
      /\ m > last \/ (Preempted /\ m = last)
  <2> HIDE DEF last
  <2> QED BY <1>1, <1>2, <1>3
<1>5. SlotsOf(e)' = SlotsOf(e) /\ \A f \in Ed : SlotsOf(f)' = SlotsOf(f)
  BY DEF SlotsOf
<1>6. TransferService!HandOver(e)
  BY <1>4, <1>5 DEF TransferService!HandOver
<1> QED BY <1>6 DEF TransferService!Next

(* The slots of the devices after a step of the router or of a device that *)
(* hands nothing over.                                                     *)
LEMMA OtherImplements ==
  ASSUME TypeInv, NEW e \in Ed,
         \/ PHY_send_with_cca(e)
         \/ router_process_ack(e) \/ router_process_commit_ack(e)
         \/ ed_process_data(e) \/ Lose(e)
  PROVE  [TransferService!Next]_(TransferService!vars)
<1>0. tx_buffer \in [Slot -> TxRecord]
  BY DEF TypeInv, TypeOK
<1>1. UNCHANGED <<sent, log>>
  BY DEF PHY_send_with_cca, router_process_ack, router_process_commit_ack,
         RouterReceives, ed_process_data, EdReceives, Lose
<1>2. ASSUME UNCHANGED tx_buffer, NEW f \in Ed PROVE SlotsOf(f)' = SlotsOf(f)
  BY <1>2 DEF SlotsOf
<1>3. CASE router_process_ack(e)
  <2>1. ASSUME NEW i \in Slot,
               tx_buffer' = [tx_buffer EXCEPT
                 ![i].state = COMMIT_SENT,
                 ![i].transmits_to_error = MaxRetries,
                 ![i].expiration_time = Later(timer_counter, 2)],
               NEW f \in Ed
        PROVE  SlotsOf(f)' = SlotsOf(f)
    <3>1. \A j \in Slot : /\ tx_buffer'[j].ed = tx_buffer[j].ed
                          /\ tx_buffer'[j].empty = tx_buffer[j].empty
      BY <1>0, <2>1 DEF TxRecord
    <3> QED BY <3>1 DEF SlotsOf
  <2>2. \A f \in Ed : SlotsOf(f)' = SlotsOf(f)
    BY <1>2, <1>3, <2>1 DEF router_process_ack
  <2> QED BY <1>1, <2>2, EndStep
<1>4. CASE router_process_commit_ack(e)
  <2>1. \A i \in Slot : tx_buffer'[i] \in {tx_buffer[i], EmptyTx}
    BY <1>0, <1>4 DEF router_process_commit_ack
  <2>2. \A f \in Ed : SlotsOf(f)' \subseteq SlotsOf(f)
    BY <2>1, EmptyTxType DEF SlotsOf
  <2> QED BY <1>1, <2>2, EndStep
<1>5. CASE PHY_send_with_cca(e) \/ ed_process_data(e) \/ Lose(e)
  <2>1. UNCHANGED tx_buffer
    BY <1>5 DEF PHY_send_with_cca, ed_process_data, EdReceives, Lose
  <2> QED BY <1>1, <1>2, <2>1, EndStep
<1> QED BY <1>3, <1>4, <1>5

(* The handshake implements the transfer service, as long as the network   *)
(* layer does not send to a device for which a slot is in use: payloads    *)
(* for a device are handed over in order, whatever the radio loses,        *)
(* whenever interrupts come and whoever restarts; and each at most once,   *)
(* if no interrupt comes while a call waits for the air.                   *)
THEOREM HandshakeImplementsTransfer == ~Overlap => (Spec => ImplementsTransfer)
<1> SUFFICES ASSUME ~Overlap PROVE Spec => ImplementsTransfer
  OBVIOUS
<1>1. Init => TransferService!Init
  <2> SUFFICES ASSUME Init PROVE TransferService!Init
    OBVIOUS
  <2>1. \A e \in Ed : SlotsOf(e) = {}
    BY EmptyTxType DEF Init, SlotsOf
  <2>2. [e \in Ed |-> SlotsOf(e) # {}] = [e \in Ed |-> FALSE]
    BY <2>1
  <2> QED BY <2>2 DEF Init, TransferService!Init
<1>2. TypeInv /\ AgedInv /\ (~Preempted => InOrderInv) /\ [Next]_vars
        => [TransferService!Next]_(TransferService!vars)
  <2> SUFFICES ASSUME TypeInv, AgedInv, ~Preempted => InOrderInv, [Next]_vars
               PROVE  [TransferService!Next]_(TransferService!vars)
    OBVIOUS
  <2>1. CASE UNCHANGED vars
    BY <2>1, EndStep DEF vars, SlotsOf
  <2>2. ASSUME NEW e \in Ed, LINK_send_coord(e)
        PROVE  [TransferService!Next]_(TransferService!vars)
    BY <2>2, SubmitStep
  <2>3. ASSUME NEW e \in Ed, ed_process_commit(e)
        PROVE  [TransferService!Next]_(TransferService!vars)
    <3>1. UNCHANGED <<tx_buffer, sent>>
      BY <2>3 DEF ed_process_commit, EdReceives
    <3>2. CASE UNCHANGED log
      BY <3>1, <3>2, EndStep DEF SlotsOf
    <3>3. CASE /\ ~ed_rx_buffer[e].empty
               /\ log' = [log EXCEPT ![e] = Append(@, ed_rx_buffer[e].msg)]
      BY <3>1, <3>3, HandOverStep DEF AgedInv, InOrderInv
    <3> QED BY <2>3, <3>2, <3>3 DEF ed_process_commit
  <2>4. CASE PHY_timer_interrupt
    <3>1. \A f \in Ed : SlotsOf(f)' # {} => SlotsOf(f) # {}
      BY <2>4, TickPerDevice
    <3> QED BY <2>4, <3>1, EndStep DEF PHY_timer_interrupt
  <2>5. CASE LINK_init
    <3>1. \A f \in Ed : SlotsOf(f)' # {} => SlotsOf(f) # {}
      BY <2>5, EmptyTxType DEF LINK_init, SlotsOf
    <3> QED BY <2>5, <3>1, EndStep DEF LINK_init
  <2> QED BY <2>1, <2>2, <2>3, <2>4, <2>5, OtherImplements DEF Next
<1>3. CASE Preempted
  <2>1. TypeInv /\ AgedInv /\ [Next]_vars => [TransferService!Next]_(TransferService!vars)
    BY <1>2, <1>3
  <2> QED BY <1>1, <2>1, TypeInvariant, AgedInvariant, PTL
          DEF Spec, ImplementsTransfer, TransferService!Spec
<1>4. CASE ~Preempted
  <2>1. Spec => []InOrderInv
    BY <1>4, OrderInvariant
  <2>2. TypeInv /\ AgedInv /\ InOrderInv /\ [Next]_vars
          => [TransferService!Next]_(TransferService!vars)
    BY <1>2
  <2> QED BY <1>1, <2>1, <2>2, TypeInvariant, AgedInvariant, PTL
          DEF Spec, ImplementsTransfer, TransferService!Spec
<1> QED BY <1>3, <1>4
=============================================================================
