------------------------- MODULE CoordUplink_proofs -------------------------
(***************************************************************************)
(* Proofs about the transfer of payloads from end devices to a             *)
(* coordinator, for any number of devices, slots and retransmissions, any  *)
(* radio capacity and any clock range.                                     *)
(***************************************************************************)
EXTENDS UplinkAck, TLAPS

-----------------------------------------------------------------------------
(* Type correctness.                                                       *)

(* A clock value ticks on within its range.                                *)
LEMMA LaterType ==
  \A t, d \in Nat : Later(t, d) \in 0..(TimerMod - 1)
BY EdLinkAssumption, RadioAssumption DEF Later

LEMMA TransmitUpType ==
  ASSUME NEW e \in Ed, NEW ch \in [Ed -> Seq(UpPacket)], NEW p \in UpPacket
  PROVE  Transmit(ch, e, p) \in [Ed -> Seq(UpPacket)]
BY DEF Transmit

LEMMA TransmitDownType ==
  ASSUME NEW e \in Ed, NEW ch \in [Ed -> Seq(DownPacket)], NEW p \in DownPacket
  PROVE  Transmit(ch, e, p) \in [Ed -> Seq(DownPacket)]
BY DEF Transmit

LEMMA ConsumeType ==
  ASSUME NEW S, NEW e \in Ed, NEW ch \in [Ed -> Seq(S)], ch[e] # <<>>
  PROVE  Consume(ch, e) \in [Ed -> Seq(S)]
BY DEF Consume

LEMMA EmptyTxType == EmptyTx \in TxRecord
BY EdLinkAssumption, RadioAssumption DEF EmptyTx, TxRecord, DATA_SENT, COMMIT_SENT

LEMMA PacketType ==
  \A n \in Nat : DataPacket(n) \in UpPacket /\ CommitPacket(n) \in UpPacket
BY DEF DataPacket, CommitPacket, UpPacket

LEMMA InUseType ==
  ASSUME NEW state \in {DATA_SENT, COMMIT_SENT}, NEW t \in 0..(TimerMod - 1),
         NEW k \in 0..MaxRetries, NEW n \in Nat
  PROVE  InUse(state, t, k, n) \in TxRecord
BY DEF InUse, TxRecord

LEMMA EdStepType ==
  ASSUME EdTypeOK, NEW e \in Ed, EdNext(e)
  PROVE  EdTypeOK'
<1> USE EdLinkAssumption, RadioAssumption DEF EdTypeOK
<1>0. timer_counter[e] \in Nat
  OBVIOUS
<1>1. CASE LINK_send_ed(e)
  <2>1. DataPacket(sent[e] + 1) \in UpPacket
    BY PacketType
  <2>2. Later(timer_counter[e], 3) \in 0..(TimerMod - 1)
    BY <1>0, LaterType
  <2>3. InUse(DATA_SENT, Later(timer_counter[e], 3), MaxRetries, sent[e] + 1)
          \in TxRecord
    BY <2>2, InUseType
  <2>4. Transmit(up, e, DataPacket(sent[e] + 1)) \in [Ed -> Seq(UpPacket)]
    BY <2>1, TransmitUpType
  <2>5. /\ up' \in {up, Transmit(up, e, DataPacket(sent[e] + 1))}
        /\ waiting' \in {waiting, [waiting EXCEPT ![e] = sent[e] + 1]}
        /\ sent' = [sent EXCEPT ![e] = @ + 1]
        /\ ed_tx_buffer' = [ed_tx_buffer EXCEPT ![e] =
             InUse(DATA_SENT, Later(timer_counter[e], 3), MaxRetries, sent[e] + 1)]
        /\ UNCHANGED <<timer_counter, down, done>>
    BY <1>1, Zenon DEF LINK_send_ed
  <2>6. sent' \in [Ed -> Nat]
    BY <2>5
  <2>7. [waiting EXCEPT ![e] = sent[e] + 1] \in [Ed -> Nat]
    OBVIOUS
  <2>8. waiting' \in [Ed -> Nat]
    BY <2>5, <2>7
  <2> QED BY <2>3, <2>4, <2>5, <2>6, <2>8
<1>2. CASE ed_process_ack(e)
  <2>1. down' \in [Ed -> Seq(DownPacket)]
    BY <1>2, ConsumeType DEF ed_process_ack, EdReceives
  <2>2. CASE ~ed_tx_buffer[e].empty
    <3>0. ed_tx_buffer[e].msg \in Nat
      BY DEF TxRecord
    <3>1. CommitPacket(ed_tx_buffer[e].msg) \in UpPacket
      BY <3>0, PacketType
    <3>2. Later(timer_counter[e], 2) \in 0..(TimerMod - 1)
      BY <1>0, LaterType
    <3>3. InUse(COMMIT_SENT, Later(timer_counter[e], 2), MaxRetries,
                ed_tx_buffer[e].msg) \in TxRecord
      <4>1. ed_tx_buffer[e].msg \in Nat
        BY DEF TxRecord
      <4> QED BY <3>2, <4>1, InUseType
    <3>4. up' = Transmit(up, e, CommitPacket(ed_tx_buffer[e].msg))
      BY <1>2, <2>2 DEF ed_process_ack
    <3>5. up' \in [Ed -> Seq(UpPacket)]
      BY <3>1, <3>4, TransmitUpType
    <3> QED BY <1>2, <2>1, <2>2, <3>3, <3>5 DEF ed_process_ack
  <2>3. CASE ed_tx_buffer[e].empty
    BY <1>2, <2>1, <2>3 DEF ed_process_ack
  <2> QED BY <2>2, <2>3 DEF TxRecord
<1>3. CASE ed_process_busy(e)
  <2>1. down' \in [Ed -> Seq(DownPacket)]
    BY <1>3, ConsumeType DEF ed_process_busy, EdReceives
  <2>2. Later(timer_counter[e], 3) \in 0..(TimerMod - 1)
    BY <1>0, LaterType
  <2>3. InUse(ed_tx_buffer[e].state, Later(timer_counter[e], 3), MaxRetries,
              ed_tx_buffer[e].msg) \in TxRecord
    <3>1. /\ ed_tx_buffer[e].state \in {DATA_SENT, COMMIT_SENT}
          /\ ed_tx_buffer[e].msg \in Nat
      BY DEF TxRecord
    <3> QED BY <2>2, <3>1, InUseType
  <2> QED BY <1>3, <2>1, <2>3 DEF ed_process_busy
<1>4. CASE ed_process_commit_ack(e)
  <2>1. down' \in [Ed -> Seq(DownPacket)]
    BY <1>4, ConsumeType DEF ed_process_commit_ack, EdReceives
  <2> QED BY <1>4, <2>1, EmptyTxType DEF ed_process_commit_ack
<1>5. CASE PHY_timer_interrupt(e)
  <2>1. timer_counter' \in [Ed -> 0..(TimerMod - 1)]
    <3>1. Later(timer_counter[e], 1) \in 0..(TimerMod - 1)
      BY <1>0, LaterType
    <3> QED BY <1>5, <3>1 DEF PHY_timer_interrupt
  <2>2. /\ ed_tx_buffer' \in [Ed -> TxRecord]
        /\ up' \in [Ed -> Seq(UpPacket)]
    <3> DEFINE tx == ed_tx_buffer[e]
               due == ~tx.empty /\ tx.expiration_time = timer_counter'[e]
               resent == IF tx.state = COMMIT_SENT THEN CommitPacket(tx.msg)
                                                   ELSE DataPacket(tx.msg)
    <3>0. tx \in TxRecord /\ tx.msg \in Nat
      BY DEF TxRecord
    <3>1. resent \in UpPacket
      BY <3>0, PacketType
    <3>2. CASE ~due
      BY <1>5, <3>2 DEF PHY_timer_interrupt, check_buffers_state, Due, Rescheduled, Resent
    <3>3. CASE due /\ tx.transmits_to_error = 0
      <4>1. /\ ed_tx_buffer' = [ed_tx_buffer EXCEPT ![e] = EmptyTx]
            /\ up' = up
        BY <1>5, <3>3 DEF PHY_timer_interrupt, check_buffers_state, Due, Rescheduled, Resent
      <4> QED BY <3>0, <4>1, EmptyTxType
    <3>4. CASE due /\ tx.transmits_to_error # 0
      <4>1. Later(timer_counter'[e], 2) \in 0..(TimerMod - 1)
        <5>1. timer_counter'[e] \in Nat
          BY <2>1
        <5> QED BY <5>1, LaterType
      <4>2. /\ ed_tx_buffer' = [ed_tx_buffer EXCEPT ![e] =
                 InUse(tx.state, Later(timer_counter'[e], 2),
                       tx.transmits_to_error - 1, tx.msg)]
            /\ up' = Transmit(up, e, resent)
        BY <1>5, <3>4 DEF PHY_timer_interrupt, check_buffers_state, Due, Rescheduled, Resent
      <4>3. /\ tx.transmits_to_error - 1 \in 0..MaxRetries
            /\ tx.state \in {DATA_SENT, COMMIT_SENT}
            /\ tx.msg \in Nat
        BY <3>0, <3>4 DEF TxRecord
      <4>4. ed_tx_buffer' \in [Ed -> TxRecord]
        BY <4>1, <4>2, <4>3, InUseType
      <4> QED BY <3>1, <4>2, <4>4, TransmitUpType
    <3> QED BY <3>2, <3>3, <3>4
  <2> QED BY <1>5, <2>1, <2>2 DEF PHY_timer_interrupt
<1>6. CASE LINK_init(e)
  BY <1>6, EmptyTxType DEF LINK_init
<1>7. CASE Lose(e)
  <2>1. CASE up[e] # <<>> /\ up' = Consume(up, e) /\ UNCHANGED down
    BY <1>7, <2>1, ConsumeType DEF Lose
  <2>2. CASE down[e] # <<>> /\ down' = Consume(down, e) /\ UNCHANGED up
    BY <1>7, <2>2, ConsumeType DEF Lose
  <2> QED BY <1>7, <2>1, <2>2 DEF Lose
<1>8. CASE PHY_send_with_cca(e)
  <2>1. DataPacket(waiting[e]) \in UpPacket
    BY PacketType
  <2>2. up' \in [Ed -> Seq(UpPacket)]
    BY <1>8, <2>1, TransmitUpType DEF PHY_send_with_cca
  <2> QED BY <1>8, <2>2 DEF PHY_send_with_cca
<1> QED BY <1>1, <1>2, <1>3, <1>4, <1>5, <1>6, <1>7, <1>8 DEF EdNext

LEMMA RouterReceiveType ==
  ASSUME EdTypeOK, NEW e \in Ed, NEW type, Receives(e, type),
         NEW p \in DownPacket, down' = Transmit(down, e, p)
  PROVE  EdTypeOK'
<1>1. up' \in [Ed -> Seq(UpPacket)]
  BY ConsumeType DEF EdTypeOK, Receives
<1>2. down' \in [Ed -> Seq(DownPacket)]
  BY TransmitDownType DEF EdTypeOK
<1> QED BY <1>1, <1>2 DEF EdTypeOK, Receives

LEMMA HeadUpType ==
  ASSUME EdTypeOK, NEW e \in Ed, up[e] # <<>>
  PROVE  Head(up[e]) \in UpPacket
BY DEF EdTypeOK

(* Every reachable state has the types of TypeOK.                          *)
THEOREM TypeCorrect == Spec => []TypeOK
<1>1. Init => TypeOK
  BY EdLinkAssumption, RadioAssumption, CoordUplinkAssumption, EmptyTxType
  DEF Init, EdInit, TypeOK, EdTypeOK, EmptyRx, RxRecord
<1>2. TypeOK /\ [Next]_vars => TypeOK'
  <2> SUFFICES ASSUME TypeOK, [Next]_vars PROVE TypeOK'
    OBVIOUS
  <2>0. EmptyRx \in RxRecord
    BY DEF EmptyRx, RxRecord
  <2>1. CASE UNCHANGED vars
    BY <2>1 DEF vars, edVars, TypeOK, EdTypeOK
  <2>2. CASE Restart
    BY <2>0, <2>2 DEF Restart, edVars, TypeOK, EdTypeOK
  <2>3. ASSUME NEW e \in Ed, EdNext(e) /\ UNCHANGED <<rx_buffer, log, restarts>>
        PROVE  TypeOK'
    BY <2>3, EdStepType DEF TypeOK
  <2>4. ASSUME NEW e \in Ed, DataAgain(e) PROVE TypeOK'
    <3>1. EdTypeOK'
      BY <2>4, RouterReceiveType DEF DataAgain, TypeOK, DownPacket
    <3> QED BY <2>4, <3>1 DEF DataAgain, TypeOK
  <2>5. ASSUME NEW e \in Ed, DataNew(e) PROVE TypeOK'
    <3>1. EdTypeOK'
      BY <2>5, RouterReceiveType DEF DataNew, Store, TypeOK, DownPacket
    <3>2. Head(up[e]).msg \in Nat
      BY <2>5, HeadUpType DEF DataNew, Store, Receives, TypeOK, UpPacket
    <3>3. [empty |-> FALSE, ed |-> e, msg |-> Head(up[e]).msg] \in RxRecord
      BY <3>2 DEF RxRecord
    <3>4. rx_buffer' \in [Slot -> RxRecord]
      BY <2>5, <3>3 DEF DataNew, Store, TypeOK
    <3> QED BY <2>5, <3>1, <3>4 DEF DataNew, Store, TypeOK
  <2>6. ASSUME NEW e \in Ed, Commit(e) PROVE TypeOK'
    <3>1. EdTypeOK'
      BY <2>6, RouterReceiveType DEF Commit, TypeOK, DownPacket
    <3>2. CASE SlotsOf(e) = {} /\ UNCHANGED <<log, rx_buffer>>
      BY <2>6, <3>1, <3>2 DEF Commit, TypeOK
    <3>3. ASSUME NEW i \in Slot,
                 log' = [log EXCEPT ![e] = Append(@, rx_buffer[i].msg)],
                 rx_buffer' = [rx_buffer EXCEPT ![i] = EmptyRx]
          PROVE  TypeOK'
      <4>1. rx_buffer[i].msg \in Nat
        BY DEF TypeOK, RxRecord
      <4>2. log' \in [Ed -> Seq(Nat)]
        BY <3>3, <4>1 DEF TypeOK
      <4>3. rx_buffer' \in [Slot -> RxRecord]
        BY <2>0, <3>3 DEF TypeOK
      <4> QED BY <2>6, <3>1, <4>2, <4>3 DEF Commit, TypeOK
    <3> QED BY <2>6, <3>2, <3>3 DEF Commit
  <2> QED BY <2>1, <2>2, <2>3, <2>4, <2>5, <2>6 DEF Next
<1> QED BY <1>1, <1>2, PTL DEF Spec

-----------------------------------------------------------------------------
(* The clock.                                                              *)

LEMMA LaterValue ==
  \A t \in 0..(TimerMod - 1), d \in 0..3 :
    Later(t, d) = IF t + d < TimerMod THEN t + d ELSE t + d - TimerMod
BY EdLinkAssumption, RadioAssumption DEF Later

(* A moment two or three ticks away is one tick nearer after a tick.       *)
LEMMA LaterTick ==
  ASSUME NEW t \in 0..(TimerMod - 1), NEW d \in 2..3
  PROVE  Later(t, d) = Later(Later(t, 1), d - 1)
<1>1. Later(t, 1) = IF t + 1 < TimerMod THEN t + 1 ELSE 0
  BY EdLinkAssumption, RadioAssumption, LaterValue
<1>2. Later(t, d) = IF t + d < TimerMod THEN t + d ELSE t + d - TimerMod
  BY EdLinkAssumption, RadioAssumption, LaterValue
<1>3. Later(t, 1) \in 0..(TimerMod - 1) /\ d - 1 \in 0..3
  BY EdLinkAssumption, RadioAssumption, <1>1
<1>4. Later(Later(t, 1), d - 1) =
        IF Later(t, 1) + (d - 1) < TimerMod
        THEN Later(t, 1) + (d - 1) ELSE Later(t, 1) + (d - 1) - TimerMod
  BY <1>3, LaterValue
<1> QED BY EdLinkAssumption, RadioAssumption, <1>1, <1>2, <1>4

Armed(e) ==
  ~ed_tx_buffer[e].empty =>
    \E d \in 1..3 : ed_tx_buffer[e].expiration_time = Later(timer_counter[e], d)

LEMMA EdStepArmed ==
  ASSUME EdTypeOK, NEW e \in Ed, EdNext(e), Armed(e)
  PROVE  Armed(e)'
<1> USE DEF Armed
<1> DEFINE tx == ed_tx_buffer[e]
           due == ~tx.empty /\ tx.expiration_time = timer_counter'[e]
<1>1. CASE LINK_send_ed(e)
  BY <1>1 DEF LINK_send_ed, InUse, EdTypeOK
<1>2. CASE ed_process_ack(e)
  BY <1>2 DEF ed_process_ack, InUse, EdTypeOK
<1>3. CASE ed_process_busy(e)
  BY <1>3 DEF ed_process_busy, InUse, EdTypeOK
<1>4. CASE ed_process_commit_ack(e)
  BY <1>4 DEF ed_process_commit_ack, EmptyTx, EdTypeOK
<1>5. CASE PHY_timer_interrupt(e)
  <2>1. timer_counter[e] \in 0..(TimerMod - 1)
        /\ timer_counter'[e] = Later(timer_counter[e], 1)
    BY <1>5 DEF PHY_timer_interrupt, EdTypeOK
  <2>2. CASE due /\ tx.transmits_to_error = 0
    BY <1>5, <2>2 DEF PHY_timer_interrupt, check_buffers_state, Due, Rescheduled, Resent, EmptyTx, EdTypeOK
  <2>3. CASE due /\ tx.transmits_to_error # 0
    BY <1>5, <2>3 DEF PHY_timer_interrupt, check_buffers_state, Due, Rescheduled, Resent, InUse, EdTypeOK
  <2>4. CASE ~due
    <3>1. ed_tx_buffer' = ed_tx_buffer
      BY <1>5, <2>4 DEF PHY_timer_interrupt, check_buffers_state, Due, Rescheduled, Resent
    <3>2. SUFFICES ASSUME ~tx.empty
                   PROVE  \E d \in 1..3 : tx.expiration_time = Later(timer_counter'[e], d)
      BY <3>1
    <3>3. PICK d \in 1..3 : tx.expiration_time = Later(timer_counter[e], d)
      BY <3>2
    <3>4. d # 1
      BY <2>1, <2>4, <3>2, <3>3
    <3>5. d \in 2..3
      BY <3>4
    <3>6. Later(timer_counter[e], d) = Later(Later(timer_counter[e], 1), d - 1)
      BY <2>1, <3>5, LaterTick
    <3>7. d - 1 \in 1..3
      BY <3>5
    <3> QED BY <2>1, <3>3, <3>6, <3>7
  <2> QED BY <2>2, <2>3, <2>4
<1>6. CASE LINK_init(e)
  BY <1>6 DEF LINK_init, EmptyTx, EdTypeOK
<1>7. CASE Lose(e)
  BY <1>7 DEF Lose
<1>8. CASE PHY_send_with_cca(e)
  BY <1>8 DEF PHY_send_with_cca
<1> QED BY <1>1, <1>2, <1>3, <1>4, <1>5, <1>6, <1>7, <1>8 DEF EdNext

(* A step of one device leaves the others and their channels alone.        *)
LEMMA EdStepFrame ==
  ASSUME EdTypeOK, NEW e \in Ed, EdNext(e), NEW f \in Ed, f # e
  PROVE  /\ ed_tx_buffer'[f] = ed_tx_buffer[f]
         /\ timer_counter'[f] = timer_counter[f]
         /\ up'[f] = up[f]
         /\ down'[f] = down[f]
         /\ sent'[f] = sent[f]
         /\ waiting'[f] = waiting[f]
<1> USE DEF EdTypeOK, Transmit, Consume
<1>1. CASE LINK_send_ed(e)
  BY <1>1 DEF LINK_send_ed
<1>2. CASE ed_process_ack(e)
  BY <1>2 DEF ed_process_ack, EdReceives
<1>3. CASE ed_process_busy(e)
  BY <1>3 DEF ed_process_busy, EdReceives
<1>4. CASE ed_process_commit_ack(e)
  BY <1>4 DEF ed_process_commit_ack, EdReceives
<1>5. CASE PHY_timer_interrupt(e)
  BY <1>5 DEF PHY_timer_interrupt, check_buffers_state, Due, Rescheduled, Resent
<1>6. CASE LINK_init(e)
  BY <1>6 DEF LINK_init
<1>7. CASE Lose(e)
  BY <1>7 DEF Lose
<1>8. CASE PHY_send_with_cca(e)
  BY <1>8 DEF PHY_send_with_cca
<1> QED BY <1>1, <1>2, <1>3, <1>4, <1>5, <1>6, <1>7, <1>8 DEF EdNext

(* The router's receive steps touch only the channels of the sender.       *)
LEMMA ReceivesFrame ==
  ASSUME EdTypeOK, NEW e \in Ed, NEW type, Receives(e, type),
         NEW p \in DownPacket, down' = Transmit(down, e, p)
  PROVE  /\ \A f \in Ed : f # e => up'[f] = up[f] /\ down'[f] = down[f]
         /\ up'[e] = Tail(up[e])
         /\ UNCHANGED <<ed_tx_buffer, waiting, timer_counter, sent>>
BY DEF EdTypeOK, Receives, Consume, Transmit

(* No transfer is ever left without a retransmission in sight: the         *)
(* equality test of check_buffers_state does not miss an expiration time,  *)
(* however the interrupts of timer and radio interleave.                   *)
THEOREM ClockCorrect == Spec => []RetransmissionArmed
<1>1. RetransmissionArmed <=> \A e \in Ed : Armed(e)
  BY DEF RetransmissionArmed, Armed
<1>2. Init => \A e \in Ed : Armed(e)
  BY DEF Init, EdInit, Armed, EmptyTx
<1>3. TypeOK /\ (\A e \in Ed : Armed(e)) /\ [Next]_vars => (\A e \in Ed : Armed(e))'
  <2> SUFFICES ASSUME TypeOK, \A e \in Ed : Armed(e), [Next]_vars, NEW f \in Ed
               PROVE  Armed(f)'
    OBVIOUS
  <2>1. CASE UNCHANGED <<ed_tx_buffer, timer_counter>>
    BY <2>1 DEF Armed
  <2>2. ASSUME NEW e \in Ed, EdNext(e) PROVE Armed(f)'
    <3>1. CASE e = f
      BY <2>2, <3>1, EdStepArmed DEF TypeOK
    <3>2. CASE e # f
      BY <2>2, <3>2, EdStepFrame DEF TypeOK, Armed
    <3> QED BY <3>1, <3>2
  <2>3. UNCHANGED vars \/ Restart => UNCHANGED <<ed_tx_buffer, timer_counter>>
    BY DEF vars, edVars, Restart
  <2>4. ASSUME NEW e \in Ed, DataAgain(e) \/ DataNew(e) \/ Commit(e)
        PROVE  UNCHANGED <<ed_tx_buffer, timer_counter>>
    BY <2>4 DEF DataAgain, DataNew, Store, Commit, Receives
  <2> QED BY <2>1, <2>2, <2>3, <2>4 DEF Next
<1> QED BY <1>1, <1>2, <1>3, TypeCorrect, PTL DEF Spec

-----------------------------------------------------------------------------
(* The slots.                                                              *)

(* A device never occupies two slots of the RX buffer.                     *)
THEOREM SlotsCorrect == Spec => []OneSlotPerSender
<1>1. Init => OneSlotPerSender
  BY DEF Init, OneSlotPerSender, EmptyRx
<1>2. TypeOK /\ OneSlotPerSender /\ [Next]_vars => OneSlotPerSender'
  <2> SUFFICES ASSUME TypeOK, OneSlotPerSender, [Next]_vars PROVE OneSlotPerSender'
    OBVIOUS
  <2>1. CASE UNCHANGED rx_buffer
    BY <2>1 DEF OneSlotPerSender
  <2>2. CASE Restart
    BY <2>2 DEF Restart, OneSlotPerSender, EmptyRx
  <2>3. ASSUME NEW e \in Ed, DataNew(e) PROVE OneSlotPerSender'
    <3>1. ASSUME NEW i \in Slot,
                 rx_buffer' = [rx_buffer EXCEPT ![i] =
                   [empty |-> FALSE, ed |-> e, msg |-> Head(up[e]).msg]]
          PROVE  OneSlotPerSender'
      <4>1. SlotsOf(e) = {}
        BY <2>3 DEF DataNew, Store
      <4>2. \A j \in Slot : j # i => rx_buffer'[j] = rx_buffer[j]
        BY <3>1 DEF TypeOK
      <4>3. \A j \in Slot : j # i /\ ~rx_buffer'[j].empty => rx_buffer'[j].ed # e
        BY <4>1, <4>2 DEF SlotsOf
      <4>4. rx_buffer'[i].ed = e
        BY <3>1 DEF TypeOK
      <4> QED BY <4>2, <4>3, <4>4 DEF OneSlotPerSender
    <3> QED BY <2>1, <2>3, <3>1 DEF DataNew, Store
  <2>4. ASSUME NEW e \in Ed, Commit(e) PROVE OneSlotPerSender'
    <3>1. ASSUME NEW i \in Slot, rx_buffer' = [rx_buffer EXCEPT ![i] = EmptyRx]
          PROVE  OneSlotPerSender'
      BY <3>1 DEF OneSlotPerSender, TypeOK, EmptyRx
    <3> QED BY <2>1, <2>4, <3>1 DEF Commit
  <2>5. UNCHANGED vars => UNCHANGED rx_buffer
    BY DEF vars
  <2>6. ASSUME NEW e \in Ed, DataAgain(e) PROVE UNCHANGED rx_buffer
    BY <2>6 DEF DataAgain
  <2> QED BY <2>1, <2>2, <2>3, <2>4, <2>5, <2>6 DEF Next
<1> QED BY <1>1, <1>2, TypeCorrect, PTL DEF Spec

-----------------------------------------------------------------------------
(* Acknowledgements.                                                       *)

(* The device has, or is about to have, the router's word that its payload *)
(* is stored.                                                              *)
AckOut(e) ==
  \/ \E i \in DOMAIN down[e] : down[e][i] = "ACK"
  \/ ed_tx_buffer[e].state = COMMIT_SENT

LEMMA TailAck ==
  ASSUME NEW s \in Seq(DownPacket), s # <<>>,
         \E i \in DOMAIN Tail(s) : Tail(s)[i] = "ACK"
  PROVE  \E i \in DOMAIN s : s[i] = "ACK"
<1>1. PICK i \in 1..Len(Tail(s)) : Tail(s)[i] = "ACK"
  OBVIOUS
<1>2. i + 1 \in 1..Len(s) /\ s[i + 1] = "ACK"
  BY <1>1
<1> QED BY <1>2

LEMMA ConsumeAck ==
  ASSUME EdTypeOK, NEW e \in Ed, down[e] # <<>>, down' = Consume(down, e),
         \E i \in DOMAIN down'[e] : down'[e][i] = "ACK"
  PROVE  \E i \in DOMAIN down[e] : down[e][i] = "ACK"
<1>1. down[e] \in Seq(DownPacket) /\ down'[e] = Tail(down[e])
  BY DEF EdTypeOK, Consume
<1> QED BY <1>1, TailAck

(* No step of a device and no loss gives it this word.                     *)
LEMMA EdStepAck ==
  ASSUME EdTypeOK, NEW e \in Ed, EdNext(e), AckOut(e)'
  PROVE  AckOut(e)
<1> DEFINE acks == \E i \in DOMAIN down[e] : down[e][i] = "ACK"
           acks2 == \E i \in DOMAIN down'[e] : down'[e][i] = "ACK"
<1>0. /\ ed_tx_buffer \in [Ed -> TxRecord]
      /\ DATA_SENT # COMMIT_SENT
      /\ EmptyTx.state = DATA_SENT
      /\ acks2 \/ ed_tx_buffer'[e].state = COMMIT_SENT
  BY DEF EdTypeOK, EmptyTx, DATA_SENT, COMMIT_SENT, AckOut
<1>1. CASE LINK_send_ed(e)
  BY <1>0, <1>1 DEF LINK_send_ed, InUse, AckOut
<1>2. CASE ed_process_ack(e)
  <2>1. down[e] # <<>> /\ Head(down[e]) = "ACK" /\ down[e] \in Seq(DownPacket)
    BY <1>2 DEF ed_process_ack, EdReceives, EdTypeOK
  <2>2. 1 \in DOMAIN down[e] /\ down[e][1] = "ACK"
    BY <2>1
  <2> QED BY <2>2 DEF AckOut
<1>3. CASE ed_process_busy(e)
  <2>1. down[e] # <<>> /\ down' = Consume(down, e)
    BY <1>3 DEF ed_process_busy, EdReceives
  <2>2. acks2 => acks
    BY <2>1, ConsumeAck
  <2>3. ed_tx_buffer'[e].state = ed_tx_buffer[e].state
    BY <1>0, <1>3 DEF ed_process_busy, InUse
  <2> QED BY <1>0, <2>2, <2>3 DEF AckOut
<1>4. CASE ed_process_commit_ack(e)
  <2>1. down[e] # <<>> /\ down' = Consume(down, e)
    BY <1>4 DEF ed_process_commit_ack, EdReceives
  <2>2. acks2 => acks
    BY <2>1, ConsumeAck
  <2>3. ed_tx_buffer'[e].state = DATA_SENT
    BY <1>0, <1>4 DEF ed_process_commit_ack
  <2> QED BY <1>0, <2>2, <2>3 DEF AckOut
<1>5. CASE PHY_timer_interrupt(e)
  <2>1. \/ ed_tx_buffer'[e].state = ed_tx_buffer[e].state
        \/ ed_tx_buffer'[e].state = DATA_SENT
    BY <1>0, <1>5 DEF PHY_timer_interrupt, check_buffers_state, Rescheduled, InUse
  <2>2. down' = down
    BY <1>5 DEF PHY_timer_interrupt
  <2> QED BY <1>0, <2>1, <2>2 DEF AckOut
<1>6. CASE LINK_init(e)
  BY <1>0, <1>6 DEF LINK_init, AckOut
<1>7. CASE Lose(e)
  <2>1. ed_tx_buffer' = ed_tx_buffer
    BY <1>7 DEF Lose
  <2>2. acks2 => acks
    <3>1. CASE down' = down
      BY <3>1
    <3>2. CASE down[e] # <<>> /\ down' = Consume(down, e)
      BY <3>2, ConsumeAck
    <3> QED BY <1>7, <3>1, <3>2 DEF Lose
  <2> QED BY <1>0, <2>1, <2>2 DEF AckOut
<1>8. CASE PHY_send_with_cca(e)
  BY <1>0, <1>8 DEF PHY_send_with_cca, AckOut
<1> QED BY <1>1, <1>2, <1>3, <1>4, <1>5, <1>6, <1>7, <1>8 DEF EdNext

-----------------------------------------------------------------------------
(* The order of payloads when interrupts may come at any time.             *)

(* The packets of a channel carry payloads up to number n, in order.       *)
Ascends(s, n) ==
  /\ \A i \in 1..Len(s) : s[i].msg \in 1..n
  /\ \A i, j \in 1..Len(s) : i <= j => s[i].msg <= s[j].msg

(* All of them are at least payload m.                                     *)
From(s, m) == \A i \in 1..Len(s) : m <= s[i].msg

(* The device transfers its latest payload or none.                        *)
Latest(e) ==
  /\ ~ed_tx_buffer[e].empty => ed_tx_buffer[e].msg = sent[e] /\ sent[e] > 0
  /\ waiting[e] # 0 => waiting[e] = sent[e] /\ sent[e] > 0

(* Payloads are ordered from what was handed over through the slots to the *)
(* channel; equal ones may follow each other.                              *)
Aged(e) ==
  /\ Latest(e)
  /\ Ascends(up[e], sent[e])
  /\ \A i \in SlotsOf(e) : /\ rx_buffer[i].msg \in 1..sent[e]
                           /\ From(up[e], rx_buffer[i].msg)
  /\ \A j, k \in 1..Len(log[e]) : j <= k => log[e][j] <= log[e][k]
  /\ \A k \in 1..Len(log[e]) : /\ log[e][k] \in 1..sent[e]
                               /\ From(up[e], log[e][k])
                               /\ \A i \in SlotsOf(e) : log[e][k] <= rx_buffer[i].msg

LEMMA AscendsTail ==
  ASSUME NEW s \in Seq(UpPacket), s # <<>>, NEW n \in Nat, Ascends(s, n)
  PROVE  /\ Ascends(Tail(s), n)
         /\ Head(s).msg \in 1..n /\ From(Tail(s), Head(s).msg)
         /\ \A m \in Nat : From(s, m) => From(Tail(s), m) /\ m <= Head(s).msg
<1>1. Len(Tail(s)) = Len(s) - 1 /\ Len(s) \in Nat /\ Len(s) > 0
  OBVIOUS
<1>2. \A i \in 1..Len(Tail(s)) : Tail(s)[i] = s[i + 1] /\ i + 1 \in 1..Len(s)
  BY <1>1
<1>3. Head(s) = s[1] /\ 1 \in 1..Len(s)
  BY <1>1
<1>4. Ascends(Tail(s), n)
  BY <1>1, <1>2 DEF Ascends
<1>5. Head(s).msg \in 1..n /\ From(Tail(s), Head(s).msg)
  BY <1>1, <1>2, <1>3 DEF Ascends, From
<1>6. ASSUME NEW m \in Nat, From(s, m) PROVE From(Tail(s), m) /\ m <= Head(s).msg
  BY <1>2, <1>3, <1>6 DEF From
<1> QED BY <1>4, <1>5, <1>6

LEMMA AscendsAppend ==
  ASSUME NEW s \in Seq(UpPacket), NEW n \in Nat, Ascends(s, n),
         NEW p \in UpPacket, p.msg > 0, p.msg >= n
  PROVE  /\ Ascends(Append(s, p), p.msg)
         /\ \A m \in 0..n : From(s, m) => From(Append(s, p), m)
<1> DEFINE t == Append(s, p)
<1>1. Len(t) = Len(s) + 1 /\ Len(s) \in Nat /\ t[Len(t)] = p /\ p.msg \in Nat
  BY DEF UpPacket
<1>2. \A i \in 1..Len(s) : t[i] = s[i]
  OBVIOUS
<1> HIDE DEF t
<1>3. \A i \in 1..Len(t) : i = Len(t) \/ i \in 1..Len(s)
  BY <1>1
<1>4. \A i \in 1..Len(t) : t[i].msg \in 1..p.msg
  BY <1>1, <1>2, <1>3 DEF Ascends
<1>5. \A i, j \in 1..Len(t) : i <= j => t[i].msg <= t[j].msg
  <2> SUFFICES ASSUME NEW i \in 1..Len(t), NEW j \in 1..Len(t), i <= j
               PROVE  t[i].msg <= t[j].msg
    OBVIOUS
  <2>1. CASE j = Len(t)
    BY <1>1, <1>4, <2>1
  <2>2. CASE j \in 1..Len(s)
    <3>1. i \in 1..Len(s)
      BY <1>1, <2>2
    <3> QED BY <1>2, <2>2, <3>1 DEF Ascends
  <2> QED BY <1>3, <2>1, <2>2
<1>6. \A m \in 0..n : From(s, m) => From(t, m)
  BY <1>1, <1>2, <1>3 DEF From
<1> QED BY <1>4, <1>5, <1>6 DEF Ascends, t

(* What a step of a device does to its payloads: the channel is as it was, *)
(* or without its oldest packet, or has the latest payload at its end.     *)
SendsLatest(e) ==
  \/ up'[e] = up[e]
  \/ up[e] # <<>> /\ up'[e] = Tail(up[e])
  \/ \E p \in UpPacket : /\ up'[e] = Append(up[e], p)
                         /\ p.msg = sent'[e] /\ sent'[e] > 0

LEMMA TransmitLatest ==
  ASSUME EdTypeOK, NEW e \in Ed, NEW p \in UpPacket, p.msg = sent'[e], sent'[e] > 0,
         up' = Transmit(up, e, p)
  PROVE  SendsLatest(e)
<1>1. up'[e] \in {up[e], Append(up[e], p)}
  BY DEF EdTypeOK, Transmit
<1> QED BY <1>1 DEF SendsLatest

LEMMA EdStepLatest ==
  ASSUME EdTypeOK, NEW e \in Ed, EdNext(e), Latest(e)
  PROVE  Latest(e)' /\ SendsLatest(e) /\ sent'[e] \in Nat /\ sent'[e] >= sent[e]
<1>0. /\ ed_tx_buffer \in [Ed -> TxRecord] /\ waiting \in [Ed -> Nat]
      /\ sent \in [Ed -> Nat] /\ sent[e] \in Nat /\ up \in [Ed -> Seq(UpPacket)]
      /\ ed_tx_buffer[e].msg \in Nat
  BY DEF EdTypeOK, TxRecord
<1>1. \A n \in Nat : /\ DataPacket(n) \in UpPacket /\ DataPacket(n).msg = n
                     /\ CommitPacket(n) \in UpPacket /\ CommitPacket(n).msg = n
  BY DEF UpPacket, DataPacket, CommitPacket
<1>2. EmptyTx.empty
  BY DEF EmptyTx
<1>3. CASE LINK_send_ed(e)
  <2>1. /\ sent'[e] = sent[e] + 1 /\ sent' = [sent EXCEPT ![e] = @ + 1]
        /\ ed_tx_buffer'[e].msg = sent[e] + 1
        /\ waiting[e] = 0
    BY <1>0, <1>3 DEF LINK_send_ed, InUse
  <2>2. CASE up' = Transmit(up, e, DataPacket(sent[e] + 1)) /\ UNCHANGED waiting
    <3>1. SendsLatest(e)
      BY <1>0, <1>1, <2>1, <2>2, TransmitLatest
    <3> QED BY <1>0, <2>1, <2>2, <3>1 DEF Latest
  <2>3. CASE waiting' = [waiting EXCEPT ![e] = sent[e] + 1] /\ UNCHANGED up
    BY <1>0, <2>1, <2>3 DEF Latest, SendsLatest
  <2> QED BY <1>3, <2>2, <2>3 DEF LINK_send_ed
<1>4. CASE ed_process_ack(e)
  <2>1. UNCHANGED <<waiting, sent>>
    BY <1>4 DEF ed_process_ack
  <2>2. CASE /\ ~ed_tx_buffer[e].empty
             /\ ed_tx_buffer' =
                  [ed_tx_buffer EXCEPT ![e] =
                     InUse(COMMIT_SENT, Later(timer_counter[e], 2), MaxRetries, @.msg)]
             /\ up' = Transmit(up, e, CommitPacket(ed_tx_buffer[e].msg))
    <3>1. ed_tx_buffer'[e].msg = ed_tx_buffer[e].msg
      BY <1>0, <2>2 DEF InUse
    <3>2. SendsLatest(e)
      BY <1>0, <1>1, <2>1, <2>2, TransmitLatest DEF Latest
    <3> QED BY <1>0, <2>1, <2>2, <3>1, <3>2 DEF Latest
  <2>3. CASE UNCHANGED <<ed_tx_buffer, up>>
    BY <1>0, <2>1, <2>3 DEF Latest, SendsLatest
  <2> QED BY <1>4, <2>2, <2>3 DEF ed_process_ack
<1>5. CASE ed_process_busy(e)
  <2>1. UNCHANGED <<waiting, sent, up>>
    BY <1>5 DEF ed_process_busy
  <2>2. /\ ed_tx_buffer'[e].msg = ed_tx_buffer[e].msg
        /\ ed_tx_buffer'[e].empty => ed_tx_buffer[e].empty
        /\ ed_tx_buffer[e].empty => ed_tx_buffer'[e].empty
    BY <1>0, <1>5 DEF ed_process_busy, InUse
  <2> QED BY <1>0, <2>1, <2>2 DEF Latest, SendsLatest
<1>6. CASE ed_process_commit_ack(e)
  BY <1>0, <1>2, <1>6 DEF ed_process_commit_ack, Latest, SendsLatest
<1>7. CASE PHY_timer_interrupt(e)
  <2>1. UNCHANGED <<waiting, sent>> /\ check_buffers_state(e)
    BY <1>7 DEF PHY_timer_interrupt
  <2>2. CASE UNCHANGED <<ed_tx_buffer, up>>
    BY <1>0, <2>1, <2>2 DEF Latest, SendsLatest
  <2>3. CASE ed_tx_buffer' = [ed_tx_buffer EXCEPT ![e] = EmptyTx] /\ UNCHANGED up
    BY <1>0, <1>2, <2>1, <2>3 DEF Latest, SendsLatest
  <2>4. CASE /\ Due(e)
             /\ ed_tx_buffer' = [ed_tx_buffer EXCEPT ![e] = Rescheduled(e, @)]
             /\ up' = Transmit(up, e, Resent(ed_tx_buffer[e]))
    <3>1. ed_tx_buffer'[e].msg = ed_tx_buffer[e].msg /\ ~ed_tx_buffer[e].empty
      BY <1>0, <2>4 DEF Rescheduled, InUse, Due
    <3>2. /\ Resent(ed_tx_buffer[e]) \in UpPacket
          /\ Resent(ed_tx_buffer[e]).msg = ed_tx_buffer[e].msg
      BY <1>0, <1>1 DEF Resent
    <3>3. SendsLatest(e)
      BY <1>0, <2>1, <2>4, <3>1, <3>2, TransmitLatest DEF Latest
    <3> QED BY <1>0, <2>1, <3>1, <3>3 DEF Latest
  <2> QED BY <2>1, <2>2, <2>3, <2>4 DEF check_buffers_state
<1>8. CASE LINK_init(e)
  BY <1>0, <1>2, <1>8 DEF LINK_init, Latest, SendsLatest
<1>9. CASE Lose(e)
  <2>1. up'[e] = up[e] \/ (up[e] # <<>> /\ up'[e] = Tail(up[e]))
    BY <1>0, <1>9 DEF Lose, Consume
  <2> QED BY <1>0, <1>9, <2>1 DEF Lose, Latest, SendsLatest
<1>10. CASE PHY_send_with_cca(e)
  <2>1. /\ waiting[e] # 0 /\ waiting'[e] = 0
        /\ up' = Transmit(up, e, DataPacket(waiting[e]))
        /\ UNCHANGED <<ed_tx_buffer, sent>>
    BY <1>0, <1>10 DEF PHY_send_with_cca
  <2>2. SendsLatest(e)
    BY <1>0, <1>1, <2>1, TransmitLatest DEF Latest
  <2> QED BY <1>0, <2>1, <2>2 DEF Latest
<1> QED BY <1>3, <1>4, <1>5, <1>6, <1>7, <1>8, <1>9, <1>10 DEF EdNext

(* A step of a device keeps its payloads in order.                         *)
LEMMA EdStepAged ==
  ASSUME TypeOK, NEW e \in Ed, EdNext(e), UNCHANGED <<rx_buffer, log>>, Aged(e)
  PROVE  Aged(e)'
<1> DEFINE s == up[e]
           t == up'[e]
<1>1. /\ s \in Seq(UpPacket) /\ sent[e] \in Nat /\ Ascends(s, sent[e])
      /\ log[e] \in Seq(Nat) /\ Latest(e) /\ EdTypeOK
  BY DEF TypeOK, EdTypeOK, Aged
<1>2. Latest(e)' /\ SendsLatest(e) /\ sent'[e] \in Nat /\ sent'[e] >= sent[e]
  BY <1>1, EdStepLatest
<1>3. Ascends(t, sent'[e]) /\ \A m \in 0..sent[e] : From(s, m) => From(t, m)
  <2>1. CASE t = s
    BY <1>1, <1>2, <2>1 DEF Ascends
  <2>2. CASE s # <<>> /\ t = Tail(s)
    <3>1. Ascends(t, sent[e]) /\ t \in Seq(UpPacket)
      BY <1>1, <2>2, AscendsTail
    <3>2. ASSUME NEW i \in 1..Len(t)  PROVE  t[i].msg \in 1..sent'[e]
      <4>1. t[i].msg \in 1..sent[e]
        BY <3>1 DEF Ascends
      <4> QED BY <1>1, <1>2, <4>1
    <3>3. Ascends(t, sent'[e])
      BY <3>1, <3>2 DEF Ascends
    <3> QED BY <1>1, <2>2, <3>3, AscendsTail
  <2>3. ASSUME NEW p \in UpPacket, t = Append(s, p), p.msg = sent'[e], sent'[e] > 0
        PROVE  Ascends(t, sent'[e]) /\ \A m \in 0..sent[e] : From(s, m) => From(t, m)
    BY <1>1, <1>2, <2>3, AscendsAppend
  <2> QED BY <1>2, <2>1, <2>2, <2>3 DEF SendsLatest
<1> HIDE DEF s, t
<1>4. SlotsOf(e)' = SlotsOf(e)
  BY DEF SlotsOf
<1>5. \A n \in 1..sent[e] : n \in 1..sent'[e] /\ n \in 0..sent[e]
  BY <1>1, <1>2
<1>6. \A i \in SlotsOf(e)' : /\ rx_buffer'[i].msg \in 1..sent'[e]
                             /\ From(up'[e], rx_buffer'[i].msg)
  BY <1>3, <1>4, <1>5 DEF Aged, s, t
<1>7. \A k \in 1..Len(log'[e]) :
        /\ log'[e][k] \in 1..sent'[e]
        /\ From(up'[e], log'[e][k])
        /\ \A i \in SlotsOf(e)' : log'[e][k] <= rx_buffer'[i].msg
  BY <1>3, <1>4, <1>5 DEF Aged, s, t
<1>8. \A j, k \in 1..Len(log'[e]) : j <= k => log'[e][j] <= log'[e][k]
  BY DEF Aged
<1> QED BY <1>2, <1>3, <1>6, <1>7, <1>8 DEF Aged, t

(* What the coordinator receives from one device leaves the others alone.  *)
LEMMA AgedFrame ==
  ASSUME NEW e \in Ed, Aged(e),
         ed_tx_buffer'[e] = ed_tx_buffer[e], waiting'[e] = waiting[e],
         sent'[e] = sent[e], up'[e] = up[e], log'[e] = log[e],
         \A i \in SlotsOf(e)' : i \in SlotsOf(e) /\ rx_buffer'[i] = rx_buffer[i]
  PROVE  Aged(e)'
<1>1. Latest(e)'
  BY DEF Aged, Latest
<1> QED BY <1>1 DEF Aged

LEMMA CommitFrame ==
  ASSUME TypeOK, NEW e \in Ed, NEW i \in Slot,
         rx_buffer' = [rx_buffer EXCEPT ![i] = EmptyRx], NEW f \in Ed
  PROVE  \A j \in SlotsOf(f)' : j # i /\ j \in SlotsOf(f) /\ rx_buffer'[j] = rx_buffer[j]
<1>1. rx_buffer'[i].empty /\ \A j \in Slot \ {i} : rx_buffer'[j] = rx_buffer[j]
  BY DEF TypeOK, EmptyRx
<1> QED BY <1>1 DEF SlotsOf

(* A step of the coordinator on a packet of e keeps the payloads of e in   *)
(* order.                                                                  *)
LEMMA RouterStepAged ==
  ASSUME TypeOK, OneSlotPerSender, NEW e \in Ed, Aged(e),
         DataAgain(e) \/ DataNew(e) \/ Commit(e)
  PROVE  Aged(e)'
<1> DEFINE s == up[e]
           h == Head(s).msg
<1>1. /\ s \in Seq(UpPacket) /\ sent[e] \in Nat /\ Ascends(s, sent[e])
      /\ log[e] \in Seq(Nat) /\ rx_buffer \in [Slot -> RxRecord]
      /\ up \in [Ed -> Seq(UpPacket)] /\ log \in [Ed -> Seq(Nat)]
  BY DEF TypeOK, EdTypeOK, Aged
<1>2. /\ s # <<>> /\ up' = Consume(up, e)
      /\ UNCHANGED <<ed_tx_buffer, waiting, timer_counter, sent, done>>
  BY DEF DataAgain, DataNew, Commit, Receives
<1>3. up'[e] = Tail(s)
  BY <1>1, <1>2 DEF Consume
<1>4. Latest(e)'
  BY <1>2 DEF Aged, Latest
<1>5. /\ Ascends(up'[e], sent[e]) /\ h \in 1..sent[e] /\ From(up'[e], h)
      /\ \A m \in Nat : From(s, m) => From(up'[e], m) /\ m <= h
  BY <1>1, <1>2, <1>3, AscendsTail
<1>6. \A n \in 1..sent[e] : n \in Nat
  OBVIOUS
<1>7. /\ \A i \in SlotsOf(e) : /\ rx_buffer[i].msg \in 1..sent[e]
                               /\ From(up'[e], rx_buffer[i].msg)
      /\ \A j, k \in 1..Len(log[e]) : j <= k => log[e][j] <= log[e][k]
      /\ \A k \in 1..Len(log[e]) :
           /\ log[e][k] \in 1..sent[e]
           /\ From(up'[e], log[e][k]) /\ log[e][k] <= h
           /\ \A i \in SlotsOf(e) : log[e][k] <= rx_buffer[i].msg
  BY <1>5, <1>6 DEF Aged
<1> HIDE DEF s, h
<1>8. CASE UNCHANGED <<rx_buffer, log>>
  BY <1>2, <1>4, <1>5, <1>7, <1>8 DEF Aged, SlotsOf
<1>9. CASE DataNew(e) /\ Store(e)
  <2>1. PICK i \in Slot : rx_buffer' = [rx_buffer EXCEPT ![i] =
                            [empty |-> FALSE, ed |-> e, msg |-> h]]
    BY <1>9 DEF Store, h, s
  <2>2. SlotsOf(e) = {} /\ log' = log
    BY <1>9 DEF DataNew
  <2>3. rx_buffer'[i].msg = h /\ \A j \in Slot \ {i} : rx_buffer'[j] = rx_buffer[j]
    BY <1>1, <2>1
  <2>4. \A j \in SlotsOf(e)' : rx_buffer'[j].msg = h
    BY <2>2, <2>3 DEF SlotsOf
  <2> QED BY <1>2, <1>4, <1>5, <1>7, <2>2, <2>4 DEF Aged
<1>10. ASSUME NEW i \in Slot, First(i, SlotsOf(e)),
              log' = [log EXCEPT ![e] = Append(@, rx_buffer[i].msg)],
              rx_buffer' = [rx_buffer EXCEPT ![i] = EmptyRx]
       PROVE  Aged(e)'
  <2> DEFINE m == rx_buffer[i].msg
             l == log[e]
             l2 == log'[e]
  <2>1. i \in SlotsOf(e)
    BY <1>10 DEF First
  <2>2. SlotsOf(e)' = {}
    <3>1. \A j \in SlotsOf(e)' : j # i /\ j \in SlotsOf(e)
      BY <1>10, CommitFrame
    <3>2. \A j \in SlotsOf(e) : j = i
      BY <2>1 DEF SlotsOf, OneSlotPerSender
    <3> QED BY <3>1, <3>2
  <2>3. m \in 1..sent[e] /\ From(up'[e], m) /\ m \in Nat
    BY <1>7, <2>1
  <2>4. l2 = Append(l, m)
    BY <1>1, <1>10
  <2>5. Len(l2) = Len(l) + 1 /\ Len(l) \in Nat /\ l2[Len(l2)] = m
    BY <1>1, <2>3, <2>4
  <2>6. \A k \in 1..Len(l) : l2[k] = l[k]
    BY <1>1, <2>3, <2>4
  <2>7. \A k \in 1..Len(l2) : k = Len(l2) \/ k \in 1..Len(l)
    BY <2>5
  <2>8. \A k \in 1..Len(l) : l[k] \in 1..sent[e] /\ From(up'[e], l[k]) /\ l[k] <= m
    BY <1>7, <2>1
  <2>9. \A j, k \in 1..Len(l) : j <= k => l[j] <= l[k]
    BY <1>7
  <2> HIDE DEF m, l, l2
  <2>10. \A k \in 1..Len(l2) : l2[k] \in 1..sent[e] /\ From(up'[e], l2[k]) /\ l2[k] <= m
    BY <2>3, <2>5, <2>6, <2>7, <2>8
  <2>11. \A j, k \in 1..Len(l2) : j <= k => l2[j] <= l2[k]
    <3> SUFFICES ASSUME NEW j \in 1..Len(l2), NEW k \in 1..Len(l2), j <= k
                 PROVE  l2[j] <= l2[k]
      OBVIOUS
    <3>1. CASE k = Len(l2)
      BY <2>5, <2>10, <3>1
    <3>2. CASE k \in 1..Len(l)
      <4>1. j \in 1..Len(l)
        BY <2>5, <3>2
      <4> QED BY <2>6, <2>9, <3>2, <4>1
    <3> QED BY <2>7, <3>1, <3>2
  <2> QED BY <1>2, <1>4, <1>5, <2>2, <2>10, <2>11 DEF Aged, l2
<1>11. CASE DataAgain(e)
  BY <1>8, <1>11 DEF DataAgain
<1>12. CASE DataNew(e)
  BY <1>8, <1>9, <1>12 DEF DataNew
<1>13. CASE Commit(e)
  BY <1>8, <1>10, <1>13 DEF Commit
<1> QED BY <1>11, <1>12, <1>13

LEMMA StepAged ==
  ASSUME TypeOK, OneSlotPerSender, [Next]_vars, NEW f \in Ed, Aged(f)
  PROVE  Aged(f)'
<1>0. /\ rx_buffer \in [Slot -> RxRecord] /\ log \in [Ed -> Seq(Nat)]
      /\ up \in [Ed -> Seq(UpPacket)] /\ EdTypeOK
  BY DEF TypeOK, EdTypeOK
<1>1. CASE UNCHANGED vars
  BY <1>1 DEF vars, edVars, Aged, Latest, SlotsOf
<1>2. CASE Restart
  <2>1. SlotsOf(f)' = {}
    BY <1>2 DEF Restart, SlotsOf, EmptyRx
  <2> QED BY <1>2, <2>1, AgedFrame DEF Restart, edVars
<1>3. ASSUME NEW e \in Ed, EdNext(e) /\ UNCHANGED <<rx_buffer, log, restarts>>
      PROVE  Aged(f)'
  <2>1. CASE e = f
    BY <1>3, <2>1, EdStepAged
  <2>2. CASE e # f
    <3>1. /\ ed_tx_buffer'[f] = ed_tx_buffer[f] /\ waiting'[f] = waiting[f]
          /\ sent'[f] = sent[f] /\ up'[f] = up[f]
      BY <1>0, <1>3, <2>2, EdStepFrame
    <3>2. log'[f] = log[f] /\ SlotsOf(f)' = SlotsOf(f) /\ rx_buffer' = rx_buffer
      BY <1>3 DEF SlotsOf
    <3> QED BY <3>1, <3>2, AgedFrame
  <2> QED BY <2>1, <2>2
<1>4. ASSUME NEW e \in Ed, DataAgain(e) \/ DataNew(e) \/ Commit(e)
      PROVE  Aged(f)'
  <2>1. CASE e = f
    BY <1>4, <2>1, RouterStepAged
  <2>2. CASE e # f
    <3>1. /\ up' = Consume(up, e)
          /\ UNCHANGED <<ed_tx_buffer, waiting, timer_counter, sent, done>>
      BY <1>4 DEF DataAgain, DataNew, Commit, Receives
    <3>2. up'[f] = up[f]
      BY <1>0, <2>2, <3>1 DEF Consume
    <3>3. /\ log'[f] = log[f]
          /\ \A j \in SlotsOf(f)' : j \in SlotsOf(f) /\ rx_buffer'[j] = rx_buffer[j]
      <4>1. CASE UNCHANGED <<rx_buffer, log>>
        BY <4>1 DEF SlotsOf
      <4>2. ASSUME NEW i \in Slot,
                   log' = [log EXCEPT ![e] = Append(@, rx_buffer[i].msg)],
                   rx_buffer' = [rx_buffer EXCEPT ![i] = EmptyRx]
            PROVE  /\ log'[f] = log[f]
                   /\ \A j \in SlotsOf(f)' : /\ j \in SlotsOf(f)
                                             /\ rx_buffer'[j] = rx_buffer[j]
        <5>1. log'[f] = log[f]
          BY <1>0, <2>2, <4>2
        <5> QED BY <4>2, <5>1, CommitFrame
      <4>3. ASSUME NEW i \in Slot, UNCHANGED log,
                   rx_buffer' = [rx_buffer EXCEPT ![i] =
                     [empty |-> FALSE, ed |-> e, msg |-> Head(up[e]).msg]]
            PROVE  /\ log'[f] = log[f]
                   /\ \A j \in SlotsOf(f)' : /\ j \in SlotsOf(f)
                                             /\ rx_buffer'[j] = rx_buffer[j]
        <5>1. rx_buffer'[i].ed = e /\ \A j \in Slot \ {i} : rx_buffer'[j] = rx_buffer[j]
          BY <1>0, <4>3
        <5> QED BY <2>2, <4>3, <5>1 DEF SlotsOf
      <4>4. CASE DataAgain(e)
        BY <4>1, <4>4 DEF DataAgain
      <4>5. CASE DataNew(e)
        BY <4>1, <4>3, <4>5 DEF DataNew, Store
      <4>6. CASE Commit(e)
        BY <4>1, <4>2, <4>6 DEF Commit
      <4> QED BY <1>4, <4>4, <4>5, <4>6
    <3> QED BY <3>1, <3>2, <3>3, AgedFrame
  <2> QED BY <2>1, <2>2
<1> QED BY <1>1, <1>2, <1>3, <1>4 DEF Next

AgedInv == \A e \in Ed : Aged(e)

(* The ages of payloads are in order in every reachable state.             *)
LEMMA AgedInvariant == Spec => []AgedInv
<1>1. Init => AgedInv
  <2> SUFFICES ASSUME Init, NEW e \in Ed PROVE Aged(e)
    BY DEF AgedInv
  <2>1. up[e] = <<>> /\ log[e] = <<>> /\ SlotsOf(e) = {} /\ Latest(e)
    BY DEF Init, EdInit, SlotsOf, EmptyRx, Latest, EmptyTx
  <2>2. Len(up[e]) = 0 /\ Len(log[e]) = 0
    BY <2>1
  <2> QED BY <2>1, <2>2 DEF Aged, Ascends
<1>2. TypeOK /\ OneSlotPerSender /\ AgedInv /\ [Next]_vars => AgedInv'
  BY StepAged DEF AgedInv
<1> QED BY <1>1, <1>2, TypeCorrect, SlotsCorrect, PTL DEF Spec

(* The coordinator's network layer gets payloads that the device submitted *)
(* and never an older one after a newer one, also when interrupts come     *)
(* while LINK_send_ed waits for the air and DATA of a transfer that is     *)
(* over are sent after all.                                                *)
THEOREM OrderCorrect == Spec => []InOrder
<1>1. TypeOK /\ AgedInv => InOrder
  <2> SUFFICES ASSUME TypeOK, AgedInv PROVE InOrder
    OBVIOUS
  <2>1. \A e \in Ed : DOMAIN log[e] = 1..Len(log[e])
    BY DEF TypeOK
  <2> QED BY <2>1 DEF AgedInv, Aged, InOrder
<1> QED BY <1>1, TypeCorrect, AgedInvariant, PTL

-----------------------------------------------------------------------------
(* What an acknowledgement is worth.                                       *)

(* All that is left of the payloads of the device is of its present one.   *)
Present(f) ==
  /\ \A i \in 1..Len(up[f]) : up[f][i].msg = sent[f]
  /\ \A i \in SlotsOf(f) : rx_buffer[i].msg = sent[f]

CommitOut(f)    == \E i \in 1..Len(up[f]) : up[f][i].type = "COMMIT"
CommitAckOut(f) == \E i \in DOMAIN down[f] : down[f][i] = "COMMIT_ACK"

FreshWord(f) ==
  /\ Present(f)
  /\ AckOut(f) \/ CommitOut(f) => Kept(f)
  /\ CommitAckOut(f) \/ sent[f] \in done[f] => HandedOver(f)

FreshInv ==
  \A f \in Ed : done[f] \subseteq 0..sent[f] /\ (fresh[f] => FreshWord(f))

LEMMA WordFrame ==
  ASSUME NEW f \in Ed, FreshWord(f),
         up'[f] = up[f], down'[f] = down[f], ed_tx_buffer'[f] = ed_tx_buffer[f],
         sent'[f] = sent[f], done'[f] = done[f], log'[f] = log[f],
         SlotsOf(f)' = SlotsOf(f), \A i \in SlotsOf(f) : rx_buffer'[i] = rx_buffer[i]
  PROVE  FreshWord(f)'
<1>1. Kept(f)' <=> Kept(f)
  BY DEF Kept, HandedOver
<1>2. HandedOver(f)' <=> HandedOver(f)
  BY DEF HandedOver
<1>3. Present(f)'
  BY DEF FreshWord, Present
<1>4. /\ AckOut(f)' <=> AckOut(f)
      /\ CommitOut(f)' <=> CommitOut(f)
      /\ CommitAckOut(f)' <=> CommitAckOut(f)
  BY DEF AckOut, CommitOut, CommitAckOut
<1> QED BY <1>1, <1>2, <1>3, <1>4 DEF FreshWord

(* Only a COMMIT ACK reports a payload, only LINK_send_ed submits one.     *)
LEMMA EdStepDone ==
  ASSUME EdTypeOK, NEW e \in Ed, EdNext(e), NEW f \in Ed
  PROVE  /\ \/ done'[f] = done[f]
            \/ /\ f = e /\ ed_process_commit_ack(e) /\ sent' = sent
               /\ done'[f] = done[f] \cup {sent[f]}
         /\ sent'[f] = sent[f] \/ (f = e /\ LINK_send_ed(e) /\ done' = done)
<1> USE DEF EdTypeOK
<1>1. CASE LINK_send_ed(e)
  BY <1>1 DEF LINK_send_ed
<1>2. CASE ed_process_ack(e)
  BY <1>2 DEF ed_process_ack
<1>3. CASE ed_process_busy(e)
  BY <1>3 DEF ed_process_busy
<1>4. CASE ed_process_commit_ack(e)
  <2>1. sent' = sent /\ done' = [done EXCEPT ![e] = @ \cup {sent[e]}]
    BY <1>4 DEF ed_process_commit_ack
  <2> QED BY <1>4, <2>1
<1>5. CASE PHY_timer_interrupt(e)
  BY <1>5 DEF PHY_timer_interrupt
<1>6. CASE LINK_init(e)
  BY <1>6 DEF LINK_init
<1>7. CASE Lose(e)
  BY <1>7 DEF Lose
<1>8. CASE PHY_send_with_cca(e)
  BY <1>8 DEF PHY_send_with_cca
<1> QED BY <1>1, <1>2, <1>3, <1>4, <1>5, <1>6, <1>7, <1>8 DEF EdNext

(* A COMMIT is sent by a device that has the coordinator's word.           *)
LEMMA EdStepCommit ==
  ASSUME EdTypeOK, NEW e \in Ed, EdNext(e), CommitOut(e)'
  PROVE  CommitOut(e) \/ AckOut(e)
<1>0. /\ up \in [Ed -> Seq(UpPacket)] /\ down \in [Ed -> Seq(DownPacket)]
      /\ up[e] \in Seq(UpPacket)
      /\ \A n \in Nat : /\ DataPacket(n) \in UpPacket /\ DataPacket(n).type # "COMMIT"
                        /\ CommitPacket(n) \in UpPacket
      /\ sent[e] \in Nat /\ waiting[e] \in Nat /\ ed_tx_buffer[e].msg \in Nat
  BY DEF EdTypeOK, TxRecord, UpPacket, DataPacket, CommitPacket
<1>1. CASE up'[e] = up[e]
  BY <1>1 DEF CommitOut
<1>2. CASE up[e] # <<>> /\ up'[e] = Tail(up[e])
  <2>1. PICK i \in 1..Len(Tail(up[e])) : Tail(up[e])[i].type = "COMMIT"
    BY <1>2 DEF CommitOut
  <2>2. i + 1 \in 1..Len(up[e]) /\ up[e][i + 1].type = "COMMIT"
    BY <1>0, <1>2, <2>1
  <2> QED BY <2>2 DEF CommitOut
<1>3. ASSUME NEW p \in UpPacket, up' = Transmit(up, e, p), p.type # "COMMIT"
      PROVE  CommitOut(e) \/ AckOut(e)
  <2>1. CASE up'[e] = Append(up[e], p)
    <3>1. PICK i \in 1..Len(Append(up[e], p)) : Append(up[e], p)[i].type = "COMMIT"
      BY <2>1 DEF CommitOut
    <3>2. i \in 1..Len(up[e]) /\ up[e][i].type = "COMMIT"
      BY <1>0, <1>3, <3>1
    <3> QED BY <3>2 DEF CommitOut
  <2> QED BY <1>0, <1>1, <1>3, <2>1 DEF Transmit
<1>4. CASE LINK_send_ed(e)
  <2>1. DataPacket(sent[e] + 1) \in UpPacket /\ DataPacket(sent[e] + 1).type # "COMMIT"
    BY <1>0
  <2> QED BY <1>1, <1>3, <1>4, <2>1 DEF LINK_send_ed
<1>5. CASE PHY_send_with_cca(e)
  BY <1>0, <1>3, <1>5 DEF PHY_send_with_cca
<1>6. CASE ed_process_ack(e)
  <2>1. down[e] # <<>> /\ Head(down[e]) = "ACK" /\ down[e] \in Seq(DownPacket)
    BY <1>0, <1>6 DEF ed_process_ack, EdReceives
  <2>2. 1 \in DOMAIN down[e] /\ down[e][1] = "ACK"
    BY <2>1
  <2> QED BY <2>2 DEF AckOut
<1>7. CASE PHY_timer_interrupt(e)
  <2>1. CASE up' = up
    BY <1>1, <2>1
  <2>2. CASE up' = Transmit(up, e, Resent(ed_tx_buffer[e]))
    <3>1. CASE ed_tx_buffer[e].state = COMMIT_SENT
      BY <3>1 DEF AckOut
    <3>2. CASE ed_tx_buffer[e].state # COMMIT_SENT
      BY <1>0, <1>3, <2>2, <3>2 DEF Resent
    <3> QED BY <3>1, <3>2
  <2> QED BY <1>7, <2>1, <2>2 DEF PHY_timer_interrupt, check_buffers_state
<1>8. CASE ed_process_busy(e) \/ ed_process_commit_ack(e) \/ LINK_init(e)
  BY <1>1, <1>8 DEF ed_process_busy, ed_process_commit_ack, LINK_init
<1>9. CASE Lose(e)
  <2>1. up'[e] = up[e] \/ (up[e] # <<>> /\ up'[e] = Tail(up[e]))
    BY <1>0, <1>9 DEF Lose, Consume
  <2> QED BY <1>1, <1>2, <2>1
<1> QED BY <1>4, <1>5, <1>6, <1>7, <1>8, <1>9 DEF EdNext

(* A device takes from the channel to it and adds nothing.                 *)
LEMMA EdStepDown ==
  ASSUME EdTypeOK, NEW e \in Ed, EdNext(e), CommitAckOut(e)'
  PROVE  CommitAckOut(e)
<1>0. down \in [Ed -> Seq(DownPacket)] /\ down[e] \in Seq(DownPacket)
  BY DEF EdTypeOK
<1>1. down'[e] = down[e] \/ (down[e] # <<>> /\ down'[e] = Tail(down[e]))
  BY <1>0 DEF EdNext, LINK_send_ed, PHY_send_with_cca, ed_process_ack, ed_process_busy,
              ed_process_commit_ack, PHY_timer_interrupt, LINK_init, Lose, EdReceives, Consume
<1>2. CASE down[e] # <<>> /\ down'[e] = Tail(down[e])
  <2>1. PICK i \in 1..Len(Tail(down[e])) : Tail(down[e])[i] = "COMMIT_ACK"
    BY <1>0, <1>2 DEF CommitAckOut
  <2>2. i + 1 \in 1..Len(down[e]) /\ down[e][i + 1] = "COMMIT_ACK"
    BY <1>0, <1>2, <2>1
  <2> QED BY <1>0, <2>2 DEF CommitAckOut
<1> QED BY <1>1, <1>2 DEF CommitAckOut

(* A step of a device within a transfer.                                   *)
LEMMA EdStepWord ==
  ASSUME EdTypeOK, NEW e \in Ed, EdNext(e), Latest(e), UNCHANGED <<rx_buffer, log>>,
         sent'[e] = sent[e], FreshWord(e)
  PROVE  FreshWord(e)'
<1>0. up[e] \in Seq(UpPacket) /\ down[e] \in Seq(DownPacket)
  BY DEF EdTypeOK
<1>1. SendsLatest(e)
  BY EdStepLatest
<1>2. /\ SlotsOf(e)' = SlotsOf(e)
      /\ Kept(e)' <=> Kept(e)
      /\ HandedOver(e)' <=> HandedOver(e)
  BY DEF SlotsOf, Kept, HandedOver
<1>3. \A i \in 1..Len(up'[e]) : up'[e][i].msg = sent[e]
  <2>1. \A i \in 1..Len(up[e]) : up[e][i].msg = sent[e]
    BY DEF FreshWord, Present
  <2>2. CASE up[e] # <<>> /\ up'[e] = Tail(up[e])
    <3>1. \A i \in 1..Len(Tail(up[e])) : Tail(up[e])[i] = up[e][i + 1] /\ i + 1 \in 1..Len(up[e])
      BY <1>0, <2>2
    <3> QED BY <2>1, <2>2, <3>1
  <2>3. ASSUME NEW p \in UpPacket, up'[e] = Append(up[e], p), p.msg = sent[e]
        PROVE  \A i \in 1..Len(up'[e]) : up'[e][i].msg = sent[e]
    BY <1>0, <2>1, <2>3
  <2> QED BY <1>1, <2>1, <2>2, <2>3 DEF SendsLatest
<1>4. Present(e)'
  BY <1>2, <1>3 DEF Present, FreshWord
<1>5. AckOut(e)' \/ CommitOut(e)' => Kept(e)'
  BY <1>2, EdStepAck, EdStepCommit DEF FreshWord
<1>6. CommitAckOut(e)' \/ sent'[e] \in done'[e] => HandedOver(e)'
  <2>1. CASE CommitAckOut(e)'
    BY <1>2, <2>1, EdStepDown DEF FreshWord
  <2>2. CASE done'[e] = done[e]
    BY <1>2, <2>1, <2>2 DEF FreshWord
  <2>3. CASE ed_process_commit_ack(e)
    <3>1. down[e] # <<>> /\ Head(down[e]) = "COMMIT_ACK"
      BY <2>3 DEF ed_process_commit_ack, EdReceives
    <3>2. 1 \in DOMAIN down[e] /\ down[e][1] = "COMMIT_ACK"
      BY <1>0, <3>1
    <3>3. CommitAckOut(e)
      BY <3>2 DEF CommitAckOut
    <3> QED BY <1>2, <3>3 DEF FreshWord
  <2> QED BY <2>2, <2>3, EdStepDone
<1> QED BY <1>4, <1>5, <1>6 DEF FreshWord

(* The first step of a fresh transfer.                                     *)
LEMMA SendWord ==
  ASSUME TypeOK, NEW e \in Ed, LINK_send_ed(e), UNCHANGED <<rx_buffer, log>>,
         NothingLeft(e), done[e] \subseteq 0..sent[e]
  PROVE  FreshWord(e)'
<1>0. /\ up \in [Ed -> Seq(UpPacket)] /\ sent \in [Ed -> Nat] /\ sent[e] \in Nat
      /\ ed_tx_buffer \in [Ed -> TxRecord] /\ DATA_SENT # COMMIT_SENT
      /\ up[e] = <<>> /\ down[e] = <<>> /\ SlotsOf(e) = {}
  BY DEF TypeOK, EdTypeOK, DATA_SENT, COMMIT_SENT, NothingLeft
<1>1. /\ sent'[e] = sent[e] + 1 /\ down' = down /\ done' = done
      /\ ed_tx_buffer'[e].state = DATA_SENT
  BY <1>0 DEF LINK_send_ed, InUse
<1>2. up'[e] = <<>> \/ up'[e] = <<DataPacket(sent[e] + 1)>>
  BY <1>0 DEF LINK_send_ed, Transmit
<1>3. SlotsOf(e)' = {}
  BY <1>0 DEF SlotsOf
<1>4. \A i \in 1..Len(up'[e]) : up'[e][i].msg = sent'[e] /\ up'[e][i].type = "DATA"
  <2>1. CASE up'[e] = <<>>
    BY <2>1
  <2>2. CASE up'[e] = <<DataPacket(sent[e] + 1)>>
    BY <1>1, <2>2 DEF DataPacket
  <2> QED BY <1>2, <2>1, <2>2
<1>5. DOMAIN down'[e] = {}
  BY <1>0, <1>1
<1>6. ~AckOut(e)' /\ ~CommitOut(e)' /\ ~CommitAckOut(e)'
  BY <1>0, <1>1, <1>4, <1>5 DEF AckOut, CommitOut, CommitAckOut
<1>7. sent'[e] \notin done'[e]
  BY <1>0, <1>1
<1> QED BY <1>3, <1>4, <1>6, <1>7 DEF FreshWord, Present

(* A packet sent on the channel to e, and the oldest one taken from e.     *)
LEMMA ReceivedWord ==
  ASSUME EdTypeOK, NEW e \in Ed, NEW type, Receives(e, type), Present(e),
         NEW p \in DownPacket, down' = Transmit(down, e, p)
  PROVE  /\ \A i \in 1..Len(up'[e]) : up'[e][i].msg = sent[e]
         /\ Head(up[e]).msg = sent[e]
         /\ CommitOut(e)' => CommitOut(e)
         /\ type = "COMMIT" => CommitOut(e)
         /\ AckOut(e)' => AckOut(e) \/ p = "ACK"
         /\ CommitAckOut(e)' => CommitAckOut(e) \/ p = "COMMIT_ACK"
         /\ UNCHANGED <<ed_tx_buffer, sent, done>>
<1>0. /\ up[e] \in Seq(UpPacket) /\ down[e] \in Seq(DownPacket)
      /\ down \in [Ed -> Seq(DownPacket)] /\ up[e] # <<>> /\ Head(up[e]).type = type
      /\ UNCHANGED <<ed_tx_buffer, sent, done>>
  BY DEF EdTypeOK, Receives
<1>1. up'[e] = Tail(up[e])
  BY ReceivesFrame
<1>2. \A i \in 1..Len(Tail(up[e])) : Tail(up[e])[i] = up[e][i + 1] /\ i + 1 \in 1..Len(up[e])
  BY <1>0
<1>3. Head(up[e]) = up[e][1] /\ 1 \in 1..Len(up[e])
  BY <1>0
<1>4. /\ \A i \in 1..Len(up'[e]) : up'[e][i].msg = sent[e]
      /\ Head(up[e]).msg = sent[e]
  BY <1>1, <1>2, <1>3 DEF Present
<1>5. /\ CommitOut(e)' => CommitOut(e)
      /\ type = "COMMIT" => CommitOut(e)
  BY <1>0, <1>1, <1>2, <1>3 DEF CommitOut
<1>6. \A i \in DOMAIN down'[e] : down'[e][i] = p \/ (i \in DOMAIN down[e] /\ down'[e][i] = down[e][i])
  <2>1. CASE down'[e] = down[e]
    BY <2>1
  <2>2. CASE down'[e] = Append(down[e], p)
    BY <1>0, <2>2
  <2> QED BY <1>0, <2>1, <2>2 DEF Transmit
<1>7. AckOut(e)' => AckOut(e) \/ p = "ACK"
  BY <1>0, <1>6 DEF AckOut
<1>8. CommitAckOut(e)' => CommitAckOut(e) \/ p = "COMMIT_ACK"
  BY <1>6 DEF CommitAckOut
<1> QED BY <1>0, <1>4, <1>5, <1>7, <1>8

(* A step of the coordinator on a packet of the device.                    *)
LEMMA RouterStepWord ==
  ASSUME TypeOK, NEW e \in Ed, FreshWord(e), DataAgain(e) \/ DataNew(e) \/ Commit(e)
  PROVE  FreshWord(e)'
<1>0. /\ rx_buffer \in [Slot -> RxRecord] /\ log \in [Ed -> Seq(Nat)] /\ EdTypeOK
      /\ Present(e)
      /\ {"ACK", "BUSY", "COMMIT_ACK"} \subseteq DownPacket
      /\ log[e] \in Seq(Nat)
  BY DEF TypeOK, FreshWord, DownPacket
<1>1. CASE DataAgain(e)
  <2>1. Kept(e)
    BY <1>0, <1>1 DEF DataAgain, Kept, Present
  <2>2. /\ Receives(e, "DATA") /\ "ACK" \in DownPacket /\ down' = Transmit(down, e, "ACK")
        /\ UNCHANGED <<rx_buffer, log>>
    BY <1>0, <1>1 DEF DataAgain
  <2>3. /\ \A i \in 1..Len(up'[e]) : up'[e][i].msg = sent[e]
        /\ CommitAckOut(e)' => CommitAckOut(e)
        /\ UNCHANGED <<ed_tx_buffer, sent, done>>
    BY <1>0, <2>2, ReceivedWord
  <2>4. /\ SlotsOf(e)' = SlotsOf(e) /\ (Kept(e)' <=> Kept(e))
        /\ HandedOver(e)' <=> HandedOver(e)
    BY <2>2, <2>3 DEF SlotsOf, Kept, HandedOver
  <2> QED BY <2>1, <2>2, <2>3, <2>4 DEF FreshWord, Present
<1>2. CASE DataNew(e) /\ Store(e) /\ down' = Transmit(down, e, "ACK")
  <2>1. PICK i \in Slot : rx_buffer' = [rx_buffer EXCEPT ![i] =
                            [empty |-> FALSE, ed |-> e, msg |-> Head(up[e]).msg]]
    BY <1>2 DEF Store
  <2>2. Receives(e, "DATA") /\ SlotsOf(e) = {} /\ log' = log /\ "ACK" \in DownPacket
    BY <1>0, <1>2 DEF DataNew
  <2>3. /\ \A j \in 1..Len(up'[e]) : up'[e][j].msg = sent[e]
        /\ Head(up[e]).msg = sent[e]
        /\ CommitAckOut(e)' => CommitAckOut(e)
        /\ UNCHANGED <<ed_tx_buffer, sent, done>>
    BY <1>0, <1>2, <2>2, ReceivedWord
  <2>4. /\ rx_buffer'[i] = [empty |-> FALSE, ed |-> e, msg |-> sent[e]]
        /\ \A j \in Slot \ {i} : rx_buffer'[j] = rx_buffer[j]
    BY <1>0, <2>1, <2>3
  <2>5. SlotsOf(e)' = {i}
    BY <2>2, <2>4 DEF SlotsOf
  <2>6. Kept(e)' /\ (HandedOver(e)' <=> HandedOver(e))
    BY <2>2, <2>3, <2>4, <2>5 DEF Kept, HandedOver
  <2> QED BY <2>3, <2>4, <2>5, <2>6 DEF FreshWord, Present
<1>3. CASE DataNew(e) /\ down' = Transmit(down, e, "BUSY") /\ UNCHANGED rx_buffer
  <2>1. Receives(e, "DATA") /\ log' = log /\ "BUSY" \in DownPacket
    BY <1>0, <1>3 DEF DataNew
  <2>2. /\ \A j \in 1..Len(up'[e]) : up'[e][j].msg = sent[e]
        /\ CommitOut(e)' => CommitOut(e)
        /\ AckOut(e)' => AckOut(e)
        /\ CommitAckOut(e)' => CommitAckOut(e)
        /\ UNCHANGED <<ed_tx_buffer, sent, done>>
    BY <1>0, <1>3, <2>1, ReceivedWord
  <2>3. /\ SlotsOf(e)' = SlotsOf(e) /\ (Kept(e)' <=> Kept(e))
        /\ HandedOver(e)' <=> HandedOver(e)
    BY <1>3, <2>1, <2>2 DEF SlotsOf, Kept, HandedOver
  <2> QED BY <1>3, <2>2, <2>3 DEF FreshWord, Present
<1>4. CASE Commit(e)
  <2>1. Receives(e, "COMMIT") /\ down' = Transmit(down, e, "COMMIT_ACK")
    BY <1>4 DEF Commit
  <2>2. /\ \A j \in 1..Len(up'[e]) : up'[e][j].msg = sent[e]
        /\ CommitOut(e)
        /\ UNCHANGED <<ed_tx_buffer, sent, done>>
    BY <1>0, <2>1, ReceivedWord
  <2>3. Kept(e)
    BY <2>2 DEF FreshWord
  <2>4. HandedOver(e)' /\ \A j \in SlotsOf(e)' : rx_buffer'[j].msg = sent[e]
    <3>1. ASSUME NEW i \in Slot, First(i, SlotsOf(e)),
                 log' = [log EXCEPT ![e] = Append(@, rx_buffer[i].msg)],
                 rx_buffer' = [rx_buffer EXCEPT ![i] = EmptyRx]
          PROVE  HandedOver(e)' /\ \A j \in SlotsOf(e)' : rx_buffer'[j].msg = sent[e]
      <4>1. rx_buffer[i].msg = sent[e] /\ rx_buffer[i].msg \in Nat
        BY <1>0, <3>1 DEF First, Present, RxRecord
      <4>2. log'[e] = Append(log[e], sent[e]) /\ sent[e] \in Nat
        BY <1>0, <3>1, <4>1
      <4>3. Len(log[e]) + 1 \in DOMAIN log'[e] /\ log'[e][Len(log[e]) + 1] = sent[e]
        BY <1>0, <4>2
      <4>4. HandedOver(e)'
        BY <2>2, <4>3 DEF HandedOver
      <4>5. \A j \in SlotsOf(e)' : j \in SlotsOf(e) /\ rx_buffer'[j] = rx_buffer[j]
        BY <3>1, CommitFrame
      <4> QED BY <1>0, <4>4, <4>5 DEF Present
    <3>2. ASSUME SlotsOf(e) = {}, UNCHANGED <<log, rx_buffer>>
          PROVE  HandedOver(e)' /\ \A j \in SlotsOf(e)' : rx_buffer'[j].msg = sent[e]
      BY <2>2, <2>3, <3>2 DEF Kept, HandedOver, SlotsOf
    <3> QED BY <1>4, <3>1, <3>2 DEF Commit
  <2>5. Kept(e)'
    BY <2>4 DEF Kept
  <2> QED BY <2>2, <2>4, <2>5 DEF FreshWord, Present
<1> QED BY <1>1, <1>2, <1>3, <1>4 DEF DataNew

(* A step of the coordinator on a packet of another device.                *)
LEMMA RouterOtherWord ==
  ASSUME TypeOK, NEW e \in Ed, DataAgain(e) \/ DataNew(e) \/ Commit(e),
         NEW f \in Ed, f # e, FreshWord(f)
  PROVE  FreshWord(f)'
<1>0. /\ rx_buffer \in [Slot -> RxRecord] /\ log \in [Ed -> Seq(Nat)] /\ EdTypeOK
      /\ \A i \in SlotsOf(f) : i \in Slot
  BY DEF TypeOK, SlotsOf
<1>1. up'[f] = up[f] /\ down'[f] = down[f] /\ UNCHANGED <<ed_tx_buffer, sent, done>>
  BY <1>0 DEF DataAgain, DataNew, Commit, Receives, Consume, Transmit, EdTypeOK
<1>2. CASE UNCHANGED <<rx_buffer, log>>
  BY <1>1, <1>2, WordFrame DEF SlotsOf
<1>3. CASE DataNew(e) /\ Store(e)
  <2>1. PICK i \in Slot : /\ First(i, FreeSlots)
                          /\ rx_buffer' = [rx_buffer EXCEPT ![i] =
                               [empty |-> FALSE, ed |-> e, msg |-> Head(up[e]).msg]]
    BY <1>3 DEF Store
  <2>2. log' = log /\ rx_buffer[i].empty
    BY <1>3, <2>1 DEF DataNew, First, FreeSlots
  <2>3. rx_buffer'[i].ed = e /\ \A j \in Slot \ {i} : rx_buffer'[j] = rx_buffer[j]
    BY <1>0, <2>1
  <2>4. SlotsOf(f)' = SlotsOf(f) /\ \A j \in SlotsOf(f) : rx_buffer'[j] = rx_buffer[j]
    BY <2>2, <2>3 DEF SlotsOf
  <2> QED BY <1>1, <2>2, <2>4, WordFrame
<1>4. ASSUME NEW i \in Slot, First(i, SlotsOf(e)),
             log' = [log EXCEPT ![e] = Append(@, rx_buffer[i].msg)],
             rx_buffer' = [rx_buffer EXCEPT ![i] = EmptyRx]
      PROVE  FreshWord(f)'
  <2>1. log'[f] = log[f] /\ rx_buffer[i].ed = e
    BY <1>0, <1>4 DEF First, SlotsOf
  <2>2. rx_buffer'[i].empty /\ \A j \in Slot \ {i} : rx_buffer'[j] = rx_buffer[j]
    BY <1>0, <1>4 DEF EmptyRx
  <2>3. SlotsOf(f)' = SlotsOf(f) /\ \A j \in SlotsOf(f) : rx_buffer'[j] = rx_buffer[j]
    BY <2>1, <2>2 DEF SlotsOf
  <2> QED BY <1>1, <2>1, <2>3, WordFrame
<1>5. CASE DataAgain(e)
  BY <1>2, <1>5 DEF DataAgain
<1>6. CASE DataNew(e)
  BY <1>2, <1>3, <1>6 DEF DataNew
<1>7. CASE Commit(e)
  BY <1>2, <1>4, <1>7 DEF Commit
<1> QED BY <1>5, <1>6, <1>7

(* A step keeps the invariant of a device whose transfer stays, or         *)
(* becomes, fresh.                                                         *)
LEMMA StepWord ==
  ASSUME TypeOK, AgedInv, FreshInv, AckNext, NEW f \in Ed
  PROVE  done'[f] \subseteq 0..sent'[f] /\ (fresh'[f] => FreshWord(f)')
<1>0. /\ EdTypeOK /\ sent[f] \in Nat /\ restarts \in Nat /\ Latest(f)
      /\ done[f] \subseteq 0..sent[f] /\ (fresh[f] => FreshWord(f))
  BY DEF TypeOK, EdTypeOK, AgedInv, Aged, FreshInv
<1>1. fresh'[f] <=> /\ restarts' = restarts
                    /\ IF sent'[f] # sent[f] THEN NothingLeft(f) ELSE fresh[f]
  BY DEF AckNext
<1>2. CASE Restart
  BY <1>0, <1>1, <1>2 DEF Restart, edVars
<1>3. ASSUME NEW e \in Ed, EdNext(e), UNCHANGED <<rx_buffer, log, restarts>>
      PROVE  done'[f] \subseteq 0..sent'[f] /\ (fresh'[f] => FreshWord(f)')
  <2>1. CASE f # e
    <3>1. done'[f] = done[f] /\ sent'[f] = sent[f]
      BY <1>0, <1>3, <2>1, EdStepDone
    <3>2. fresh[f] => FreshWord(f)'
      <4>1. SlotsOf(f)' = SlotsOf(f)
        BY <1>3 DEF SlotsOf
      <4> QED BY <1>0, <1>3, <2>1, <3>1, <4>1, EdStepFrame, WordFrame
    <3> QED BY <1>0, <1>1, <3>1, <3>2
  <2>2. CASE f = e /\ LINK_send_ed(e)
    <3>1. sent'[f] = sent[f] + 1 /\ done' = done
      BY <1>0, <2>2 DEF LINK_send_ed, EdTypeOK
    <3>2. fresh'[f] => FreshWord(f)'
      BY <1>0, <1>1, <1>3, <2>2, <3>1, SendWord
    <3> QED BY <1>0, <3>1, <3>2
  <2>3. CASE f = e /\ sent'[f] = sent[f]
    <3>1. fresh'[f] => FreshWord(f)'
      BY <1>0, <1>1, <1>3, <2>3, EdStepWord
    <3>2. done'[f] \subseteq done[f] \cup {sent[f]}
      BY <1>0, <1>3, EdStepDone
    <3> QED BY <1>0, <2>3, <3>1, <3>2
  <2> QED BY <1>0, <1>3, <2>1, <2>2, <2>3, EdStepDone
<1>4. ASSUME NEW e \in Ed, DataAgain(e) \/ DataNew(e) \/ Commit(e)
      PROVE  done'[f] \subseteq 0..sent'[f] /\ (fresh'[f] => FreshWord(f)')
  <2>1. UNCHANGED <<sent, done>>
    BY <1>4 DEF DataAgain, DataNew, Commit, Receives
  <2>2. fresh[f] => FreshWord(f)'
    BY <1>0, <1>4, RouterStepWord, RouterOtherWord
  <2> QED BY <1>0, <1>1, <2>1, <2>2
<1> QED BY <1>2, <1>3, <1>4 DEF AckNext, Next

(* The invariant of fresh transfers.                                       *)
LEMMA FreshInvariant == AckSpec => []FreshInv
<1>1. AckInit => FreshInv
  BY DEF AckInit, Init, EdInit, FreshInv
<1>2. TypeOK /\ AgedInv /\ FreshInv /\ [AckNext]_ackVars => FreshInv'
  <2> SUFFICES ASSUME TypeOK, AgedInv, FreshInv, [AckNext]_ackVars PROVE FreshInv'
    OBVIOUS
  <2>1. CASE UNCHANGED ackVars
    <3>1. \A f \in Ed : FreshWord(f) => FreshWord(f)'
      <4> SUFFICES ASSUME NEW f \in Ed, FreshWord(f) PROVE FreshWord(f)'
        OBVIOUS
      <4> QED BY <2>1, WordFrame DEF ackVars, vars, edVars, SlotsOf
    <3> QED BY <2>1, <3>1 DEF ackVars, vars, edVars, FreshInv
  <2>2. CASE AckNext
    BY <2>2, StepWord DEF FreshInv
  <2> QED BY <2>1, <2>2
<1>3. AckInit => Init
  BY DEF AckInit
<1>4. [AckNext]_ackVars => [Next]_vars
  BY DEF AckNext, ackVars
<1> QED BY <1>1, <1>2, <1>3, <1>4, TypeCorrect, AgedInvariant, PTL DEF AckSpec, Spec

(* In a transfer that began with nothing left of an earlier one, a device  *)
(* that has, or acts on, an ACK can rely on it: the coordinator holds this *)
(* very payload or has handed it over, whatever is lost, whoever competes  *)
(* for the slots and whenever DATA get the air.                            *)
THEOREM AckCorrect == AckSpec => []AckMeansStored
<1>1. FreshInv => AckMeansStored
  BY DEF FreshInv, FreshWord, AckMeansStored, AckOut
<1> QED BY <1>1, FreshInvariant, PTL

(* In such a transfer a payload that the device reports as delivered was   *)
(* handed over by the coordinator.                                         *)
THEOREM DoneCorrect == AckSpec => []DoneMeansHandedOver
<1>1. FreshInv => DoneMeansHandedOver
  BY DEF FreshInv, FreshWord, DoneMeansHandedOver
<1> QED BY <1>1, FreshInvariant, PTL

-----------------------------------------------------------------------------
(* The order of payloads when no interrupt comes while LINK_send_ed waits.  *)

(* Along the channel from a device the packets are sorted by payload,      *)
(* the DATA of a payload before its COMMITs; whatever waits in a slot is   *)
(* not younger, and whatever was handed over is older, than every packet   *)
(* still under way; and a payload whose DATA may yet be sent again has not *)
(* been handed over.                                                       *)
Rank(p) == IF p.type = "COMMIT" THEN 2 * p.msg + 1 ELSE 2 * p.msg

Sorted(s)   == \A i, j \in 1..Len(s) : i <= j => Rank(s[i]) <= Rank(s[j])
Above(s, b) == \A i \in 1..Len(s) : b <= Rank(s[i])
Below(s, b) == \A i \in 1..Len(s) : Rank(s[i]) <= b

Retransmits(e) == ~ed_tx_buffer[e].empty /\ ed_tx_buffer[e].state = DATA_SENT

ChannelOrder(e) ==
  /\ ~ed_tx_buffer[e].empty => ed_tx_buffer[e].msg = sent[e] /\ sent[e] > 0
  /\ Sorted(up[e])
  /\ Above(up[e], 2)
  /\ Below(up[e], 2 * sent[e] + 1)
  /\ Retransmits(e) => Below(up[e], 2 * sent[e])
  /\ waiting[e] = 0

SlotOrder(e) ==
  \A i \in SlotsOf(e) :
    /\ rx_buffer[i].msg \in 1..sent[e]
    /\ Above(up[e], 2 * rx_buffer[i].msg)

LogOrder(e) ==
  /\ \A i, j \in 1..Len(log[e]) : i < j => log[e][i] < log[e][j]
  /\ \A k \in 1..Len(log[e]) :
       /\ log[e][k] \in 1..sent[e]
       /\ Above(up[e], 2 * log[e][k] + 1)
       /\ \A i \in SlotsOf(e) : log[e][k] < rx_buffer[i].msg
       /\ Retransmits(e) => log[e][k] < sent[e]

InOrderInv == \A e \in Ed : ChannelOrder(e) /\ SlotOrder(e) /\ LogOrder(e)

LEMMA RankType == \A p \in UpPacket : Rank(p) \in Nat
BY DEF Rank, UpPacket

LEMMA RankValue ==
  \A n \in Nat : Rank(DataPacket(n)) = 2 * n /\ Rank(CommitPacket(n)) = 2 * n + 1
BY DEF Rank, DataPacket, CommitPacket

(* A channel that lost its oldest packet keeps its order and its bounds,   *)
(* and the packet that left was the lowest.                                *)
LEMMA TailOrder ==
  ASSUME NEW s \in Seq(UpPacket), s # <<>>, Sorted(s)
  PROVE  /\ Sorted(Tail(s))
         /\ Above(Tail(s), Rank(Head(s)))
         /\ \A b \in Nat : Above(s, b) => Above(Tail(s), b) /\ b <= Rank(Head(s))
         /\ \A b \in Nat : Below(s, b) => Below(Tail(s), b) /\ Rank(Head(s)) <= b
<1>1. Len(Tail(s)) = Len(s) - 1 /\ Len(s) \in Nat /\ Len(s) > 0
  OBVIOUS
<1>2. \A i \in 1..Len(Tail(s)) : Tail(s)[i] = s[i + 1] /\ i + 1 \in 1..Len(s)
  BY <1>1
<1>3. Head(s) = s[1] /\ 1 \in 1..Len(s)
  BY <1>1
<1>4. Sorted(Tail(s))
  BY <1>1, <1>2 DEF Sorted
<1>5. Above(Tail(s), Rank(Head(s)))
  BY <1>1, <1>2, <1>3 DEF Sorted, Above
<1>6. ASSUME NEW b \in Nat, Above(s, b) PROVE Above(Tail(s), b) /\ b <= Rank(Head(s))
  BY <1>2, <1>3, <1>6 DEF Above
<1>7. ASSUME NEW b \in Nat, Below(s, b) PROVE Below(Tail(s), b) /\ Rank(Head(s)) <= b
  BY <1>2, <1>3, <1>7 DEF Below
<1> QED BY <1>4, <1>5, <1>6, <1>7

(* A channel into which a packet was put that is not lower than any in it. *)
LEMMA AppendOrder ==
  ASSUME NEW s \in Seq(UpPacket), NEW p \in UpPacket, Sorted(s), Below(s, Rank(p)),
         NEW t \in {s, Append(s, p)}
  PROVE  /\ Sorted(t)
         /\ Below(t, Rank(p))
         /\ \A b \in Nat : b <= Rank(p) /\ Above(s, b) => Above(t, b)
<1>1. CASE t = s
  BY <1>1
<1>2. CASE t = Append(s, p)
  <2>1. Len(t) = Len(s) + 1 /\ Len(s) \in Nat
    BY <1>2
  <2>2. t[Len(t)] = p /\ \A i \in 1..Len(s) : t[i] = s[i]
    BY <1>2, <2>1
  <2>3. \A i \in 1..Len(t) : i = Len(t) \/ i \in 1..Len(s)
    BY <2>1
  <2>4. Rank(p) \in Nat
    BY RankType
  <2>5. Below(t, Rank(p))
    BY <2>2, <2>3, <2>4 DEF Below
  <2>6. Sorted(t)
    <3> SUFFICES ASSUME NEW i \in 1..Len(t), NEW j \in 1..Len(t), i <= j
                 PROVE  Rank(t[i]) <= Rank(t[j])
      BY DEF Sorted
    <3>1. CASE j = Len(t)
      BY <2>2, <2>5, <3>1 DEF Below
    <3>2. CASE j \in 1..Len(s)
      <4>1. i \in 1..Len(s)
        BY <2>1, <3>2
      <4> QED BY <2>2, <3>2, <4>1 DEF Sorted
    <3> QED BY <2>3, <3>1, <3>2
  <2>7. ASSUME NEW b \in Nat, b <= Rank(p), Above(s, b) PROVE Above(t, b)
    BY <2>2, <2>3, <2>7 DEF Above
  <2> QED BY <2>5, <2>6, <2>7
<1> QED BY <1>1, <1>2

LEMMA BelowMore ==
  ASSUME NEW s \in Seq(UpPacket), NEW b \in Nat, NEW c \in Nat, b <= c, Below(s, b)
  PROVE  Below(s, c)
<1>1. \A i \in 1..Len(s) : Rank(s[i]) \in Nat
  BY RankType
<1> QED BY <1>1 DEF Below

LEMMA TransmitResult ==
  ASSUME NEW e \in Ed, NEW ch \in [Ed -> Seq(UpPacket)], NEW p \in UpPacket
  PROVE  Transmit(ch, e, p)[e] \in {ch[e], Append(ch[e], p)}
BY DEF Transmit

Ordered(e) == ChannelOrder(e) /\ SlotOrder(e) /\ LogOrder(e)

(* A step of a device that sends nothing: packets may leave the channel,   *)
(* and the transmission record may be freed or go on to the COMMIT.        *)
LEMMA QuietStep ==
  ASSUME TypeOK, NEW e \in Ed, Ordered(e), UNCHANGED <<rx_buffer, log>>,
         sent'[e] = sent[e], waiting'[e] = 0,
         up'[e] = up[e] \/ (up[e] # <<>> /\ up'[e] = Tail(up[e])),
         ~ed_tx_buffer'[e].empty =>
           ~ed_tx_buffer[e].empty /\ ed_tx_buffer'[e].msg = ed_tx_buffer[e].msg,
         Retransmits(e)' => Retransmits(e)
  PROVE  Ordered(e)'
<1> DEFINE s == up[e]
           t == up'[e]
<1>0. s \in Seq(UpPacket) /\ sent[e] \in Nat /\ log[e] \in Seq(Nat)
  BY DEF TypeOK, EdTypeOK
<1>1. /\ Sorted(t)
      /\ \A b \in Nat : Above(s, b) => Above(t, b)
      /\ \A b \in Nat : Below(s, b) => Below(t, b)
  BY <1>0, TailOrder DEF Ordered, ChannelOrder
<1>2. SlotsOf(e)' = SlotsOf(e)
  BY DEF SlotsOf
<1>3. ChannelOrder(e)'
  <2>1. 2 * sent[e] \in Nat /\ 2 * sent[e] + 1 \in Nat /\ 2 \in Nat
    BY <1>0
  <2> QED BY <1>1, <2>1 DEF Ordered, ChannelOrder
<1>4. SlotOrder(e)'
  <2>1. \A i \in SlotsOf(e) : 2 * rx_buffer[i].msg \in Nat
    BY <1>0 DEF Ordered, SlotOrder
  <2> QED BY <1>1, <1>2, <2>1 DEF Ordered, SlotOrder
<1>5. LogOrder(e)'
  <2>1. \A k \in 1..Len(log[e]) : 2 * log[e][k] + 1 \in Nat
    <3>1. \A k \in 1..Len(log[e]) : log[e][k] \in 1..sent[e]
      BY DEF Ordered, LogOrder
    <3>2. \A n \in 1..sent[e] : 2 * n + 1 \in Nat
      BY <1>0
    <3> QED BY <3>1, <3>2
  <2> QED BY <1>1, <1>2, <2>1 DEF Ordered, LogOrder
<1> QED BY <1>3, <1>4, <1>5 DEF Ordered

(* A step of a device that sends a packet p not lower than anything under  *)
(* way or handed over.                                                     *)
LEMMA SendStep ==
  ASSUME TypeOK, NEW e \in Ed, Ordered(e), UNCHANGED <<rx_buffer, log>>,
         NEW p \in UpPacket, up'[e] \in {up[e], Append(up[e], p)},
         sent'[e] \in Nat, sent'[e] > 0, sent'[e] >= sent[e],
         ed_tx_buffer'[e].msg = sent'[e], waiting'[e] = 0,
         Below(up[e], Rank(p)), Rank(p) >= 2, Rank(p) >= 2 * sent[e],
         Rank(p) <= 2 * sent'[e] + 1,
         \A k \in 1..Len(log[e]) : 2 * log[e][k] + 1 <= Rank(p),
         Retransmits(e)' => /\ Rank(p) <= 2 * sent'[e]
                            /\ \A k \in 1..Len(log[e]) : log[e][k] < sent'[e]
  PROVE  Ordered(e)'
<1> DEFINE s == up[e]
           t == up'[e]
<1>0. /\ s \in Seq(UpPacket) /\ sent[e] \in Nat /\ log[e] \in Seq(Nat)
      /\ Rank(p) \in Nat
  BY RankType DEF TypeOK, EdTypeOK
<1>1. /\ Sorted(t)
      /\ Below(t, Rank(p))
      /\ \A b \in Nat : b <= Rank(p) /\ Above(s, b) => Above(t, b)
  BY <1>0, AppendOrder DEF Ordered, ChannelOrder
<1>2. SlotsOf(e)' = SlotsOf(e)
  BY DEF SlotsOf
<1>3. t \in Seq(UpPacket)
  <2>1. Append(s, p) \in Seq(UpPacket)
    BY <1>0
  <2> QED BY <1>0, <2>1
<1>4. \A c \in Nat : Rank(p) <= c => Below(t, c)
  BY <1>0, <1>1, <1>3, BelowMore
<1>5. ChannelOrder(e)'
  <2>1. 2 * sent'[e] \in Nat /\ 2 * sent'[e] + 1 \in Nat /\ 2 \in Nat
    OBVIOUS
  <2>2. Above(t, 2)
    BY <1>1, <2>1 DEF Ordered, ChannelOrder
  <2>3. Below(t, 2 * sent'[e] + 1)
    BY <1>4, <2>1
  <2>4. Retransmits(e)' => Below(t, 2 * sent'[e])
    BY <1>4, <2>1
  <2> QED BY <1>1, <2>2, <2>3, <2>4 DEF ChannelOrder
<1>6. SlotOrder(e)'
  <2>1. \A i \in SlotsOf(e) : /\ rx_buffer[i].msg \in 1..sent'[e]
                              /\ 2 * rx_buffer[i].msg \in Nat
                              /\ 2 * rx_buffer[i].msg <= Rank(p)
    <3>1. \A i \in SlotsOf(e) : rx_buffer[i].msg \in 1..sent[e]
      BY DEF Ordered, SlotOrder
    <3>2. \A n \in 1..sent[e] : /\ n \in 1..sent'[e]
                                /\ 2 * n \in Nat
                                /\ 2 * n <= Rank(p)
      BY <1>0
    <3> QED BY <3>1, <3>2
  <2> QED BY <1>1, <1>2, <2>1 DEF Ordered, SlotOrder
<1>7. LogOrder(e)'
  <2>1. \A k \in 1..Len(log[e]) : /\ log[e][k] \in 1..sent[e]
                                  /\ Above(s, 2 * log[e][k] + 1)
                                  /\ \A i \in SlotsOf(e) : log[e][k] < rx_buffer[i].msg
    BY DEF Ordered, LogOrder
  <2>2. \A k \in 1..Len(log[e]) : /\ log[e][k] \in 1..sent'[e]
                                  /\ 2 * log[e][k] + 1 \in Nat
    <3>1. \A n \in 1..sent[e] : n \in 1..sent'[e] /\ 2 * n + 1 \in Nat
      BY <1>0
    <3> QED BY <2>1, <3>1
  <2>3. \A k \in 1..Len(log[e]) : Above(t, 2 * log[e][k] + 1)
    BY <1>1, <2>1, <2>2
  <2>4. \A i, j \in 1..Len(log[e]) : i < j => log[e][i] < log[e][j]
    BY DEF Ordered, LogOrder
  <2>5. \A k \in 1..Len(log[e]) : Retransmits(e)' => log[e][k] < sent'[e]
    OBVIOUS
  <2>6. log' = log /\ rx_buffer' = rx_buffer
    OBVIOUS
  <2> HIDE DEF t
  <2> QED BY <1>2, <2>1, <2>2, <2>3, <2>4, <2>5, <2>6 DEF LogOrder, t
<1> QED BY <1>5, <1>6, <1>7 DEF Ordered

LEMMA LogBound ==
  ASSUME TypeOK, NEW e \in Ed, Ordered(e)
  PROVE  /\ \A k \in 1..Len(log[e]) : 2 * log[e][k] + 1 <= 2 * sent[e] + 1
         /\ Retransmits(e) => \A k \in 1..Len(log[e]) : 2 * log[e][k] + 1 <= 2 * sent[e]
<1>1. sent[e] \in Nat /\ \A k \in 1..Len(log[e]) : log[e][k] \in 1..sent[e]
  BY DEF TypeOK, EdTypeOK, Ordered, LogOrder
<1>2. \A n \in 1..sent[e] : /\ 2 * n + 1 <= 2 * sent[e] + 1
                            /\ n < sent[e] => 2 * n + 1 <= 2 * sent[e]
  BY <1>1
<1>3. Retransmits(e) => \A k \in 1..Len(log[e]) : log[e][k] < sent[e]
  BY DEF Ordered, LogOrder
<1> QED BY <1>1, <1>2, <1>3

(* A device with a record in use sends the COMMIT of its payload.          *)
LEMMA CommitStep ==
  ASSUME TypeOK, NEW e \in Ed, Ordered(e), UNCHANGED <<rx_buffer, log>>,
         ~ed_tx_buffer[e].empty, sent'[e] = sent[e],
         up'[e] \in {up[e], Append(up[e], CommitPacket(sent[e]))},
         ed_tx_buffer'[e].msg = sent[e], ~Retransmits(e)', waiting'[e] = 0
  PROVE  Ordered(e)'
<1>1. sent[e] \in Nat /\ sent[e] > 0 /\ up[e] \in Seq(UpPacket)
  BY DEF TypeOK, EdTypeOK, Ordered, ChannelOrder
<1>2. /\ CommitPacket(sent[e]) \in UpPacket
      /\ Rank(CommitPacket(sent[e])) = 2 * sent[e] + 1
  BY <1>1, PacketType, RankValue
<1>3. Below(up[e], 2 * sent[e] + 1)
  BY DEF Ordered, ChannelOrder
<1>4. \A k \in 1..Len(log[e]) : 2 * log[e][k] + 1 <= 2 * sent[e] + 1
  BY LogBound
<1>5. /\ 2 * sent[e] + 1 >= 2 /\ 2 * sent[e] + 1 >= 2 * sent[e]
      /\ 2 * sent[e] + 1 <= 2 * sent[e] + 1 /\ sent[e] >= sent[e]
  BY <1>1
<1> DEFINE p == CommitPacket(sent[e])
<1>6. /\ p \in UpPacket /\ up'[e] \in {up[e], Append(up[e], p)}
      /\ Below(up[e], Rank(p)) /\ Rank(p) >= 2 /\ Rank(p) >= 2 * sent[e]
      /\ Rank(p) <= 2 * sent'[e] + 1
      /\ \A k \in 1..Len(log[e]) : 2 * log[e][k] + 1 <= Rank(p)
  BY <1>2, <1>3, <1>4, <1>5
<1> HIDE DEF p
<1> QED BY <1>1, <1>5, <1>6, SendStep

(* A device sends its DATA, for the first time or again.                   *)
LEMMA DataStep ==
  ASSUME TypeOK, NEW e \in Ed, Ordered(e), UNCHANGED <<rx_buffer, log>>,
         NEW n \in Nat, n > 0, sent'[e] = n, ed_tx_buffer'[e].msg = n,
         up'[e] \in {up[e], Append(up[e], DataPacket(n))},
         n = sent[e] + 1 \/ (n = sent[e] /\ Retransmits(e)), waiting'[e] = 0
  PROVE  Ordered(e)'
<1>1. sent[e] \in Nat /\ up[e] \in Seq(UpPacket)
  BY DEF TypeOK, EdTypeOK
<1>2. DataPacket(n) \in UpPacket /\ Rank(DataPacket(n)) = 2 * n
  BY PacketType, RankValue
<1>3. Below(up[e], 2 * n)
  <2>1. 2 * sent[e] + 1 \in Nat /\ 2 * n \in Nat
    BY <1>1
  <2>2. CASE n = sent[e] + 1
    <3>1. 2 * sent[e] + 1 <= 2 * n
      BY <1>1, <2>2
    <3>2. Below(up[e], 2 * sent[e] + 1)
      BY DEF Ordered, ChannelOrder
    <3> QED BY <1>1, <2>1, <3>1, <3>2, BelowMore
  <2>3. CASE n = sent[e] /\ Retransmits(e)
    BY <2>3 DEF Ordered, ChannelOrder
  <2> QED BY <2>2, <2>3
<1>4. \A k \in 1..Len(log[e]) : log[e][k] < n
  <2>1. \A k \in 1..Len(log[e]) : log[e][k] \in 1..sent[e]
    BY DEF Ordered, LogOrder
  <2>2. CASE n = sent[e] + 1
    BY <1>1, <2>1, <2>2
  <2>3. CASE n = sent[e] /\ Retransmits(e)
    BY <2>3 DEF Ordered, LogOrder
  <2> QED BY <2>2, <2>3
<1>5. \A k \in 1..Len(log[e]) : 2 * log[e][k] + 1 <= 2 * n
  <2>1. \A k \in 1..Len(log[e]) : log[e][k] \in 1..sent[e]
    BY DEF Ordered, LogOrder
  <2>2. \A m \in 1..sent[e] : m < n => 2 * m + 1 <= 2 * n
    BY <1>1
  <2> QED BY <1>4, <2>1, <2>2
<1>6. 2 * n >= 2 /\ 2 * n >= 2 * sent[e] /\ 2 * n <= 2 * n + 1 /\ n >= sent[e]
      /\ 2 * n <= 2 * n
  BY <1>1
<1> QED BY <1>1, <1>2, <1>3, <1>4, <1>5, <1>6, SendStep

LEMMA EdStepOrdered ==
  ASSUME ~Preempted, TypeOK, NEW e \in Ed, Ordered(e), EdNext(e),
         UNCHANGED <<rx_buffer, log>>
  PROVE  Ordered(e)'
<1> DEFINE tx == ed_tx_buffer[e]
<1>a. waiting[e] = 0
  BY DEF Ordered, ChannelOrder
<1>0. /\ ed_tx_buffer \in [Ed -> TxRecord]
      /\ up \in [Ed -> Seq(UpPacket)]
      /\ down \in [Ed -> Seq(DownPacket)]
      /\ sent \in [Ed -> Nat]
      /\ waiting \in [Ed -> Nat]
  BY DEF TypeOK, EdTypeOK
<1>1. sent[e] \in Nat /\ (~tx.empty => tx.msg = sent[e] /\ sent[e] > 0)
  BY <1>0 DEF Ordered, ChannelOrder
<1>2. DataPacket(sent[e] + 1) \in UpPacket /\ DataPacket(sent[e]) \in UpPacket
      /\ CommitPacket(sent[e]) \in UpPacket
  BY <1>1, PacketType
<1>3. CASE LINK_send_ed(e)
  <2>1. sent'[e] = sent[e] + 1 /\ ed_tx_buffer'[e].msg = sent[e] + 1
    BY <1>0, <1>3 DEF LINK_send_ed, InUse
  <2>2. up'[e] \in {up[e], Append(up[e], DataPacket(sent[e] + 1))}
    BY <1>0, <1>2, <1>3, TransmitResult DEF LINK_send_ed
  <2>3. sent[e] + 1 \in Nat /\ sent[e] + 1 > 0
    BY <1>1
  <2>4. waiting'[e] = 0
    BY <1>a, <1>3 DEF LINK_send_ed
  <2> QED BY <2>1, <2>2, <2>3, <2>4, DataStep
<1>4. CASE ed_process_ack(e)
  <2>0. sent'[e] = sent[e] /\ waiting'[e] = 0
    BY <1>a, <1>4 DEF ed_process_ack
  <2>1. CASE ~tx.empty
    <3>1. up'[e] \in {up[e], Append(up[e], CommitPacket(sent[e]))}
      BY <1>0, <1>1, <1>2, <1>4, <2>1, TransmitResult DEF ed_process_ack
    <3>2. ed_tx_buffer'[e].msg = sent[e] /\ ~Retransmits(e)'
      BY <1>0, <1>1, <1>4, <2>1
      DEF ed_process_ack, InUse, Retransmits, DATA_SENT, COMMIT_SENT
    <3> QED BY <2>0, <2>1, <3>1, <3>2, CommitStep
  <2>2. CASE tx.empty
    <3>1. ed_tx_buffer' = ed_tx_buffer /\ up' = up
      BY <1>4, <2>2 DEF ed_process_ack
    <3>2. ~Retransmits(e)'
      BY <2>2, <3>1 DEF Retransmits
    <3> QED BY <2>0, <2>2, <3>1, <3>2, QuietStep
  <2> QED BY <1>0, <2>1, <2>2 DEF TxRecord
<1>5. CASE ed_process_busy(e)
  <2>1. sent'[e] = sent[e] /\ up' = up /\ waiting'[e] = 0
    BY <1>a, <1>5 DEF ed_process_busy
  <2>2. ed_tx_buffer'[e] = tx \/
        (~tx.empty /\ ed_tx_buffer'[e].state = tx.state /\ ed_tx_buffer'[e].msg = tx.msg)
    BY <1>0, <1>5 DEF ed_process_busy, InUse
  <2>3. Retransmits(e)' => Retransmits(e)
    BY <2>2 DEF Retransmits
  <2> QED BY <2>1, <2>2, <2>3, QuietStep
<1>6. CASE ed_process_commit_ack(e)
  <2>1. sent'[e] = sent[e] /\ up' = up /\ ed_tx_buffer'[e].empty /\ waiting'[e] = 0
    BY <1>a, <1>0, <1>6 DEF ed_process_commit_ack, EmptyTx
  <2> QED BY <2>1, QuietStep DEF Retransmits
<1>7. CASE PHY_timer_interrupt(e)
  <2> DEFINE due == ~tx.empty /\ tx.expiration_time = timer_counter'[e]
  <2>0. sent'[e] = sent[e] /\ waiting'[e] = 0
    BY <1>a, <1>7 DEF PHY_timer_interrupt
  <2>1. CASE ~due
    <3>1. ed_tx_buffer' = ed_tx_buffer /\ up' = up
      BY <1>7, <2>1 DEF PHY_timer_interrupt, check_buffers_state, Due, Rescheduled, Resent
    <3>2. Retransmits(e)' => Retransmits(e)
      BY <3>1 DEF Retransmits
    <3> QED BY <2>0, <3>1, <3>2, QuietStep
  <2>2. CASE due /\ tx.transmits_to_error = 0
    <3>1. up' = up /\ ed_tx_buffer'[e].empty
      BY <1>0, <1>7, <2>2 DEF PHY_timer_interrupt, check_buffers_state, Due, Rescheduled, Resent, EmptyTx
    <3> QED BY <2>0, <3>1, QuietStep DEF Retransmits
  <2>3. CASE due /\ tx.transmits_to_error # 0
    <3>1. /\ ed_tx_buffer' = [ed_tx_buffer EXCEPT ![e] =
               InUse(tx.state, Later(timer_counter'[e], 2),
                     tx.transmits_to_error - 1, tx.msg)]
          /\ up' = Transmit(up, e, IF tx.state = COMMIT_SENT
                                     THEN CommitPacket(tx.msg) ELSE DataPacket(tx.msg))
      BY <1>7, <2>3 DEF PHY_timer_interrupt, check_buffers_state, Due, Rescheduled, Resent
    <3>2. ed_tx_buffer'[e].msg = sent[e] /\ ed_tx_buffer'[e].state = tx.state
      BY <1>0, <1>1, <2>3, <3>1 DEF InUse
    <3>3. CASE tx.state = COMMIT_SENT
      <4>1. up' = Transmit(up, e, CommitPacket(sent[e]))
        BY <1>1, <2>3, <3>1, <3>3
      <4>2. up'[e] \in {up[e], Append(up[e], CommitPacket(sent[e]))}
        BY <1>0, <1>2, <4>1, TransmitResult
      <4>3. ~Retransmits(e)'
        BY <3>2, <3>3 DEF Retransmits, DATA_SENT, COMMIT_SENT
      <4> QED BY <2>0, <2>3, <3>2, <4>2, <4>3, CommitStep
    <3>4. CASE tx.state = DATA_SENT
      <4>1. up' = Transmit(up, e, DataPacket(sent[e]))
        BY <1>1, <2>3, <3>1, <3>4 DEF DATA_SENT, COMMIT_SENT
      <4>2. up'[e] \in {up[e], Append(up[e], DataPacket(sent[e]))}
        BY <1>0, <1>2, <4>1, TransmitResult
      <4>3. Retransmits(e)
        BY <2>3, <3>4 DEF Retransmits
      <4> QED BY <1>1, <2>0, <2>3, <3>2, <4>2, <4>3, DataStep
    <3> QED BY <1>0, <3>3, <3>4 DEF TxRecord
  <2> QED BY <2>1, <2>2, <2>3
<1>8. CASE LINK_init(e)
  <2>1. sent'[e] = sent[e] /\ up' = up /\ ed_tx_buffer'[e].empty /\ waiting'[e] = 0
    BY <1>0, <1>8 DEF LINK_init, EmptyTx
  <2> QED BY <2>1, QuietStep DEF Retransmits
<1>9. CASE Lose(e)
  <2>1. sent'[e] = sent[e] /\ ed_tx_buffer' = ed_tx_buffer /\ waiting'[e] = 0
    BY <1>a, <1>9 DEF Lose
  <2>2. up'[e] = up[e] \/ (up[e] # <<>> /\ up'[e] = Tail(up[e]))
    BY <1>0, <1>9 DEF Lose, Consume
  <2>3. Retransmits(e)' => Retransmits(e)
    BY <2>1 DEF Retransmits
  <2> QED BY <2>1, <2>2, <2>3, QuietStep
<1>10. ~PHY_send_with_cca(e)
  BY <1>a DEF PHY_send_with_cca
<1> QED BY <1>3, <1>4, <1>5, <1>6, <1>7, <1>8, <1>9, <1>10 DEF EdNext

(* What is not sent, received or handed over on behalf of a device leaves  *)
(* its order alone, also when its slots are freed.                         *)
LEMMA OrderedFrame ==
  ASSUME NEW e \in Ed, Ordered(e),
         ed_tx_buffer'[e] = ed_tx_buffer[e], up'[e] = up[e], sent'[e] = sent[e],
         log'[e] = log[e], waiting'[e] = waiting[e],
         SlotsOf(e)' \subseteq SlotsOf(e),
         \A i \in SlotsOf(e)' : rx_buffer'[i] = rx_buffer[i]
  PROVE  Ordered(e)'
<1>1. ChannelOrder(e)'
  BY DEF Ordered, ChannelOrder, Retransmits
<1>2. SlotOrder(e)'
  BY DEF Ordered, SlotOrder
<1>3. LogOrder(e)'
  BY DEF Ordered, LogOrder, Retransmits
<1> QED BY <1>1, <1>2, <1>3 DEF Ordered

(* The router's reception of a packet leaves its rank as a lower bound.    *)
LEMMA HeadOrder ==
  ASSUME TypeOK, NEW e \in Ed, Ordered(e), NEW type, Receives(e, type),
         NEW p \in DownPacket, down' = Transmit(down, e, p)
  PROVE  /\ Head(up[e]) \in UpPacket /\ Head(up[e]).type = type
         /\ up[e] \in Seq(UpPacket) /\ up[e] # <<>>
         /\ ed_tx_buffer' = ed_tx_buffer /\ sent' = sent /\ waiting' = waiting
         /\ up'[e] = Tail(up[e])
         /\ Sorted(Tail(up[e])) /\ Above(Tail(up[e]), Rank(Head(up[e])))
         /\ \A b \in Nat : Above(up[e], b) => Above(Tail(up[e]), b) /\ b <= Rank(Head(up[e]))
         /\ \A b \in Nat : Below(up[e], b) => Below(Tail(up[e]), b) /\ Rank(Head(up[e])) <= b
<1>1. up[e] \in Seq(UpPacket) /\ up[e] # <<>> /\ Head(up[e]).type = type
  BY DEF Receives, TypeOK, EdTypeOK
<1>2. Head(up[e]) \in UpPacket
  BY <1>1
<1>3. /\ up'[e] = Tail(up[e])
      /\ ed_tx_buffer' = ed_tx_buffer /\ sent' = sent /\ waiting' = waiting
  BY ReceivesFrame DEF TypeOK
<1>4. Sorted(up[e])
  BY DEF Ordered, ChannelOrder
<1> QED BY <1>1, <1>2, <1>3, <1>4, TailOrder

LEMMA StoreOrdered ==
  ASSUME TypeOK, NEW e \in Ed, Ordered(e), Receives(e, "DATA"),
         down' = Transmit(down, e, "ACK"), SlotsOf(e) = {}, NEW i \in Slot,
         rx_buffer' = [rx_buffer EXCEPT ![i] =
           [empty |-> FALSE, ed |-> e, msg |-> Head(up[e]).msg]],
         log' = log
  PROVE  Ordered(e)'
<1> DEFINE n == Head(up[e]).msg
           t == Tail(up[e])
<1>0. "ACK" \in DownPacket
  BY DEF DownPacket
<1>1. /\ Head(up[e]) \in UpPacket /\ Head(up[e]).type = "DATA"
      /\ ed_tx_buffer' = ed_tx_buffer /\ sent' = sent /\ waiting' = waiting
      /\ up'[e] = t
      /\ Sorted(t) /\ Above(t, Rank(Head(up[e])))
      /\ \A b \in Nat : Above(up[e], b) => Above(t, b) /\ b <= Rank(Head(up[e]))
      /\ \A b \in Nat : Below(up[e], b) => Below(t, b) /\ Rank(Head(up[e])) <= b
  BY <1>0, HeadOrder
<1>2. n \in Nat /\ Rank(Head(up[e])) = 2 * n
  BY <1>1 DEF Rank, UpPacket
<1>3. sent[e] \in Nat /\ 2 * sent[e] \in Nat /\ 2 * sent[e] + 1 \in Nat
  BY DEF TypeOK, EdTypeOK
<1>4. n \in 1..sent[e]
  <2>1. 2 <= 2 * n /\ 2 * n <= 2 * sent[e] + 1
    BY <1>1, <1>2, <1>3 DEF Ordered, ChannelOrder
  <2> QED BY <1>2, <1>3, <2>1
<1>5. /\ \A j \in Slot : j # i => rx_buffer'[j] = rx_buffer[j]
      /\ rx_buffer'[i] = [empty |-> FALSE, ed |-> e, msg |-> n]
  BY DEF TypeOK
<1>6. SlotsOf(e)' \subseteq {i} /\ rx_buffer'[i].msg = n
  BY <1>5 DEF SlotsOf
<1>7. ChannelOrder(e)'
  BY <1>1, <1>3 DEF Ordered, ChannelOrder, Retransmits
<1>8. SlotOrder(e)'
  BY <1>1, <1>2, <1>4, <1>6 DEF SlotOrder
<1>9. LogOrder(e)'
  <2>1. \A k \in 1..Len(log[e]) : /\ log[e][k] \in 1..sent[e]
                                  /\ Above(up[e], 2 * log[e][k] + 1)
                                  /\ Retransmits(e) => log[e][k] < sent[e]
    BY DEF Ordered, LogOrder
  <2>2. \A k \in 1..Len(log[e]) : 2 * log[e][k] + 1 \in Nat
    BY <1>3, <2>1
  <2>3. \A k \in 1..Len(log[e]) : Above(t, 2 * log[e][k] + 1) /\ 2 * log[e][k] + 1 <= 2 * n
    BY <1>1, <1>2, <2>1, <2>2
  <2>4. \A k \in 1..Len(log[e]) : log[e][k] < n
    <3>1. \A x \in 1..sent[e] : 2 * x + 1 <= 2 * n => x < n
      BY <1>2, <1>3
    <3> QED BY <2>1, <2>3, <3>1
  <2>5. \A k, l \in 1..Len(log[e]) : k < l => log[e][k] < log[e][l]
    BY DEF Ordered, LogOrder
  <2> QED BY <1>1, <1>6, <2>1, <2>3, <2>4, <2>5 DEF LogOrder, Retransmits
<1> QED BY <1>7, <1>8, <1>9 DEF Ordered

(* A payload younger than all that were handed over is handed over.        *)
LEMMA AppendLog ==
  ASSUME NEW s \in Seq(Nat), NEW m \in Nat,
         \A k, l \in 1..Len(s) : k < l => s[k] < s[l],
         \A k \in 1..Len(s) : s[k] < m,
         NEW r, r = Append(s, m)
  PROVE  /\ \A k \in 1..Len(r) : r[k] = m \/ \E j \in 1..Len(s) : r[k] = s[j]
         /\ \A k, l \in 1..Len(r) : k < l => r[k] < r[l]
<1>1. /\ Len(r) = Len(s) + 1 /\ Len(s) \in Nat
      /\ r[Len(s) + 1] = m
      /\ \A k \in 1..Len(s) : r[k] = s[k]
  OBVIOUS
<1>2. \A k \in 1..Len(r) : k = Len(s) + 1 \/ k \in 1..Len(s)
  BY <1>1
<1>3. \A k \in 1..Len(r) : r[k] = m \/ \E j \in 1..Len(s) : r[k] = s[j]
  BY <1>1, <1>2
<1>4. ASSUME NEW k \in 1..Len(r), NEW l \in 1..Len(r), k < l PROVE r[k] < r[l]
  <2>1. k \in 1..Len(s)
    BY <1>1, <1>4
  <2>2. CASE l = Len(s) + 1
    BY <1>1, <2>1, <2>2
  <2>3. CASE l \in 1..Len(s)
    <3>1. r[k] = s[k] /\ r[l] = s[l]
      BY <1>1, <2>1, <2>3
    <3> QED BY <1>4, <2>1, <2>3, <3>1
  <2> QED BY <1>2, <2>2, <2>3
<1> QED BY <1>3, <1>4

LEMMA CommitOrdered ==
  ASSUME TypeOK, OneSlotPerSender, NEW e \in Ed, Ordered(e), Receives(e, "COMMIT"),
         down' = Transmit(down, e, "COMMIT_ACK"), NEW i \in SlotsOf(e),
         rx_buffer' = [rx_buffer EXCEPT ![i] = EmptyRx],
         log' = [log EXCEPT ![e] = Append(@, rx_buffer[i].msg)]
  PROVE  Ordered(e)'
<1> DEFINE n == Head(up[e]).msg
           m == rx_buffer[i].msg
           t == Tail(up[e])
<1>0. "COMMIT_ACK" \in DownPacket
  BY DEF DownPacket
<1>1. /\ Head(up[e]) \in UpPacket /\ Head(up[e]).type = "COMMIT"
      /\ ed_tx_buffer' = ed_tx_buffer /\ sent' = sent /\ waiting' = waiting
      /\ up'[e] = t
      /\ up[e] \in Seq(UpPacket) /\ up[e] # <<>>
      /\ Sorted(t) /\ Above(t, Rank(Head(up[e])))
      /\ \A b \in Nat : Above(up[e], b) => Above(t, b) /\ b <= Rank(Head(up[e]))
      /\ \A b \in Nat : Below(up[e], b) => Below(t, b) /\ Rank(Head(up[e])) <= b
  BY <1>0, HeadOrder
<1>2. n \in Nat /\ Rank(Head(up[e])) = 2 * n + 1
  BY <1>1 DEF Rank, UpPacket
<1>3. sent[e] \in Nat /\ 2 * sent[e] \in Nat /\ 2 * sent[e] + 1 \in Nat /\ 2 \in Nat
  BY DEF TypeOK, EdTypeOK
<1>4. m \in 1..sent[e] /\ Above(up[e], 2 * m)
  BY DEF Ordered, SlotOrder
<1>5. m <= n
  <2>1. 2 * m \in Nat
    BY <1>3, <1>4
  <2>2. 2 * m <= 2 * n + 1
    BY <1>1, <1>2, <1>4, <2>1
  <2> QED BY <1>2, <1>3, <1>4, <2>2
<1>6. Above(t, 2 * m + 1)
  <2>1. \A k \in 1..Len(t) : t[k] \in UpPacket
    BY <1>1
  <2>2. \A k \in 1..Len(t) : Rank(t[k]) \in Nat
    BY <2>1, RankType
  <2>3. m \in Nat /\ n \in Nat
    BY <1>2, <1>3, <1>4
  <2> HIDE DEF m, n, t
  <2>4. \A x \in Nat : 2 * n + 1 <= x => 2 * m + 1 <= x
    BY <1>5, <2>3
  <2>5. Above(t, 2 * n + 1)
    <3>1. Above(t, Rank(Head(up[e])))
      BY <1>1
    <3> QED BY <1>2, <3>1, Zenon
  <2>6. \A k \in 1..Len(t) : 2 * m + 1 <= Rank(t[k])
    BY <2>2, <2>4, <2>5 DEF Above
  <2> QED BY <2>6 DEF Above
<1>7. Retransmits(e) => m < sent[e]
  <2> SUFFICES ASSUME Retransmits(e) PROVE m < sent[e]
    OBVIOUS
  <2>1. Below(up[e], 2 * sent[e])
    BY DEF Ordered, ChannelOrder
  <2>2. 2 * n + 1 <= 2 * sent[e]
    BY <1>1, <1>2, <1>3, <2>1
  <2>3. m \in Nat /\ n \in Nat /\ sent[e] \in Nat
    BY <1>2, <1>3, <1>4
  <2> HIDE DEF m, n
  <2> QED BY <1>5, <2>2, <2>3
<1>8. SlotsOf(e)' = {}
  <2>1. i \in Slot /\ \A j \in Slot : j # i => rx_buffer'[j] = rx_buffer[j]
    BY DEF TypeOK, SlotsOf
  <2>2. rx_buffer'[i].empty
    BY <2>1 DEF TypeOK, EmptyRx
  <2>3. \A j \in SlotsOf(e) : j = i
    BY DEF OneSlotPerSender, SlotsOf
  <2> QED BY <2>1, <2>2, <2>3 DEF SlotsOf
<1>9. ChannelOrder(e)'
  BY <1>1, <1>3 DEF Ordered, ChannelOrder, Retransmits
<1>10. SlotOrder(e)'
  BY <1>8 DEF SlotOrder
<1>11. LogOrder(e)'
  <2>1. log[e] \in Seq(Nat) /\ log'[e] = Append(log[e], m) /\ m \in Nat
    BY <1>3, <1>4 DEF TypeOK
  <2>2. \A k \in 1..Len(log[e]) : log[e][k] \in 1..sent[e]
    BY DEF Ordered, LogOrder
  <2>3. /\ \A k \in 1..Len(log'[e]) :
             log'[e][k] = m \/ \E j \in 1..Len(log[e]) : log'[e][k] = log[e][j]
        /\ \A k, l \in 1..Len(log'[e]) : k < l => log'[e][k] < log'[e][l]
    <3>1. \A k \in 1..Len(log[e]) : log[e][k] < m
      BY DEF Ordered, LogOrder
    <3>2. \A k, l \in 1..Len(log[e]) : k < l => log[e][k] < log[e][l]
      BY DEF Ordered, LogOrder
    <3> HIDE DEF m
    <3> QED BY <2>1, <3>1, <3>2, AppendLog
  <2>4. \A j \in 1..Len(log[e]) : /\ Above(t, 2 * log[e][j] + 1)
                                  /\ Retransmits(e) => log[e][j] < sent[e]
    <3>1. \A x \in 1..sent[e] : 2 * x + 1 \in Nat
      BY <1>3
    <3>2. \A j \in 1..Len(log[e]) : 2 * log[e][j] + 1 \in Nat
      BY <2>2, <3>1
    <3>3. \A b \in Nat : Above(up[e], b) => Above(t, b)
      BY <1>1
    <3> HIDE DEF t
    <3> QED BY <3>2, <3>3 DEF Ordered, LogOrder
  <2>5. \A k \in 1..Len(log'[e]) : /\ log'[e][k] \in 1..sent[e]
                                   /\ Above(t, 2 * log'[e][k] + 1)
                                   /\ Retransmits(e) => log'[e][k] < sent[e]
    <3> SUFFICES ASSUME NEW k \in 1..Len(log'[e])
                 PROVE  /\ log'[e][k] \in 1..sent[e]
                        /\ Above(t, 2 * log'[e][k] + 1)
                        /\ Retransmits(e) => log'[e][k] < sent[e]
      OBVIOUS
    <3>1. CASE log'[e][k] = m
      <4> HIDE DEF m, t
      <4>1. 2 * log'[e][k] + 1 = 2 * m + 1
        BY <3>1
      <4> QED BY <1>4, <1>6, <1>7, <3>1, <4>1
    <3>2. ASSUME NEW j \in 1..Len(log[e]), log'[e][k] = log[e][j]
          PROVE  /\ log'[e][k] \in 1..sent[e]
                 /\ Above(t, 2 * log'[e][k] + 1)
                 /\ Retransmits(e) => log'[e][k] < sent[e]
      <4> HIDE DEF m, t
      <4>1. 2 * log'[e][k] + 1 = 2 * log[e][j] + 1
        BY <3>2
      <4> QED BY <2>2, <2>4, <3>2, <4>1
    <3> QED BY <2>3, <3>1, <3>2
  <2>6. up'[e] = t /\ sent'[e] = sent[e] /\ (Retransmits(e)' <=> Retransmits(e))
    BY <1>1 DEF Retransmits
  <2> HIDE DEF m, t
  <2>7. \A k \in 1..Len(log'[e]) : /\ log'[e][k] \in 1..sent'[e]
                                   /\ Above(up'[e], 2 * log'[e][k] + 1)
                                   /\ Retransmits(e)' => log'[e][k] < sent'[e]
    BY <2>5, <2>6
  <2>8. \A k, l \in 1..Len(log'[e]) : k < l => log'[e][k] < log'[e][l]
    BY <2>3
  <2>9. \A k \in 1..Len(log'[e]) : \A j \in SlotsOf(e)' : log'[e][k] < rx_buffer'[j].msg
    BY <1>8
  <2> QED BY <2>7, <2>8, <2>9 DEF LogOrder
<1> QED BY <1>9, <1>10, <1>11 DEF Ordered

LEMMA StepOrdered ==
  ASSUME ~Preempted, TypeOK, OneSlotPerSender, InOrderInv, [Next]_vars, NEW f \in Ed
  PROVE  Ordered(f)'
<1>0. \A e \in Ed : Ordered(e)
  BY DEF InOrderInv, Ordered
<1>1. CASE UNCHANGED vars
  <2>1. UNCHANGED <<ed_tx_buffer, waiting, up, sent, log, rx_buffer>>
    BY <1>1 DEF vars, edVars
  <2>2. SlotsOf(f)' = SlotsOf(f)
    BY <2>1 DEF SlotsOf
  <2> QED BY <1>0, <2>1, <2>2, OrderedFrame
<1>2. CASE Restart
  <2>1. UNCHANGED <<ed_tx_buffer, waiting, up, sent, log>>
    BY <1>2 DEF Restart, edVars
  <2>2. SlotsOf(f)' = {}
    BY <1>2 DEF Restart, SlotsOf, EmptyRx
  <2> QED BY <1>0, <2>1, <2>2, OrderedFrame
<1>3. ASSUME NEW e \in Ed, EdNext(e), UNCHANGED <<rx_buffer, log, restarts>>
      PROVE  Ordered(f)'
  <2>1. SlotsOf(f)' = SlotsOf(f)
    BY <1>3 DEF SlotsOf
  <2>2. CASE e = f
    BY <1>0, <1>3, <2>2, EdStepOrdered
  <2>3. CASE e # f
    <3>1. /\ ed_tx_buffer'[f] = ed_tx_buffer[f]
          /\ up'[f] = up[f]
          /\ sent'[f] = sent[f]
          /\ waiting'[f] = waiting[f]
      BY <1>3, <2>3, EdStepFrame DEF TypeOK
    <3> QED BY <1>0, <1>3, <2>1, <3>1, OrderedFrame
  <2> QED BY <2>2, <2>3
<1>4. ASSUME NEW e \in Ed, NEW type, NEW p \in DownPacket,
             Receives(e, type), down' = Transmit(down, e, p), UNCHANGED <<rx_buffer, log>>
      PROVE  Ordered(f)'
  <2>1. SlotsOf(f)' = SlotsOf(f)
    BY <1>4 DEF SlotsOf
  <2>2. UNCHANGED <<ed_tx_buffer, waiting, sent>>
    BY <1>4 DEF Receives
  <2>3. CASE e = f
    <3>1. up'[f] = Tail(up[f]) /\ up[f] # <<>>
      BY <1>4, <2>3, ReceivesFrame DEF TypeOK, Receives
    <3>2. Retransmits(f)' => Retransmits(f)
      BY <2>2 DEF Retransmits
    <3>3. waiting'[f] = 0
      BY <1>0, <2>2 DEF Ordered, ChannelOrder
    <3> QED BY <1>0, <1>4, <2>2, <3>1, <3>2, <3>3, QuietStep
  <2>4. CASE e # f
    <3>1. up'[f] = up[f]
      BY <1>4, <2>4, ReceivesFrame DEF TypeOK
    <3> QED BY <1>0, <1>4, <2>1, <2>2, <3>1, OrderedFrame
  <2> QED BY <2>3, <2>4
<1>5. ASSUME NEW e \in Ed, DataAgain(e) PROVE Ordered(f)'
  <2>1. "ACK" \in DownPacket
    BY DEF DownPacket
  <2> QED BY <1>4, <1>5, <2>1 DEF DataAgain
<1>6. ASSUME NEW e \in Ed, DataNew(e) PROVE Ordered(f)'
  <2>1. "ACK" \in DownPacket /\ "BUSY" \in DownPacket
    BY DEF DownPacket
  <2>2. CASE FreeSlots = {} /\ down' = Transmit(down, e, "BUSY") /\ UNCHANGED rx_buffer
    BY <1>4, <1>6, <2>1, <2>2 DEF DataNew, Store
  <2>3. ASSUME NEW i \in Slot, First(i, FreeSlots), down' = Transmit(down, e, "ACK"),
               rx_buffer' = [rx_buffer EXCEPT ![i] =
                 [empty |-> FALSE, ed |-> e, msg |-> Head(up[e]).msg]]
        PROVE  Ordered(f)'
    <3>0. Receives(e, "DATA") /\ SlotsOf(e) = {} /\ log' = log
      BY <1>6 DEF DataNew, Store
    <3>1. CASE e = f
      BY <1>0, <2>3, <3>0, <3>1, StoreOrdered
    <3>2. CASE e # f
      <4>1. up'[f] = up[f] /\ UNCHANGED <<ed_tx_buffer, waiting, sent>>
        BY <2>1, <2>3, <3>0, <3>2, ReceivesFrame DEF TypeOK
      <4>2. i \notin SlotsOf(f)
        BY <2>3 DEF First, FreeSlots, SlotsOf
      <4>3. \A j \in Slot : j # i => rx_buffer'[j] = rx_buffer[j]
        BY <2>3 DEF TypeOK
      <4>4. rx_buffer'[i].ed = e
        BY <2>3 DEF TypeOK
      <4>5. \A j \in SlotsOf(f)' : j \in SlotsOf(f) /\ rx_buffer'[j] = rx_buffer[j]
        BY <3>2, <4>2, <4>3, <4>4 DEF SlotsOf
      <4> QED BY <1>0, <3>0, <4>1, <4>5, OrderedFrame
    <3> QED BY <3>1, <3>2
  <2> QED BY <1>6, <2>2, <2>3 DEF DataNew, Store
<1>7. ASSUME NEW e \in Ed, Commit(e) PROVE Ordered(f)'
  <2>1. "COMMIT_ACK" \in DownPacket
    BY DEF DownPacket
  <2>2. Receives(e, "COMMIT") /\ down' = Transmit(down, e, "COMMIT_ACK")
    BY <1>7 DEF Commit
  <2>3. CASE SlotsOf(e) = {} /\ UNCHANGED <<log, rx_buffer>>
    BY <1>4, <2>1, <2>2, <2>3
  <2>4. ASSUME NEW i \in Slot, First(i, SlotsOf(e)),
               log' = [log EXCEPT ![e] = Append(@, rx_buffer[i].msg)],
               rx_buffer' = [rx_buffer EXCEPT ![i] = EmptyRx]
        PROVE  Ordered(f)'
    <3>0. i \in SlotsOf(e)
      BY <2>4 DEF First
    <3>1. CASE e = f
      BY <1>0, <2>2, <2>4, <3>0, <3>1, CommitOrdered
    <3>2. CASE e # f
      <4>1. up'[f] = up[f] /\ UNCHANGED <<ed_tx_buffer, waiting, sent>>
        BY <2>1, <2>2, <3>2, ReceivesFrame DEF TypeOK
      <4>2. log'[f] = log[f]
        BY <2>4, <3>2 DEF TypeOK
      <4>3. \A j \in Slot : j # i => rx_buffer'[j] = rx_buffer[j]
        BY <2>4 DEF TypeOK
      <4>4. rx_buffer'[i].empty
        BY <2>4 DEF TypeOK, EmptyRx
      <4>5. \A j \in SlotsOf(f)' : j \in SlotsOf(f) /\ rx_buffer'[j] = rx_buffer[j]
        BY <4>3, <4>4 DEF SlotsOf
      <4> QED BY <1>0, <4>1, <4>2, <4>5, OrderedFrame
    <3> QED BY <3>1, <3>2
  <2> QED BY <1>7, <2>3, <2>4 DEF Commit
<1> QED BY <1>1, <1>2, <1>3, <1>5, <1>6, <1>7 DEF Next

(* The order along channel, slots and log is an invariant, over losses,    *)
(* repetitions, transfers given up and restarts of both sides, if no       *)
(* interrupt comes while LINK_send_ed waits to send DATA.                  *)
THEOREM OrderInvariant ==
  ASSUME ~Preempted
  PROVE  Spec => []InOrderInv
<1>1. Init => InOrderInv
  <2> SUFFICES ASSUME Init, NEW e \in Ed PROVE Ordered(e)
    BY DEF InOrderInv, Ordered
  <2>1. /\ ed_tx_buffer[e].empty /\ waiting[e] = 0
        /\ up[e] = <<>> /\ sent[e] = 0 /\ log[e] = <<>>
    BY DEF Init, EdInit, EmptyTx
  <2>2. SlotsOf(e) = {}
    BY DEF Init, SlotsOf, EmptyRx
  <2>3. ChannelOrder(e)
    BY <2>1 DEF ChannelOrder, Sorted, Above, Below
  <2>4. SlotOrder(e) /\ LogOrder(e)
    BY <2>1, <2>2 DEF SlotOrder, LogOrder
  <2> QED BY <2>3, <2>4 DEF Ordered
<1>2. TypeOK /\ OneSlotPerSender /\ InOrderInv /\ [Next]_vars => InOrderInv'
  <2> SUFFICES ASSUME TypeOK, OneSlotPerSender, InOrderInv, [Next]_vars, NEW f \in Ed
               PROVE  Ordered(f)'
    BY DEF InOrderInv, Ordered
  <2> QED BY StepOrdered
<1> QED BY <1>1, <1>2, TypeCorrect, SlotsCorrect, PTL DEF Spec

(* The coordinator's network layer gets the payloads of each device in the *)
(* order of submission and none of them twice, under the same condition.   *)
THEOREM DeliveryCorrect ==
  ASSUME ~Preempted
  PROVE  Spec => []InOrderAtMostOnce
<1>1. TypeOK /\ InOrderInv => InOrderAtMostOnce
  <2> SUFFICES ASSUME TypeOK, InOrderInv, NEW e \in Ed
               PROVE  /\ \A i, j \in DOMAIN log[e] : i < j => log[e][i] < log[e][j]
                      /\ \A i \in DOMAIN log[e] : log[e][i] \in 1..sent[e]
    BY DEF InOrderAtMostOnce
  <2>1. DOMAIN log[e] = 1..Len(log[e])
    BY DEF TypeOK
  <2> QED BY <2>1 DEF InOrderInv, LogOrder
<1> QED BY <1>1, TypeCorrect, OrderInvariant, PTL

-----------------------------------------------------------------------------
(* The handshake implements the transfer service.                          *)

Pending == [e \in Ed |-> ~ed_tx_buffer[e].empty]

(* A step of a device that ends its transfer, or neither ends nor starts   *)
(* one.                                                                    *)
LEMMA EndStep ==
  ASSUME TypeOK, NEW e \in Ed, UNCHANGED <<sent, log>>, NEW r \in TxRecord,
         ed_tx_buffer' = [ed_tx_buffer EXCEPT ![e] = r],
         r.empty \/ ~ed_tx_buffer[e].empty
  PROVE  [TransferService!Next]_(TransferService!vars)
<1>1. ed_tx_buffer \in [Ed -> TxRecord] /\ r.empty \in BOOLEAN
  BY DEF TypeOK, EdTypeOK, TxRecord
<1>2. Pending' = [Pending EXCEPT ![e] = ~r.empty]
  BY <1>1 DEF Pending
<1>3. Pending[e] = ~ed_tx_buffer[e].empty
  BY DEF Pending
<1>4. CASE Pending[e] /\ r.empty
  <2>1. Pending' = [Pending EXCEPT ![e] = FALSE]
    BY <1>2, <1>4
  <2>2. TransferService!End({e})
    BY <1>4, <2>1 DEF TransferService!End, Pending
  <2> QED BY <2>2 DEF TransferService!Next
<1>5. CASE Pending[e] = ~r.empty
  <2>1. Pending' = Pending
    BY <1>2, <1>5 DEF Pending
  <2> QED BY <2>1 DEF TransferService!vars, Pending
<1> QED BY <1>1, <1>3, <1>4, <1>5

LEMMA EdStepImplements ==
  ASSUME TypeOK, NEW e \in Ed, EdNext(e), log' = log
  PROVE  [TransferService!Next]_(TransferService!vars)
<1> DEFINE tx == ed_tx_buffer[e]
           Goal == [TransferService!Next]_(TransferService!vars)
<1> SUFFICES Goal
  OBVIOUS
<1> HIDE DEF Goal
<1>0. /\ ed_tx_buffer \in [Ed -> TxRecord]
      /\ timer_counter \in [Ed -> 0..(TimerMod - 1)]
      /\ tx.state \in {DATA_SENT, COMMIT_SENT} /\ tx.msg \in Nat
      /\ tx.transmits_to_error \in 0..MaxRetries
      /\ EmptyTx.empty /\ EmptyTx \in TxRecord /\ MaxRetries \in 0..MaxRetries
  <2>1. /\ ed_tx_buffer \in [Ed -> TxRecord]
        /\ timer_counter \in [Ed -> 0..(TimerMod - 1)]
    BY DEF TypeOK, EdTypeOK
  <2>2. /\ tx.state \in {DATA_SENT, COMMIT_SENT} /\ tx.msg \in Nat
        /\ tx.transmits_to_error \in 0..MaxRetries
    BY <2>1 DEF TxRecord
  <2>3. EmptyTx.empty /\ MaxRetries \in 0..MaxRetries
    BY EdLinkAssumption DEF EmptyTx
  <2> QED BY <2>1, <2>2, <2>3, EmptyTxType
<1>1. ASSUME UNCHANGED <<ed_tx_buffer, sent>> PROVE Goal
  BY <1>1 DEF Goal, TransferService!vars
<1>2. ASSUME sent' = sent, ed_tx_buffer' = [ed_tx_buffer EXCEPT ![e] = EmptyTx]
      PROVE  Goal
  BY <1>0, <1>2, EndStep DEF Goal
<1>3. ASSUME sent' = sent, ~tx.empty, NEW state \in {DATA_SENT, COMMIT_SENT},
             NEW t \in Nat, NEW d \in Nat, NEW k \in 0..MaxRetries,
             ed_tx_buffer' = [ed_tx_buffer EXCEPT ![e] = InUse(state, Later(t, d), k, tx.msg)]
      PROVE  Goal
  <2>1. InUse(state, Later(t, d), k, tx.msg) \in TxRecord
    BY <1>0, <1>3, LaterType, InUseType
  <2> QED BY <1>3, <2>1, EndStep DEF Goal
<1>4. timer_counter[e] \in Nat /\ Later(timer_counter[e], 1) \in Nat
  <2>1. timer_counter[e] \in Nat
    BY <1>0
  <2>2. Later(timer_counter[e], 1) \in 0..(TimerMod - 1)
    BY <2>1, LaterType
  <2> QED BY <2>1, <2>2
<1>5. CASE LINK_send_ed(e)
  <2>1. tx.empty /\ sent' = [sent EXCEPT ![e] = @ + 1]
    BY <1>5 DEF LINK_send_ed
  <2>2. \E r : /\ ~r.empty
               /\ ed_tx_buffer' = [ed_tx_buffer EXCEPT ![e] = r]
    BY <1>5 DEF LINK_send_ed, InUse
  <2>3. Pending' = [Pending EXCEPT ![e] = TRUE] /\ ~Pending[e]
    BY <1>0, <2>1, <2>2 DEF Pending
  <2>4. TransferService!Submit(e)
    BY <2>1, <2>3 DEF TransferService!Submit, Pending
  <2> QED BY <2>4 DEF TransferService!Next, Goal
<1>6. CASE ed_process_ack(e)
  BY <1>0, <1>1, <1>3, <1>4, <1>6 DEF ed_process_ack
<1>7. CASE ed_process_busy(e)
  BY <1>0, <1>1, <1>3, <1>4, <1>7 DEF ed_process_busy
<1>8. CASE ed_process_commit_ack(e)
  BY <1>2, <1>8 DEF ed_process_commit_ack
<1>9. CASE PHY_timer_interrupt(e)
  <2>1. sent' = sent /\ timer_counter'[e] = Later(timer_counter[e], 1)
    BY <1>0, <1>9 DEF PHY_timer_interrupt
  <2>2. CASE UNCHANGED ed_tx_buffer
    BY <1>1, <2>1, <2>2
  <2>3. CASE ed_tx_buffer' = [ed_tx_buffer EXCEPT ![e] = EmptyTx]
    BY <1>2, <2>1, <2>3
  <2>4. CASE /\ ~tx.empty /\ tx.transmits_to_error # 0
             /\ ed_tx_buffer' = [ed_tx_buffer EXCEPT ![e] =
                  InUse(tx.state, Later(timer_counter'[e], 2),
                        tx.transmits_to_error - 1, tx.msg)]
    <3>1. tx.transmits_to_error - 1 \in 0..MaxRetries
      BY <1>0, <2>4, EdLinkAssumption, RadioAssumption
    <3>2. timer_counter'[e] \in Nat
      BY <1>4, <2>1
    <3> QED BY <1>0, <1>3, <2>1, <2>4, <3>1, <3>2
  <2> QED BY <1>9, <2>2, <2>3, <2>4 DEF PHY_timer_interrupt, check_buffers_state, Due, Rescheduled, Resent
<1>10. CASE LINK_init(e)
  BY <1>2, <1>10 DEF LINK_init
<1>11. CASE Lose(e)
  BY <1>1, <1>11 DEF Lose
<1>12. CASE PHY_send_with_cca(e)
  BY <1>1, <1>12 DEF PHY_send_with_cca
<1> QED BY <1>5, <1>6, <1>7, <1>8, <1>9, <1>10, <1>11, <1>12 DEF EdNext

(* The payload in the slot of a COMMIT is one the service may hand over.   *)
LEMMA CommitImplements ==
  ASSUME TypeOK, AgedInv, ~Preempted => InOrderInv, NEW e \in Ed, NEW i \in SlotsOf(e),
         UNCHANGED <<ed_tx_buffer, sent>>,
         log' = [log EXCEPT ![e] = Append(@, rx_buffer[i].msg)]
  PROVE  TransferService!Next
<1> DEFINE m == rx_buffer[i].msg
           last == TransferService!LastHandedOver(e)
<1>1. sent[e] \in Nat /\ log[e] \in Seq(Nat)
  BY DEF TypeOK, EdTypeOK
<1>2. m \in 1..sent[e]
  BY DEF AgedInv, Aged
<1>3. last \in Nat /\ last <= m /\ (~Preempted => last < m)
  <2>1. CASE log[e] = <<>>
    BY <1>1, <1>2, <2>1 DEF TransferService!LastHandedOver
  <2>2. CASE log[e] # <<>>
    <3>1. Len(log[e]) \in 1..Len(log[e]) /\ last = log[e][Len(log[e])]
      BY <1>1, <2>2 DEF TransferService!LastHandedOver
    <3>2. log[e][Len(log[e])] \in 1..sent[e] /\ log[e][Len(log[e])] <= m
      BY <3>1 DEF AgedInv, Aged
    <3>3. ~Preempted => log[e][Len(log[e])] < m
      BY <3>1 DEF InOrderInv, LogOrder
    <3> QED BY <1>1, <3>1, <3>2, <3>3
  <2> QED BY <2>1, <2>2
<1>4. m \in 1..sent[e] /\ (m > last \/ (Preempted /\ m = last))
  <2> HIDE DEF last, m
  <2> QED BY <1>1, <1>2, <1>3, EdLinkAssumption
<1>5. TransferService!HandOver(e)
  BY <1>4 DEF TransferService!HandOver
<1> QED BY <1>5 DEF TransferService!Next

(* The handshake implements the transfer service: payloads are submitted   *)
(* one at a time and handed over in order, whatever the radio loses and    *)
(* whoever restarts; each at most once, unless interrupts come while       *)
(* LINK_send_ed waits for the air, when the last one may come again.       *)
THEOREM HandshakeImplementsTransfer == Spec => ImplementsTransfer
<1>1. Init => TransferService!Init
  <2> SUFFICES ASSUME Init PROVE TransferService!Init
    OBVIOUS
  <2>1. \A e \in Ed : ed_tx_buffer[e].empty
    BY DEF Init, EdInit, EmptyTx
  <2>2. [e \in Ed |-> ~ed_tx_buffer[e].empty] = [e \in Ed |-> FALSE]
    BY <2>1
  <2> QED BY <2>2 DEF Init, EdInit, TransferService!Init
<1>2. /\ TypeOK /\ AgedInv /\ (~Preempted => InOrderInv) /\ [Next]_vars
      => [TransferService!Next]_(TransferService!vars)
  <2> SUFFICES ASSUME TypeOK, AgedInv, ~Preempted => InOrderInv, [Next]_vars
               PROVE  [TransferService!Next]_(TransferService!vars)
    OBVIOUS
  <2>1. ASSUME UNCHANGED <<ed_tx_buffer, sent, log>>
        PROVE  UNCHANGED TransferService!vars
    BY <2>1 DEF TransferService!vars
  <2>2. CASE UNCHANGED vars \/ Restart
    BY <2>1, <2>2 DEF vars, edVars, Restart
  <2>3. ASSUME NEW e \in Ed, EdNext(e), UNCHANGED <<rx_buffer, log, restarts>>
        PROVE  [TransferService!Next]_(TransferService!vars)
    BY <2>3, EdStepImplements
  <2>4. ASSUME NEW e \in Ed, DataAgain(e) \/ DataNew(e)
        PROVE  UNCHANGED TransferService!vars
    BY <2>1, <2>4 DEF DataAgain, DataNew, Store, Receives
  <2>5. ASSUME NEW e \in Ed, Commit(e)
        PROVE  [TransferService!Next]_(TransferService!vars)
    <3>1. UNCHANGED <<ed_tx_buffer, sent>>
      BY <2>5 DEF Commit, Receives
    <3>2. CASE UNCHANGED log
      BY <2>1, <3>1, <3>2
    <3>3. ASSUME NEW i \in Slot, First(i, SlotsOf(e)),
                 log' = [log EXCEPT ![e] = Append(@, rx_buffer[i].msg)]
          PROVE  TransferService!Next
      <4>1. i \in SlotsOf(e)
        BY <3>3 DEF First
      <4> QED BY <3>1, <3>3, <4>1, CommitImplements
    <3> QED BY <2>5, <3>2, <3>3 DEF Commit
  <2> QED BY <2>2, <2>3, <2>4, <2>5 DEF Next
<1>3. CASE Preempted
  <2>1. Spec => [](~Preempted => InOrderInv)
    <3>1. TypeOK => (~Preempted => InOrderInv)
      BY <1>3
    <3> QED BY <3>1, TypeCorrect, PTL
  <2> QED BY <1>1, <1>2, <2>1, TypeCorrect, AgedInvariant, PTL
          DEF Spec, ImplementsTransfer, TransferService!Spec
<1>4. CASE ~Preempted
  <2>1. Spec => []InOrderInv
    BY <1>4, OrderInvariant
  <2>2. InOrderInv => (~Preempted => InOrderInv)
    OBVIOUS
  <2> QED BY <1>1, <1>2, <2>1, <2>2, TypeCorrect, AgedInvariant, PTL
          DEF Spec, ImplementsTransfer, TransferService!Spec
<1> QED BY <1>3, <1>4
=============================================================================
