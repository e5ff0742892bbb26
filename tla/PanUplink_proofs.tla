-------------------------- MODULE PanUplink_proofs --------------------------
(***************************************************************************)
(* Proofs about the transfer of payloads from end devices to the gateway,  *)
(* for any number of devices, slots and retransmissions, any radio         *)
(* capacity and any number of payloads that the gateway sends itself.      *)
(***************************************************************************)
EXTENDS PanUplink, FiniteSetTheorems, TLAPS

-----------------------------------------------------------------------------
(* The sending half, the same as in CoordUplink_proofs: that module and    *)
(* this one each extend a module that defines the slots its own way.       *)

(* A clock value ticks on within its range.                                *)
LEMMA LaterType ==
  \A t, d \in Nat : Later(t, d) \in 0..(TimerMod - 1)
BY EdLinkAssumption, RadioAssumption DEF Later

LEMMA TransmitUpType ==
  ASSUME NEW e \in Ed, NEW ch \in [Ed -> Seq(UpPacket)], NEW p \in UpPacket
  PROVE  Transmit(ch, e, p) \in [Ed -> Seq(UpPacket)]
BY DEF Transmit

LEMMA TransmitDownType ==
  ASSUME NEW e \in Ed, NEW ch \in [Ed -> Seq(DownPacket)], NEW p \in DownPacket
  PROVE  Transmit(ch, e, p) \in [Ed -> Seq(DownPacket)]
BY DEF Transmit

LEMMA ConsumeType ==
  ASSUME NEW S, NEW e \in Ed, NEW ch \in [Ed -> Seq(S)], ch[e] # <<>>
  PROVE  Consume(ch, e) \in [Ed -> Seq(S)]
BY DEF Consume

LEMMA EmptyTxType == EmptyTx \in TxRecord
BY EdLinkAssumption, RadioAssumption DEF EmptyTx, TxRecord, DATA_SENT, COMMIT_SENT

LEMMA PacketType ==
  \A n \in Nat : DataPacket(n) \in UpPacket /\ CommitPacket(n) \in UpPacket
BY DEF DataPacket, CommitPacket, UpPacket

LEMMA InUseType ==
  ASSUME NEW state \in {DATA_SENT, COMMIT_SENT}, NEW t \in 0..(TimerMod - 1),
         NEW k \in 0..MaxRetries, NEW n \in Nat
  PROVE  InUse(state, t, k, n) \in TxRecord
BY DEF InUse, TxRecord

LEMMA EdStepType ==
  ASSUME EdTypeOK, NEW e \in Ed, EdNext(e)
  PROVE  EdTypeOK'
<1> USE EdLinkAssumption, RadioAssumption DEF EdTypeOK
<1>0. timer_counter[e] \in Nat
  OBVIOUS
<1>1. CASE LINK_send_ed(e)
  <2>1. DataPacket(sent[e] + 1) \in UpPacket
    BY PacketType
  <2>2. Later(timer_counter[e], 3) \in 0..(TimerMod - 1)
    BY <1>0, LaterType
  <2>3. InUse(DATA_SENT, Later(timer_counter[e], 3), MaxRetries, sent[e] + 1)
          \in TxRecord
    BY <2>2, InUseType
  <2>4. Transmit(up, e, DataPacket(sent[e] + 1)) \in [Ed -> Seq(UpPacket)]
    BY <2>1, TransmitUpType
  <2>5. /\ up' \in {up, Transmit(up, e, DataPacket(sent[e] + 1))}
        /\ waiting' \in {waiting, [waiting EXCEPT ![e] = sent[e] + 1]}
        /\ sent' = [sent EXCEPT ![e] = @ + 1]
        /\ ed_tx_buffer' = [ed_tx_buffer EXCEPT ![e] =
             InUse(DATA_SENT, Later(timer_counter[e], 3), MaxRetries, sent[e] + 1)]
        /\ UNCHANGED <<timer_counter, down, done>>
    BY <1>1, Zenon DEF LINK_send_ed
  <2>6. sent' \in [Ed -> Nat]
    BY <2>5
  <2>7. [waiting EXCEPT ![e] = sent[e] + 1] \in [Ed -> Nat]
    OBVIOUS
  <2>8. waiting' \in [Ed -> Nat]
    BY <2>5, <2>7
  <2> QED BY <2>3, <2>4, <2>5, <2>6, <2>8
<1>2. CASE ed_process_ack(e)
  <2>1. down' \in [Ed -> Seq(DownPacket)]
    BY <1>2, ConsumeType DEF ed_process_ack, EdReceives
  <2>2. CASE ~ed_tx_buffer[e].empty
    <3>0. ed_tx_buffer[e].msg \in Nat
      BY DEF TxRecord
    <3>1. CommitPacket(ed_tx_buffer[e].msg) \in UpPacket
      BY <3>0, PacketType
    <3>2. Later(timer_counter[e], 2) \in 0..(TimerMod - 1)
      BY <1>0, LaterType
    <3>3. InUse(COMMIT_SENT, Later(timer_counter[e], 2), MaxRetries,
                ed_tx_buffer[e].msg) \in TxRecord
      <4>1. ed_tx_buffer[e].msg \in Nat
        BY DEF TxRecord
      <4> QED BY <3>2, <4>1, InUseType
    <3>4. up' = Transmit(up, e, CommitPacket(ed_tx_buffer[e].msg))
      BY <1>2, <2>2 DEF ed_process_ack
    <3>5. up' \in [Ed -> Seq(UpPacket)]
      BY <3>1, <3>4, TransmitUpType
    <3> QED BY <1>2, <2>1, <2>2, <3>3, <3>5 DEF ed_process_ack
  <2>3. CASE ed_tx_buffer[e].empty
    BY <1>2, <2>1, <2>3 DEF ed_process_ack
  <2> QED BY <2>2, <2>3 DEF TxRecord
<1>3. CASE ed_process_busy(e)
  <2>1. down' \in [Ed -> Seq(DownPacket)]
    BY <1>3, ConsumeType DEF ed_process_busy, EdReceives
  <2>2. Later(timer_counter[e], 3) \in 0..(TimerMod - 1)
    BY <1>0, LaterType
  <2>3. InUse(ed_tx_buffer[e].state, Later(timer_counter[e], 3), MaxRetries,
              ed_tx_buffer[e].msg) \in TxRecord
    <3>1. /\ ed_tx_buffer[e].state \in {DATA_SENT, COMMIT_SENT}
          /\ ed_tx_buffer[e].msg \in Nat
      BY DEF TxRecord
    <3> QED BY <2>2, <3>1, InUseType
  <2> QED BY <1>3, <2>1, <2>3 DEF ed_process_busy
<1>4. CASE ed_process_commit_ack(e)
  <2>1. down' \in [Ed -> Seq(DownPacket)]
    BY <1>4, ConsumeType DEF ed_process_commit_ack, EdReceives
  <2> QED BY <1>4, <2>1, EmptyTxType DEF ed_process_commit_ack
<1>5. CASE PHY_timer_interrupt(e)
  <2>1. timer_counter' \in [Ed -> 0..(TimerMod - 1)]
    <3>1. Later(timer_counter[e], 1) \in 0..(TimerMod - 1)
      BY <1>0, LaterType
    <3> QED BY <1>5, <3>1 DEF PHY_timer_interrupt
  <2>2. /\ ed_tx_buffer' \in [Ed -> TxRecord]
        /\ up' \in [Ed -> Seq(UpPacket)]
    <3> DEFINE tx == ed_tx_buffer[e]
               due == ~tx.empty /\ tx.expiration_time = timer_counter'[e]
               resent == IF tx.state = COMMIT_SENT THEN CommitPacket(tx.msg)
                                                   ELSE DataPacket(tx.msg)
    <3>0. tx \in TxRecord /\ tx.msg \in Nat
      BY DEF TxRecord
    <3>1. resent \in UpPacket
      BY <3>0, PacketType
    <3>2. CASE ~due
      BY <1>5, <3>2 DEF PHY_timer_interrupt, check_buffers_state, Due, Rescheduled, Resent
    <3>3. CASE due /\ tx.transmits_to_error = 0
      <4>1. /\ ed_tx_buffer' = [ed_tx_buffer EXCEPT ![e] = EmptyTx]
            /\ up' = up
        BY <1>5, <3>3 DEF PHY_timer_interrupt, check_buffers_state, Due, Rescheduled, Resent
      <4> QED BY <3>0, <4>1, EmptyTxType
    <3>4. CASE due /\ tx.transmits_to_error # 0
      <4>1. Later(timer_counter'[e], 2) \in 0..(TimerMod - 1)
        <5>1. timer_counter'[e] \in Nat
          BY <2>1
        <5> QED BY <5>1, LaterType
      <4>2. /\ ed_tx_buffer' = [ed_tx_buffer EXCEPT ![e] =
                 InUse(tx.state, Later(timer_counter'[e], 2),
                       tx.transmits_to_error - 1, tx.msg)]
            /\ up' = Transmit(up, e, resent)
        BY <1>5, <3>4 DEF PHY_timer_interrupt, check_buffers_state, Due, Rescheduled, Resent
      <4>3. /\ tx.transmits_to_error - 1 \in 0..MaxRetries
            /\ tx.state \in {DATA_SENT, COMMIT_SENT}
            /\ tx.msg \in Nat
        BY <3>0, <3>4 DEF TxRecord
      <4>4. ed_tx_buffer' \in [Ed -> TxRecord]
        BY <4>1, <4>2, <4>3, InUseType
      <4> QED BY <3>1, <4>2, <4>4, TransmitUpType
    <3> QED BY <3>2, <3>3, <3>4
  <2> QED BY <1>5, <2>1, <2>2 DEF PHY_timer_interrupt
<1>6. CASE LINK_init(e)
  BY <1>6, EmptyTxType DEF LINK_init
<1>7. CASE Lose(e)
  <2>1. CASE up[e] # <<>> /\ up' = Consume(up, e) /\ UNCHANGED down
    BY <1>7, <2>1, ConsumeType DEF Lose
  <2>2. CASE down[e] # <<>> /\ down' = Consume(down, e) /\ UNCHANGED up
    BY <1>7, <2>2, ConsumeType DEF Lose
  <2> QED BY <1>7, <2>1, <2>2 DEF Lose
<1>8. CASE PHY_send_with_cca(e)
  <2>1. DataPacket(waiting[e]) \in UpPacket
    BY PacketType
  <2>2. up' \in [Ed -> Seq(UpPacket)]
    BY <1>8, <2>1, TransmitUpType DEF PHY_send_with_cca
  <2> QED BY <1>8, <2>2 DEF PHY_send_with_cca
<1> QED BY <1>1, <1>2, <1>3, <1>4, <1>5, <1>6, <1>7, <1>8 DEF EdNext

LEMMA HeadUpType ==
  ASSUME EdTypeOK, NEW e \in Ed, up[e] # <<>>
  PROVE  Head(up[e]) \in UpPacket
BY DEF EdTypeOK

(* A step of one device leaves the others and their channels alone.        *)
LEMMA EdStepFrame ==
  ASSUME EdTypeOK, NEW e \in Ed, EdNext(e), NEW f \in Ed, f # e
  PROVE  /\ ed_tx_buffer'[f] = ed_tx_buffer[f]
         /\ timer_counter'[f] = timer_counter[f]
         /\ up'[f] = up[f]
         /\ down'[f] = down[f]
         /\ sent'[f] = sent[f]
         /\ waiting'[f] = waiting[f]
<1> USE DEF EdTypeOK, Transmit, Consume
<1>1. CASE LINK_send_ed(e)
  BY <1>1 DEF LINK_send_ed
<1>2. CASE ed_process_ack(e)
  BY <1>2 DEF ed_process_ack, EdReceives
<1>3. CASE ed_process_busy(e)
  BY <1>3 DEF ed_process_busy, EdReceives
<1>4. CASE ed_process_commit_ack(e)
  BY <1>4 DEF ed_process_commit_ack, EdReceives
<1>5. CASE PHY_timer_interrupt(e)
  BY <1>5 DEF PHY_timer_interrupt, check_buffers_state, Due, Rescheduled, Resent
<1>6. CASE LINK_init(e)
  BY <1>6 DEF LINK_init
<1>7. CASE Lose(e)
  BY <1>7 DEF Lose
<1>8. CASE PHY_send_with_cca(e)
  BY <1>8 DEF PHY_send_with_cca
<1> QED BY <1>1, <1>2, <1>3, <1>4, <1>5, <1>6, <1>7, <1>8 DEF EdNext

(* The router's receive steps touch only the channels of the sender.       *)

(* The device has, or is about to have, the router's word that its payload *)
(* is stored.                                                              *)
AckOut(e) ==
  \/ \E i \in DOMAIN down[e] : down[e][i] = "ACK"
  \/ ed_tx_buffer[e].state = COMMIT_SENT

LEMMA TailAck ==
  ASSUME NEW s \in Seq(DownPacket), s # <<>>,
         \E i \in DOMAIN Tail(s) : Tail(s)[i] = "ACK"
  PROVE  \E i \in DOMAIN s : s[i] = "ACK"
<1>1. PICK i \in 1..Len(Tail(s)) : Tail(s)[i] = "ACK"
  OBVIOUS
<1>2. i + 1 \in 1..Len(s) /\ s[i + 1] = "ACK"
  BY <1>1
<1> QED BY <1>2

LEMMA ConsumeAck ==
  ASSUME EdTypeOK, NEW e \in Ed, down[e] # <<>>, down' = Consume(down, e),
         \E i \in DOMAIN down'[e] : down'[e][i] = "ACK"
  PROVE  \E i \in DOMAIN down[e] : down[e][i] = "ACK"
<1>1. down[e] \in Seq(DownPacket) /\ down'[e] = Tail(down[e])
  BY DEF EdTypeOK, Consume
<1> QED BY <1>1, TailAck

(* No step of a device and no loss gives it this word.                     *)
LEMMA EdStepAck ==
  ASSUME EdTypeOK, NEW e \in Ed, EdNext(e), AckOut(e)'
  PROVE  AckOut(e)
<1> DEFINE acks == \E i \in DOMAIN down[e] : down[e][i] = "ACK"
           acks2 == \E i \in DOMAIN down'[e] : down'[e][i] = "ACK"
<1>0. /\ ed_tx_buffer \in [Ed -> TxRecord]
      /\ DATA_SENT # COMMIT_SENT
      /\ EmptyTx.state = DATA_SENT
      /\ acks2 \/ ed_tx_buffer'[e].state = COMMIT_SENT
  BY DEF EdTypeOK, EmptyTx, DATA_SENT, COMMIT_SENT, AckOut
<1>1. CASE LINK_send_ed(e)
  BY <1>0, <1>1 DEF LINK_send_ed, InUse, AckOut
<1>2. CASE ed_process_ack(e)
  <2>1. down[e] # <<>> /\ Head(down[e]) = "ACK" /\ down[e] \in Seq(DownPacket)
    BY <1>2 DEF ed_process_ack, EdReceives, EdTypeOK
  <2>2. 1 \in DOMAIN down[e] /\ down[e][1] = "ACK"
    BY <2>1
  <2> QED BY <2>2 DEF AckOut
<1>3. CASE ed_process_busy(e)
  <2>1. down[e] # <<>> /\ down' = Consume(down, e)
    BY <1>3 DEF ed_process_busy, EdReceives
  <2>2. acks2 => acks
    BY <2>1, ConsumeAck
  <2>3. ed_tx_buffer'[e].state = ed_tx_buffer[e].state
    BY <1>0, <1>3 DEF ed_process_busy, InUse
  <2> QED BY <1>0, <2>2, <2>3 DEF AckOut
<1>4. CASE ed_process_commit_ack(e)
  <2>1. down[e] # <<>> /\ down' = Consume(down, e)
    BY <1>4 DEF ed_process_commit_ack, EdReceives
  <2>2. acks2 => acks
    BY <2>1, ConsumeAck
  <2>3. ed_tx_buffer'[e].state = DATA_SENT
    BY <1>0, <1>4 DEF ed_process_commit_ack
  <2> QED BY <1>0, <2>2, <2>3 DEF AckOut
<1>5. CASE PHY_timer_interrupt(e)
  <2>1. \/ ed_tx_buffer'[e].state = ed_tx_buffer[e].state
        \/ ed_tx_buffer'[e].state = DATA_SENT
    BY <1>0, <1>5 DEF PHY_timer_interrupt, check_buffers_state, Rescheduled, InUse
  <2>2. down' = down
    BY <1>5 DEF PHY_timer_interrupt
  <2> QED BY <1>0, <2>1, <2>2 DEF AckOut
<1>6. CASE LINK_init(e)
  BY <1>0, <1>6 DEF LINK_init, AckOut
<1>7. CASE Lose(e)
  <2>1. ed_tx_buffer' = ed_tx_buffer
    BY <1>7 DEF Lose
  <2>2. acks2 => acks
    <3>1. CASE down' = down
      BY <3>1
    <3>2. CASE down[e] # <<>> /\ down' = Consume(down, e)
      BY <3>2, ConsumeAck
    <3> QED BY <1>7, <3>1, <3>2 DEF Lose
  <2> QED BY <1>0, <2>1, <2>2 DEF AckOut
<1>8. CASE PHY_send_with_cca(e)
  BY <1>0, <1>8 DEF PHY_send_with_cca, AckOut
<1> QED BY <1>1, <1>2, <1>3, <1>4, <1>5, <1>6, <1>7, <1>8 DEF EdNext

-----------------------------------------------------------------------------
(* Type correctness.                                                       *)

LEMMA ReceivesType ==
  ASSUME EdTypeOK, NEW e \in Ed, NEW type, Receives(e, type),
         down' \in [Ed -> Seq(DownPacket)]
  PROVE  EdTypeOK'
<1>1. up' \in [Ed -> Seq(UpPacket)]
  BY ConsumeType DEF EdTypeOK, Receives
<1> QED BY <1>1 DEF EdTypeOK, Receives

LEMMA EmptyRxType ==
  /\ EmptyRx \in RxRecord /\ EmptyRx.empty
  /\ [empty |-> TRUE, ed |-> NoEd] \in TxAddress
BY DEF EmptyRx, RxRecord, TxAddress

(* The ACKs that are sent at once go to the one device only.               *)
LEMMA AcksType ==
  ASSUME EdTypeOK, NEW e \in Ed, NEW n \in Int
  PROVE  /\ TransmitAcks(e, n) \in [Ed -> Seq(DownPacket)]
         /\ \A f \in Ed \ {e} : TransmitAcks(e, n)[f] = down[f]
<1> DEFINE room == AirCap - Len(down[e])
           k == IF n < room THEN n ELSE room
           acks == [j \in 1..k |-> "ACK"]
<1>1. down \in [Ed -> Seq(DownPacket)] /\ down[e] \in Seq(DownPacket)
  BY DEF EdTypeOK
<1>2. k \in Int
  BY <1>1, RadioAssumption
<1>3. TransmitAcks(e, n) = [down EXCEPT ![e] = down[e] \o acks]
  BY Zenon DEF TransmitAcks
<1> HIDE DEF k
<1>4. acks \in Seq(DownPacket)
  <2>1. CASE k <= 0
    <3>1. 1..k = 1..0
      BY <1>2, <2>1
    <3>2. acks \in [1..0 -> DownPacket]
      BY <3>1
    <3> HIDE DEF acks
    <3> QED BY <3>2
  <2>2. CASE k > 0
    BY <1>2, <2>2 DEF DownPacket
  <2> QED BY <1>2, <2>1, <2>2
<1> HIDE DEF acks
<1>5. down[e] \o acks \in Seq(DownPacket)
  BY <1>1, <1>4
<1> QED BY <1>1, <1>3, <1>5

LEMMA PanTypeNext ==
  ASSUME TypeOK, [Next]_vars
  PROVE  TypeOK'
<1> USE EmptyRxType
<1>1. CASE UNCHANGED vars
  BY <1>1 DEF vars, edVars, panVars, TypeOK, EdTypeOK
<1>2. CASE Restart
  BY <1>2 DEF Restart, edVars, TypeOK, EdTypeOK
<1>3. ASSUME NEW e \in Ed, EdNext(e) /\ UNCHANGED panVars
      PROVE  TypeOK'
  BY <1>3, EdStepType DEF TypeOK, panVars
<1>4. ASSUME NEW e \in Ed, LINK_send_coord(e) PROVE TypeOK'
  <2>1. EdTypeOK'
    BY <1>4 DEF LINK_send_coord, edVars, TypeOK, EdTypeOK
  <2>2. tx_buffer' \in [Slot -> TxAddress]
    <3>1. [empty |-> FALSE, ed |-> e] \in TxAddress
      BY DEF TxAddress
    <3> QED BY <1>4, <3>1 DEF LINK_send_coord, TypeOK
  <2>3. addressed' \subseteq Ed /\ sends' \in Nat
    BY <1>4 DEF LINK_send_coord, TypeOK
  <2> QED BY <1>4, <2>1, <2>2, <2>3 DEF LINK_send_coord, TypeOK
<1>5. ASSUME NEW e \in Ed, TxEnds(e) PROVE TypeOK'
  <2>1. EdTypeOK'
    BY <1>5 DEF TxEnds, edVars, TypeOK, EdTypeOK
  <2>2. tx_buffer' \in [Slot -> TxAddress]
    <3>1. tx_buffer \in [Slot -> TxAddress]
      BY DEF TypeOK
    <3>2. CASE \E i \in Slot : tx_buffer' = [tx_buffer EXCEPT ![i].empty = TRUE]
      BY <3>1, <3>2 DEF TxAddress
    <3>3. CASE tx_buffer' = [i \in Slot |->
            [tx_buffer[i] EXCEPT !.empty = @ \/ tx_buffer[i].ed = e]]
      <4>1. \A i \in Slot :
              [tx_buffer[i] EXCEPT !.empty = @ \/ tx_buffer[i].ed = e] \in TxAddress
        BY <3>1, Zenon DEF TxAddress
      <4> QED BY <3>3, <4>1
    <3> QED BY <1>5, <3>2, <3>3 DEF TxEnds
  <2> QED BY <1>5, <2>1, <2>2 DEF TxEnds, TypeOK
<1>6. ASSUME NEW e \in Ed, DataAgain(e) PROVE TypeOK'
  <2>1. down' \in [Ed -> Seq(DownPacket)]
    BY <1>6, TransmitDownType DEF DataAgain, TypeOK, EdTypeOK, DownPacket
  <2>2. EdTypeOK'
    BY <1>6, <2>1, ReceivesType DEF DataAgain, TypeOK
  <2> QED BY <1>6, <2>2 DEF DataAgain, Receives, TypeOK
<1>7. ASSUME NEW e \in Ed, DataNew(e) PROVE TypeOK'
  <2>1. Head(up[e]).msg \in Nat
    BY <1>7, HeadUpType DEF DataNew, Receives, TypeOK, UpPacket
  <2>2. [empty |-> FALSE, ed |-> e, msg |-> Head(up[e]).msg] \in RxRecord
    BY <2>1 DEF RxRecord
  <2>3. rx_buffer' \in [Slot -> RxRecord]
    BY <1>7, <2>2 DEF DataNew, TypeOK
  <2>4. down' \in [Ed -> Seq(DownPacket)]
    <3>1. CASE down' = TransmitAcks(e, Cardinality(SlotsOf(e)) + 1)
      <4>1. Cardinality(SlotsOf(e)) + 1 \in Int
        <5>1. IsFiniteSet(SlotsOf(e))
          <6>1. IsFiniteSet(1..BufferSize)
            BY PanUplinkAssumption, FS_Interval
          <6> QED BY <6>1, FS_Subset DEF SlotsOf, Slot
        <5>2. Cardinality(SlotsOf(e)) \in Nat
          BY <5>1, FS_CardinalityType
        <5> QED BY <5>2
      <4> QED BY <3>1, <4>1, AcksType DEF TypeOK
    <3>2. CASE down' = Transmit(down, e, "BUSY")
      BY <3>2, TransmitDownType DEF TypeOK, EdTypeOK, DownPacket
    <3> QED BY <1>7, <3>1, <3>2 DEF DataNew
  <2>5. EdTypeOK'
    BY <1>7, <2>4, ReceivesType DEF DataNew, TypeOK
  <2> QED BY <1>7, <2>3, <2>5 DEF DataNew, Receives, TypeOK
<1>8. ASSUME NEW e \in Ed, Commit(e) PROVE TypeOK'
  <2>1. down' \in [Ed -> Seq(DownPacket)]
    BY <1>8, TransmitDownType DEF Commit, TypeOK, EdTypeOK, DownPacket
  <2>2. EdTypeOK'
    BY <1>8, <2>1, ReceivesType DEF Commit, TypeOK
  <2>3. log' \in [Ed -> Seq(Nat)] /\ rx_buffer' \in [Slot -> RxRecord]
    <3>1. CASE UNCHANGED <<log, rx_buffer>>
      BY <3>1 DEF TypeOK
    <3>2. ASSUME NEW i \in Slot,
                 log' = [log EXCEPT ![e] = Append(@, rx_buffer[i].msg)],
                 rx_buffer' = [rx_buffer EXCEPT ![i] = EmptyRx]
          PROVE  log' \in [Ed -> Seq(Nat)] /\ rx_buffer' \in [Slot -> RxRecord]
      <4>1. rx_buffer[i].msg \in Nat
        BY DEF TypeOK, RxRecord
      <4> QED BY <3>2, <4>1 DEF TypeOK
    <3> QED BY <1>8, <3>1, <3>2 DEF Commit
  <2> QED BY <1>8, <2>2, <2>3 DEF Commit, Receives, TypeOK
<1> QED BY <1>1, <1>2, <1>3, <1>4, <1>5, <1>6, <1>7, <1>8 DEF Next

(* Every variable of the gateway's uplink keeps its type.                  *)
THEOREM TypeCorrect == Spec => []TypeOK
<1>1. Init => TypeOK
  <2> SUFFICES ASSUME Init PROVE TypeOK
    OBVIOUS
  <2>1. EdTypeOK
    BY EdLinkAssumption, RadioAssumption, EmptyTxType DEF Init, EdInit, EdTypeOK
  <2> QED BY <2>1, EmptyRxType DEF Init, TypeOK
<1>2. TypeOK /\ [Next]_vars => TypeOK'
  BY PanTypeNext
<1> QED BY <1>1, <1>2, PTL DEF Spec

-----------------------------------------------------------------------------
(* An acknowledgement means that the payload is stored.                    *)

(* An address in the TX buffer is one of a device that was sent to, also   *)
(* in a slot that was freed.                                               *)
AddressesKnown == \A i \in Slot : tx_buffer[i].ed \in addressed \cup {NoEd}

Stored(e) == SlotsOf(e) # {} \/ log[e] # <<>>

LEMMA AddressesStep ==
  ASSUME TypeOK, AddressesKnown, [Next]_vars
  PROVE  AddressesKnown'
<1> USE DEF AddressesKnown
<1>1. CASE UNCHANGED <<tx_buffer, addressed>>
  BY <1>1
<1>2. CASE Restart
  BY <1>2 DEF Restart
<1>3. ASSUME NEW e \in Ed, LINK_send_coord(e) PROVE AddressesKnown'
  BY <1>3 DEF LINK_send_coord, TypeOK
<1>4. ASSUME NEW e \in Ed, TxEnds(e) PROVE AddressesKnown'
  <2>1. \A i \in Slot : tx_buffer'[i].ed = tx_buffer[i].ed
    <3>1. tx_buffer \in [Slot -> TxAddress]
      BY DEF TypeOK
    <3>2. CASE \E i \in Slot : tx_buffer' = [tx_buffer EXCEPT ![i].empty = TRUE]
      BY <3>1, <3>2 DEF TxAddress
    <3>3. CASE tx_buffer' = [i \in Slot |->
            [tx_buffer[i] EXCEPT !.empty = @ \/ tx_buffer[i].ed = e]]
      <4>1. \A i \in Slot :
              [tx_buffer[i] EXCEPT !.empty = @ \/ tx_buffer[i].ed = e].ed
                = tx_buffer[i].ed
        BY <3>1, Zenon DEF TxAddress
      <4> QED BY <3>3, <4>1
    <3> QED BY <1>4, <3>2, <3>3 DEF TxEnds
  <2> QED BY <1>4, <2>1 DEF TxEnds
<1>5. ASSUME NEW e \in Ed, DataAgain(e) \/ DataNew(e) \/ Commit(e)
      PROVE  UNCHANGED <<tx_buffer, addressed>>
  BY <1>5 DEF DataAgain, DataNew, Commit, Receives
<1>6. ASSUME NEW e \in Ed, EdNext(e) /\ UNCHANGED panVars
      PROVE  UNCHANGED <<tx_buffer, addressed>>
  BY <1>6 DEF panVars
<1>7. UNCHANGED vars => UNCHANGED <<tx_buffer, addressed>>
  BY DEF vars, panVars
<1> QED BY <1>1, <1>2, <1>3, <1>4, <1>5, <1>6, <1>7 DEF Next

(* What a step does to one device that the gateway does not address: it is *)
(* given no new ACK unless its payload is stored, and what is stored stays *)
(* stored or is handed over.                                               *)
LEMMA AckStep ==
  ASSUME TypeOK, AddressesKnown, Next, ~Restart, NEW f \in Ed \ addressed',
         AckOut(f) => Stored(f), AckOut(f)'
  PROVE  Stored(f)'
<1>1. CASE AckOut(f) /\ UNCHANGED <<rx_buffer, log>>
  BY <1>1 DEF Stored, SlotsOf
<1>2. ASSUME NEW e \in Ed, EdNext(e) /\ UNCHANGED panVars PROVE Stored(f)'
  <2>1. CASE f = e
    <3>1. AckOut(f)
      BY <1>2, <2>1, EdStepAck DEF TypeOK
    <3> QED BY <1>1, <1>2, <3>1 DEF panVars
  <2>2. CASE f # e
    <3>1. ed_tx_buffer'[f] = ed_tx_buffer[f] /\ down'[f] = down[f]
      BY <1>2, <2>2, EdStepFrame DEF TypeOK
    <3> QED BY <1>1, <1>2, <3>1 DEF panVars, AckOut
  <2> QED BY <2>1, <2>2
<1>3. ASSUME NEW e \in Ed, LINK_send_coord(e) \/ TxEnds(e) PROVE Stored(f)'
  BY <1>1, <1>3 DEF LINK_send_coord, TxEnds, edVars, AckOut
<1>4. ASSUME NEW e \in Ed, DataAgain(e) PROVE Stored(f)'
  <2>1. e \in addressed /\ addressed' = addressed
    BY <1>4, PanUplinkAssumption
       DEF DataAgain, AlreadyStored, AddressesKnown, Receives
  <2>2. f # e
    BY <2>1
  <2>3. down'[f] = down[f] /\ ed_tx_buffer' = ed_tx_buffer
    BY <1>4, <2>2 DEF DataAgain, Receives, Transmit, TypeOK, EdTypeOK
  <2> QED BY <1>1, <1>4, <2>3 DEF DataAgain, AckOut
<1>5. ASSUME NEW e \in Ed, DataNew(e) PROVE Stored(f)'
  <2>0. rx_buffer \in [Slot -> RxRecord] /\ down \in [Ed -> Seq(DownPacket)]
    BY DEF TypeOK, EdTypeOK
  <2>1. ed_tx_buffer' = ed_tx_buffer /\ log' = log
    BY <1>5 DEF DataNew, Receives
  <2>2. CASE /\ \E i \in Slot :
                  /\ First(i, FreeSlots)
                  /\ rx_buffer' = [rx_buffer EXCEPT ![i] =
                       [empty |-> FALSE, ed |-> e, msg |-> Head(up[e]).msg]]
             /\ down' = TransmitAcks(e, Cardinality(SlotsOf(e)) + 1)
    <3>1. PICK i \in Slot :
            /\ First(i, FreeSlots)
            /\ rx_buffer' = [rx_buffer EXCEPT ![i] =
                 [empty |-> FALSE, ed |-> e, msg |-> Head(up[e]).msg]]
      BY <2>2
    <3>2. rx_buffer[i].empty
      BY <3>1 DEF First, FreeSlots
    <3>3. ~rx_buffer'[i].empty /\ rx_buffer'[i].ed = e
      BY <2>0, <3>1
    <3>4. \A j \in Slot \ {i} : rx_buffer'[j] = rx_buffer[j]
      BY <2>0, <3>1
    <3>5. CASE f = e
      <4>1. i \in SlotsOf(f)'
        BY <3>3, <3>5 DEF SlotsOf
      <4> QED BY <4>1 DEF Stored
    <3>6. CASE f # e
      <4>1. down'[f] = down[f]
        <5>1. \A k : TransmitAcks(e, k)[f] = down[f]
          BY <2>0, <3>6 DEF TransmitAcks
        <5> QED BY <2>2, <5>1
      <4>2. AckOut(f)
        BY <2>1, <4>1 DEF AckOut
      <4>3. SlotsOf(f) \subseteq SlotsOf(f)'
        BY <3>2, <3>4 DEF SlotsOf
      <4> QED BY <2>1, <4>2, <4>3 DEF Stored
    <3> QED BY <3>5, <3>6
  <2>3. CASE /\ FreeSlots = {}
             /\ down' = Transmit(down, e, "BUSY")
             /\ UNCHANGED rx_buffer
    <3>1. AckOut(f)
      <4>1. CASE f = e /\ down'[f] = Append(down[f], "BUSY")
        <5>1. down[f] \in Seq(DownPacket)
          BY <2>0
        <5>2. ASSUME NEW i \in DOMAIN down'[f], down'[f][i] = "ACK"
              PROVE  i \in DOMAIN down[f] /\ down[f][i] = "ACK"
          BY <4>1, <5>1, <5>2
        <5> QED BY <2>1, <5>2 DEF AckOut
      <4>2. CASE down'[f] = down[f]
        BY <2>1, <4>2 DEF AckOut
      <4> QED BY <2>0, <2>3, <4>1, <4>2 DEF Transmit
    <3> QED BY <1>1, <2>1, <2>3, <3>1
  <2> QED BY <1>5, <2>2, <2>3 DEF DataNew
<1>6. ASSUME NEW e \in Ed, Commit(e) PROVE Stored(f)'
  <2>0. /\ rx_buffer \in [Slot -> RxRecord] /\ down \in [Ed -> Seq(DownPacket)]
        /\ log \in [Ed -> Seq(Nat)]
    BY DEF TypeOK, EdTypeOK
  <2>1. ed_tx_buffer' = ed_tx_buffer /\ down' = Transmit(down, e, "COMMIT_ACK")
    BY <1>6 DEF Commit, Receives
  <2>2. AckOut(f)
    <3>1. CASE f = e /\ down'[f] = Append(down[f], "COMMIT_ACK")
      <4>1. down[f] \in Seq(DownPacket)
        BY <2>0
      <4>2. ASSUME NEW i \in DOMAIN down'[f], down'[f][i] = "ACK"
            PROVE  i \in DOMAIN down[f] /\ down[f][i] = "ACK"
        BY <3>1, <4>1, <4>2
      <4> QED BY <2>1, <4>2 DEF AckOut
    <3>2. CASE down'[f] = down[f]
      BY <2>1, <3>2 DEF AckOut
    <3> QED BY <2>0, <2>1, <3>1, <3>2 DEF Transmit
  <2>3. CASE UNCHANGED <<log, rx_buffer>>
    BY <1>1, <2>2, <2>3
  <2>4. ASSUME NEW i \in Slot, First(i, SlotsOf(e)),
               log' = [log EXCEPT ![e] = Append(@, rx_buffer[i].msg)],
               rx_buffer' = [rx_buffer EXCEPT ![i] = EmptyRx]
        PROVE  Stored(f)'
    <3>1. CASE f = e
      <4>1. log'[f] = Append(log[f], rx_buffer[i].msg) /\ log[f] \in Seq(Nat)
        BY <2>0, <2>4, <3>1
      <4>2. log'[f] # <<>>
        BY <4>1
      <4> QED BY <4>2 DEF Stored
    <3>2. CASE f # e
      <4>1. log'[f] = log[f]
        BY <2>0, <2>4, <3>2
      <4>2. SlotsOf(f) \subseteq SlotsOf(f)'
        BY <2>0, <2>4, <3>2 DEF SlotsOf, First
      <4> QED BY <2>2, <4>1, <4>2 DEF Stored
    <3> QED BY <3>1, <3>2
  <2> QED BY <1>6, <2>3, <2>4 DEF Commit
<1> QED BY <1>2, <1>3, <1>4, <1>5, <1>6 DEF Next

AckInv ==
  /\ TypeOK
  /\ AddressesKnown
  /\ AckMeansStoredUnlessAddressed

LEMMA AckPerDevice ==
  AckMeansStoredUnlessAddressed <=>
    (restarts = 0 => \A e \in Ed \ addressed : AckOut(e) => Stored(e))
BY DEF AckMeansStoredUnlessAddressed, AckOut, Stored

(* A device to which the gateway has sent nothing can rely on an ACK,      *)
(* whatever the gateway sends to other devices: the comparison with the    *)
(* address in the TX buffer then never takes a payload of the device for   *)
(* one that is already stored.                                             *)
THEOREM AckCorrect == Spec => []AckMeansStoredUnlessAddressed
<1>1. Init => AckInv
  <2> SUFFICES ASSUME Init PROVE AckInv
    OBVIOUS
  <2>1. EdTypeOK
    BY EdLinkAssumption, RadioAssumption, EmptyTxType DEF Init, EdInit, EdTypeOK
  <2>2. TypeOK
    BY <2>1, EmptyRxType DEF Init, TypeOK
  <2>3. AddressesKnown
    BY DEF Init, AddressesKnown
  <2>4. \A e \in Ed : ~AckOut(e)
    BY DEF Init, EdInit, AckOut, EmptyTx, DATA_SENT, COMMIT_SENT
  <2> QED BY <2>2, <2>3, <2>4, AckPerDevice DEF AckInv
<1>2. AckInv /\ [Next]_vars => AckInv'
  <2> SUFFICES ASSUME AckInv, [Next]_vars PROVE AckInv'
    OBVIOUS
  <2>1. TypeOK /\ AddressesKnown
    BY DEF AckInv
  <2>2. TypeOK' /\ AddressesKnown'
    BY <2>1, PanTypeNext, AddressesStep
  <2>3. AckMeansStoredUnlessAddressed'
    <3>1. CASE UNCHANGED vars
      BY <3>1 DEF vars, edVars, panVars, AckInv, AckMeansStoredUnlessAddressed, SlotsOf
    <3>2. CASE Restart
      <4>1. restarts' # 0
        BY <2>1, <3>2 DEF Restart, TypeOK
      <4> QED BY <4>1 DEF AckMeansStoredUnlessAddressed
    <3>3. CASE Next /\ ~Restart
      <4>1. restarts' = restarts /\ addressed \subseteq addressed'
        BY <3>3 DEF Next, LINK_send_coord, TxEnds, DataAgain, DataNew, Commit,
                    Receives, panVars
      <4>2. ASSUME restarts' = 0, NEW f \in Ed \ addressed', AckOut(f)'
            PROVE  Stored(f)'
        <5>1. AckOut(f) => Stored(f)
          BY <4>1, <4>2, AckPerDevice DEF AckInv
        <5> QED BY <2>1, <3>3, <4>2, <5>1, AckStep
      <4> QED BY <4>2 DEF AckMeansStoredUnlessAddressed, AckOut, Stored
    <3> QED BY <3>1, <3>2, <3>3
  <2> QED BY <2>2, <2>3 DEF AckInv
<1>3. AckInv => AckMeansStoredUnlessAddressed
  BY DEF AckInv
<1> QED BY <1>1, <1>2, <1>3, PTL DEF Spec
=============================================================================
