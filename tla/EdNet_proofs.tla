---------------------------- MODULE EdNet_proofs ----------------------------
(***************************************************************************)
(* Proofs about the end device's network layer, for any routers, channels, *)
(* delays and counter ranges that EdNetAssumption admits.                  *)
(***************************************************************************)
EXTENDS EdNet, FiniteSetTheorems, TLAPS

-----------------------------------------------------------------------------
(* The type invariant, in the parts that the steps treat differently.      *)

NetType ==
  /\ nid \in NetIds \cup {NoNetwork}
  /\ parent_cid \in Cids
  /\ eeprom \in SUBSET [nid : NetIds, cid : Cids]
  /\ Cardinality(eeprom) <= 1

RadioType ==
  /\ channel \in Nat \ Refused
  /\ my_channel \in Nat \ Refused
  /\ air \in SUBSET Packet

JoinType ==
  /\ waiting_join_response \in BOOLEAN
  /\ link_ack_join_received \in BOOLEAN
  /\ ack_join_address \in SUBSET Cids

MoveType ==
  /\ waiting_move_response \in BOOLEAN
  /\ move_timeout \in 0..(ByteMod - 1)
  /\ asked \in BOOLEAN

CallType ==
  /\ sleepy_device \in BOOLEAN
  /\ dr_state \in DrState
  /\ tx \in {"none", "DATA", "DR"}
  /\ call \in {"none", "send", "join"}
  /\ result \in BOOLEAN
  /\ answered \in {"none", "parent", "neighbour"}

PlaceType ==
  /\ pc \in Places
  /\ i \in 0..(ByteMod - 1)
  /\ pc = "scan_delay" => i <= MaxChannel

LEMMA TypeParts ==
  TypeOK <=> NetType /\ RadioType /\ JoinType /\ MoveType /\ CallType /\ PlaceType
BY Zenon DEF TypeOK, NetType, RadioType, JoinType, MoveType, CallType, PlaceType

(* The bounds of EdNetAssumption, one by one.                              *)
LEMMA Bounds ==
  /\ ByteMod \in Nat /\ MaxChannel \in Nat /\ MoveDelay \in Nat
  /\ 0 < MoveDelay /\ MoveDelay < ByteMod
  /\ JoinDelay \in Nat /\ JoinDelay < ByteMod
  /\ AckDelay \in Nat /\ AckDelay < ByteMod
  /\ DataDelay \in Nat /\ DataDelay < ByteMod
  /\ MaxChannel + 1 < ByteMod
  /\ HomeChannel \in Nat \ Refused
<1>1. /\ JoinDelay \in 0..(ByteMod - 1) /\ AckDelay \in 0..(ByteMod - 1)
      /\ DataDelay \in 0..(ByteMod - 1) /\ MaxChannel + 1 \in 0..(ByteMod - 1)
      /\ ByteMod \in Nat /\ MaxChannel \in Nat /\ MoveDelay \in Nat \ {0}
      /\ MoveDelay < ByteMod /\ HomeChannel \in Nat \ Refused
  BY EdNetAssumption
<1> QED BY <1>1

-----------------------------------------------------------------------------
(* Packets.                                                                *)

LEMMA RouterType ==
  ASSUME NEW r \in Router
  PROVE  r.nid \in NetIds /\ r.cid \in Cids /\ r.nid # NoNetwork
BY EdNetAssumption DEF NetIds, Cids

(* The packets the routers may send in answer to the device.               *)
LEMMA AnswersType ==
  /\ \A ch : JoinAnswers(ch) \subseteq Packet
  /\ MoveAnswers \subseteq Packet
  /\ \A r \in Router :
       /\ {PacketFrom(r, "ACK_DR_SLEEP")} \subseteq Packet
       /\ {PacketFrom(r, "ACK_DR_WAIT"), PacketFrom(r, "DATA")} \subseteq Packet
<1>1. ASSUME NEW r \in Router,
             NEW type \in {"ACK_JOIN", "JOIN_RESPONSE", "MOVE_RESPONSE",
                           "ACK_DR_WAIT", "ACK_DR_SLEEP", "DATA"}
      PROVE  PacketFrom(r, type) \in Packet
  BY DEF PacketFrom, Packet
<1>2. ASSUME NEW ch, NEW p \in JoinAnswers(ch) PROVE p \in Packet
  <2>1. PICK r \in Router, type \in {"ACK_JOIN", "JOIN_RESPONSE"} :
          p = PacketFrom(r, type)
    BY <1>2 DEF JoinAnswers
  <2> QED BY <1>1, <2>1
<1>3. ASSUME NEW p \in MoveAnswers PROVE p \in Packet
  <2>1. PICK r \in Router : p = PacketFrom(r, "MOVE_RESPONSE")
    BY <1>3 DEF MoveAnswers
  <2> QED BY <1>1, <2>1
<1> QED BY <1>1, <1>2, <1>3

LEMMA SendsType ==
  ASSUME air \in SUBSET Packet, NEW packets, packets \subseteq Packet, Sends(packets)
  PROVE  air' \in SUBSET Packet
<1>1. PICK p \in SUBSET packets : air' = air \cup p
  BY DEF Sends
<1> QED BY <1>1

(* A packet that the device can hear, and what there is to be read of it.  *)
LEMMA HeardType ==
  ASSUME RadioType, NEW p \in air \cup ForOthers
  PROVE  /\ p \in Packet
         /\ p.from \in Router /\ p.mine \in BOOLEAN
         /\ p.from.nid \in NetIds /\ p.from.cid \in Cids
<1>1. p \in Packet
  BY DEF RadioType, ForOthers, Packet
<1>2. p.from \in Router /\ p.mine \in BOOLEAN
  BY <1>1 DEF Packet
<1> QED BY <1>1, <1>2, RouterType

-----------------------------------------------------------------------------
(* The time-out.                                                           *)

(* It counts down by one and wraps at 0.                                   *)
LEMMA DecrementedValue ==
  ASSUME move_timeout \in 0..(ByteMod - 1)
  PROVE  Decremented = IF move_timeout = 0 THEN ByteMod - 1 ELSE move_timeout - 1
<1>1. ByteMod \in Nat /\ ByteMod > 0
  BY Bounds
<1>2. CASE move_timeout = 0
  <2>1. (ByteMod - 1) % ByteMod = ByteMod - 1
    BY <1>1
  <2> QED BY <1>1, <1>2, <2>1 DEF Decremented
<1>3. CASE move_timeout # 0
  <2> DEFINE t == move_timeout - 1
  <2>1. t \in 0..(ByteMod - 1)
    BY <1>1, <1>3
  <2>2. move_timeout + ByteMod - 1 = t + ByteMod
    BY <1>1
  <2> HIDE DEF t
  <2>3. (t + ByteMod) % ByteMod = t
    BY <1>1, <2>1
  <2> QED BY <1>3, <2>2, <2>3 DEF Decremented, t
<1> QED BY <1>2, <1>3

(* A tick that counts as one of LINK_timer_counter or sends a request.     *)
LEMMA TimeoutType ==
  ASSUME RadioType, MoveType, LINK_timer_counter \/ NET_send_move_request
  PROVE  /\ move_timeout' \in 0..(ByteMod - 1)
         /\ air' \in SUBSET Packet
         /\ asked' \in BOOLEAN
<1>1. Decremented \in 0..(ByteMod - 1) /\ MoveDelay \in 0..(ByteMod - 1)
  BY DecrementedValue, Bounds DEF MoveType
<1>2. ASSUME NET_send_move_request
      PROVE  /\ move_timeout' = MoveDelay
             /\ air' \in SUBSET Packet
             /\ asked' = TRUE
  BY <1>2, SendsType, AnswersType DEF NET_send_move_request, RadioType
<1> QED BY <1>1, <1>2 DEF LINK_timer_counter, RadioType, MoveType

(* What a tick leaves alone.                                               *)
LEMMA TickFrame ==
  ASSUME PHY_timer_interrupt
  PROVE  /\ UNCHANGED <<netVars, channel, my_channel, joinVars, sleepy_device,
                        dr_state, call, pc, i, result, answered>>
         /\ tx' \in {tx, "none"}
         /\ waiting_move_response' \in {waiting_move_response, TRUE}
         /\ LINK_timer_counter \/ NET_send_move_request
BY DEF PHY_timer_interrupt, LINK_error_handler_ed, mainVars

-----------------------------------------------------------------------------
(* Type correctness, part by part.                                         *)

LEMMA NetTypeStep ==
  ASSUME NetType, RadioType, [Next]_vars
  PROVE  NetType'
<1>1. ASSUME UNCHANGED netVars PROVE NetType'
  BY <1>1 DEF netVars, NetType
<1>2. CASE NET_send \/ NET_join \/ InCall
  BY <1>1, <1>2
  DEF NET_send, NET_send_refused, NET_send_ready, NET_send_sleepy, NET_join, InCall,
      DrAckLoop, DrCheck, DrOverwrite, DrDataLoop, DrDataEnd, LINK_send_join_request,
      ScanDelay, JoinWait, JoinEnd, JoinTimeout, Return
<1>3. ASSUME NEW p \in air \cup ForOthers, JoinResponse(p) PROVE NetType'
  <2> DEFINE saved == [nid |-> p.from.nid, cid |-> p.from.cid]
  <2>0. p.from.nid \in NetIds /\ p.from.cid \in Cids
    BY HeardType
  <2>1. saved \in [nid : NetIds, cid : Cids]
    BY <2>0
  <2>2. IsFiniteSet({saved}) /\ Cardinality({saved}) = 1
    BY FS_Singleton
  <2> HIDE DEF saved
  <2>3. eeprom' \in {eeprom, {saved}}
    BY <1>3 DEF JoinResponse, netVars, saved
  <2>4. eeprom' \in SUBSET [nid : NetIds, cid : Cids] /\ Cardinality(eeprom') <= 1
    BY <2>1, <2>2, <2>3 DEF NetType
  <2>5. /\ nid' \in {nid, p.from.nid}
        /\ parent_cid' \in {parent_cid, p.from.cid}
    BY <1>3 DEF JoinResponse, netVars
  <2> QED BY <2>0, <2>4, <2>5 DEF NetType
<1>4. ASSUME NEW p \in air \cup ForOthers, MoveResponse(p) PROVE NetType'
  <2>1. p.from.cid \in Cids
    BY HeardType
  <2> QED BY <1>4, <2>1 DEF MoveResponse, NetType
<1>5. CASE NET_init
  <2>1. nid' \in NetIds \cup {NoNetwork} /\ parent_cid' \in Cids
    BY <1>5 DEF NET_init, NetType, Cids
  <2> QED BY <1>5, <2>1 DEF NET_init, NetType
<1>6. CASE PHY_timer_interrupt
  BY <1>1, <1>6, TickFrame
<1>7. CASE DataBroadcast \/ Delivered \/ Lost \/ UNCHANGED vars
  BY <1>1, <1>7 DEF DataBroadcast, Delivered, Lost, envUnchanged, vars
<1>8. ASSUME NEW p \in air \cup ForOthers, AckJoin(p) \/ DataRequestAnswer(p)
      PROVE  NetType'
  BY <1>1, <1>8 DEF AckJoin, DataRequestAnswer
<1> QED BY <1>2, <1>3, <1>4, <1>5, <1>6, <1>7, <1>8 DEF Next, PHY_process_packet

LEMMA RadioTypeStep ==
  ASSUME RadioType, MoveType, PlaceType, [Next]_vars
  PROVE  RadioType'
<1> USE DEF RadioType
<1>1. CASE NET_send \/ NET_join
  BY <1>1 DEF NET_send, NET_send_refused, NET_send_ready, NET_send_sleepy, NET_join
<1>2. CASE LINK_send_join_request
  <2>1. CASE /\ i <= MaxChannel /\ i \notin Refused
             /\ channel' = i
             /\ Sends(JoinAnswers(i))
    <3>1. i \in Nat
      BY Bounds DEF PlaceType
    <3>2. air' \in SUBSET Packet
      BY <2>1, SendsType, AnswersType
    <3> QED BY <1>2, <2>1, <3>1, <3>2 DEF LINK_send_join_request
  <2>2. CASE /\ channel' = IF i > MaxChannel THEN my_channel ELSE channel
             /\ UNCHANGED air
    BY <1>2, <2>2 DEF LINK_send_join_request
  <2> QED BY <1>2, <2>1, <2>2 DEF LINK_send_join_request
<1>3. CASE InCall /\ ~LINK_send_join_request
  BY <1>3
  DEF InCall, DrAckLoop, DrCheck, DrOverwrite, DrDataLoop, DrDataEnd, ScanDelay,
      JoinWait, JoinEnd, JoinTimeout, Return
<1>4. ASSUME NEW p \in air \cup ForOthers, PHY_process_packet(p) PROVE RadioType'
  <2>1. Hears(p) /\ UNCHANGED <<channel, my_channel>>
    BY <1>4
    DEF PHY_process_packet, AckJoin, JoinResponse, DataRequestAnswer, MoveResponse,
        mainVars
  <2> QED BY <2>1 DEF Hears
<1>5. CASE PHY_timer_interrupt
  BY <1>5, TimeoutType, TickFrame
<1>6. CASE Delivered
  <2>1. PICK r \in Router :
          \/ UNCHANGED air
          \/ Sends({PacketFrom(r, "ACK_DR_SLEEP")})
          \/ Sends({PacketFrom(r, "ACK_DR_WAIT"), PacketFrom(r, "DATA")})
    BY <1>6 DEF Delivered
  <2>2. air' \in SUBSET Packet
    BY <2>1, SendsType, AnswersType
  <2> QED BY <1>6, <2>2 DEF Delivered, envUnchanged, mainVars
<1>7. CASE DataBroadcast \/ Lost \/ UNCHANGED vars
  BY <1>7 DEF DataBroadcast, Lost, envUnchanged, mainVars, vars
<1>8. CASE NET_init
  BY <1>8, Bounds DEF NET_init
<1> QED BY <1>1, <1>2, <1>3, <1>4, <1>5, <1>6, <1>7, <1>8 DEF Next

LEMMA JoinTypeStep ==
  ASSUME RadioType, JoinType, [Next]_vars
  PROVE  JoinType'
<1> USE DEF JoinType
<1>1. CASE NET_send \/ NET_join
  BY <1>1
  DEF NET_send, NET_send_refused, NET_send_ready, NET_send_sleepy, NET_join, joinVars
<1>2. CASE InCall
  BY <1>2
  DEF InCall, DrAckLoop, DrCheck, DrOverwrite, DrDataLoop, DrDataEnd,
      LINK_send_join_request, ScanDelay, JoinWait, JoinEnd, JoinTimeout, Return, joinVars
<1>3. ASSUME NEW p \in air \cup ForOthers, PHY_process_packet(p) PROVE JoinType'
  <2>1. p.from.cid \in Cids
    BY HeardType
  <2> QED BY <1>3, <2>1
          DEF PHY_process_packet, AckJoin, JoinResponse, DataRequestAnswer, MoveResponse,
              joinVars
<1>4. CASE PHY_timer_interrupt
  BY <1>4, TickFrame DEF joinVars
<1>5. CASE DataBroadcast \/ Delivered \/ Lost \/ UNCHANGED vars
  BY <1>5 DEF DataBroadcast, Delivered, Lost, envUnchanged, joinVars, vars
<1>6. CASE NET_init
  BY <1>6 DEF NET_init
<1> QED BY <1>1, <1>2, <1>3, <1>4, <1>5, <1>6 DEF Next

LEMMA MoveTypeStep ==
  ASSUME RadioType, MoveType, [Next]_vars
  PROVE  MoveType'
<1>1. ASSUME UNCHANGED <<moveVars, asked>> PROVE MoveType'
  BY <1>1 DEF MoveType, moveVars
<1>2. CASE NET_send \/ NET_join \/ InCall
  BY <1>1, <1>2
  DEF NET_send, NET_send_refused, NET_send_ready, NET_send_sleepy, NET_join, InCall,
      DrAckLoop, DrCheck, DrOverwrite, DrDataLoop, DrDataEnd, LINK_send_join_request,
      ScanDelay, JoinWait, JoinEnd, JoinTimeout, Return
<1>3. ASSUME NEW p \in air \cup ForOthers, PHY_process_packet(p) PROVE MoveType'
  BY <1>3
  DEF PHY_process_packet, AckJoin, JoinResponse, DataRequestAnswer, MoveResponse,
      moveVars, MoveType
<1>4. CASE PHY_timer_interrupt
  BY <1>4, TickFrame, TimeoutType DEF MoveType
<1>5. CASE DataBroadcast \/ Delivered \/ Lost \/ UNCHANGED vars
  BY <1>1, <1>5 DEF DataBroadcast, Delivered, Lost, envUnchanged, vars
<1>6. CASE NET_init
  <2>1. 0 \in 0..(ByteMod - 1)
    BY Bounds
  <2> QED BY <1>6, <2>1 DEF NET_init, MoveType
<1> QED BY <1>2, <1>3, <1>4, <1>5, <1>6 DEF Next

LEMMA CallTypeStep ==
  ASSUME CallType, [Next]_vars
  PROVE  CallType'
<1> USE DEF CallType
<1>1. CASE NET_send \/ NET_join
  BY <1>1
  DEF NET_send, NET_send_refused, NET_send_ready, NET_send_sleepy, NET_join, DrState,
      DR_ACK_WAITING
<1>2. CASE InCall
  BY <1>2
  DEF InCall, DrAckLoop, DrCheck, DrOverwrite, DrDataLoop, DrDataEnd,
      LINK_send_join_request, ScanDelay, JoinWait, JoinEnd, JoinTimeout, Return,
      DrState, DR_DATA_WAITING
<1>3. ASSUME NEW p \in air \cup ForOthers, PHY_process_packet(p) PROVE CallType'
  BY <1>3
  DEF PHY_process_packet, AckJoin, JoinResponse, DataRequestAnswer, MoveResponse,
      mainVars, DrState
<1>4. CASE PHY_timer_interrupt
  BY <1>4, TickFrame
<1>5. CASE DataBroadcast \/ Delivered \/ Lost \/ UNCHANGED vars
  BY <1>5 DEF DataBroadcast, Delivered, Lost, envUnchanged, mainVars, vars, DrState
<1>6. CASE NET_init
  BY <1>6 DEF NET_init, DrState, DR_ACK_WAITING
<1> QED BY <1>1, <1>2, <1>3, <1>4, <1>5, <1>6 DEF Next

LEMMA PlaceTypeStep ==
  ASSUME PlaceType, [Next]_vars
  PROVE  PlaceType'
<1>1. ASSUME UNCHANGED <<pc, i>> PROVE PlaceType'
  BY <1>1 DEF PlaceType
<1>2. CASE NET_send \/ NET_join
  BY <1>2, Bounds
  DEF NET_send, NET_send_refused, NET_send_ready, NET_send_sleepy, NET_join, PlaceType,
      Places
<1>3. CASE InCall
  BY <1>3, Bounds
  DEF InCall, DrAckLoop, DrCheck, DrOverwrite, DrDataLoop, DrDataEnd,
      LINK_send_join_request, ScanDelay, JoinWait, JoinEnd, JoinTimeout, Return,
      PlaceType, Places
<1>4. ASSUME NEW p \in air \cup ForOthers, PHY_process_packet(p) PROVE PlaceType'
  BY <1>1, <1>4
  DEF PHY_process_packet, AckJoin, JoinResponse, DataRequestAnswer, MoveResponse,
      mainVars
<1>5. CASE PHY_timer_interrupt
  BY <1>1, <1>5, TickFrame
<1>6. CASE DataBroadcast \/ Delivered \/ Lost \/ UNCHANGED vars
  BY <1>1, <1>6 DEF DataBroadcast, Delivered, Lost, envUnchanged, mainVars, vars
<1>7. CASE NET_init
  BY <1>7, Bounds DEF NET_init, PlaceType, Places
<1> QED BY <1>2, <1>3, <1>4, <1>5, <1>6, <1>7 DEF Next

(* Every reachable state has the types of TypeOK.                          *)
THEOREM TypeCorrect == Spec => []TypeOK
<1>1. Init => TypeOK
  <2> SUFFICES ASSUME Init PROVE TypeOK
    OBVIOUS
  <2>1. NetType
    BY FS_EmptySet DEF Init, NetType, Cids
  <2>2. RadioType /\ JoinType
    BY Bounds DEF Init, RadioType, JoinType
  <2>3. MoveType /\ CallType
    <3>1. 0 \in 0..(ByteMod - 1)
      BY Bounds
    <3> QED BY <3>1 DEF Init, MoveType, CallType, DrState, DR_ACK_WAITING
  <2>4. PlaceType
    BY Bounds DEF Init, PlaceType, Places
  <2> QED BY <2>1, <2>2, <2>3, <2>4, TypeParts
<1>2. TypeOK /\ [Next]_vars => TypeOK'
  <2> SUFFICES ASSUME TypeOK, [Next]_vars PROVE TypeOK'
    OBVIOUS
  <2>1. NetType /\ RadioType /\ JoinType /\ MoveType /\ CallType /\ PlaceType
    BY TypeParts
  <2>2. NetType' /\ RadioType' /\ JoinType' /\ MoveType' /\ CallType' /\ PlaceType'
    BY <2>1, NetTypeStep, RadioTypeStep, JoinTypeStep, MoveTypeStep, CallTypeStep,
       PlaceTypeStep
  <2> QED BY <2>2, TypeParts, Zenon
          DEF TypeOK, NetType, RadioType, JoinType, MoveType, CallType, PlaceType
<1> QED BY <1>1, <1>2, PTL DEF Spec

-----------------------------------------------------------------------------
(* The search for a parent.                                                *)

(* While a parent is sought the time-out runs: it is never left at 0, from *)
(* where it would first count down a whole round of its byte.              *)
THEOREM MoveTimerCorrect == Spec => []MoveTimerArmed
<1>1. Init => MoveTimerArmed
  BY DEF Init, MoveTimerArmed
<1>2. TypeOK /\ MoveTimerArmed /\ [Next]_vars => MoveTimerArmed'
  <2> SUFFICES ASSUME TypeOK, MoveTimerArmed, [Next]_vars PROVE MoveTimerArmed'
    OBVIOUS
  <2>0. RadioType /\ MoveType
    BY TypeParts
  <2>1. ASSUME UNCHANGED moveVars PROVE MoveTimerArmed'
    BY <2>1 DEF moveVars, MoveTimerArmed
  <2>2. CASE NET_send \/ NET_join \/ InCall
    BY <2>1, <2>2
    DEF NET_send, NET_send_refused, NET_send_ready, NET_send_sleepy, NET_join, InCall,
        DrAckLoop, DrCheck, DrOverwrite, DrDataLoop, DrDataEnd, LINK_send_join_request,
        ScanDelay, JoinWait, JoinEnd, JoinTimeout, Return
  <2>3. ASSUME NEW p \in air \cup ForOthers, PHY_process_packet(p) PROVE MoveTimerArmed'
    <3>1. CASE MoveResponse(p)
      BY <3>1 DEF MoveResponse, MoveTimerArmed
    <3> QED BY <2>1, <2>3, <3>1
            DEF PHY_process_packet, AckJoin, JoinResponse, DataRequestAnswer
  <2>4. CASE PHY_timer_interrupt
    <3>1. ASSUME NET_send_move_request PROVE MoveTimerArmed'
      BY <3>1, Bounds DEF NET_send_move_request, MoveTimerArmed
    <3>2. ASSUME LINK_timer_counter, waiting_move_response PROVE MoveTimerArmed'
      <4>1. Decremented = move_timeout - 1 /\ move_timeout \in 1..MoveDelay
        BY <2>0, <3>2, DecrementedValue, Bounds DEF MoveTimerArmed, MoveType
      <4> QED BY <3>1, <3>2, <4>1, Bounds DEF LINK_timer_counter, MoveTimerArmed
    <3>3. ASSUME UNCHANGED waiting_move_response, ~waiting_move_response
          PROVE  MoveTimerArmed'
      BY <3>3 DEF MoveTimerArmed
    <3>4. CASE LINK_timer_counter /\ UNCHANGED <<waiting_move_response, tx>>
      BY <2>0, <3>2, <3>3, <3>4 DEF MoveType
    <3>5. CASE LINK_error_handler_ed
      BY <2>0, <3>1, <3>2, <3>5 DEF LINK_error_handler_ed, MoveType
    <3> QED BY <2>4, <3>4, <3>5 DEF PHY_timer_interrupt
  <2>5. CASE DataBroadcast \/ Delivered \/ Lost \/ UNCHANGED vars
    BY <2>1, <2>5 DEF DataBroadcast, Delivered, Lost, envUnchanged, vars
  <2>6. CASE NET_init
    BY <2>6 DEF NET_init, MoveTimerArmed
  <2> QED BY <2>2, <2>3, <2>4, <2>5, <2>6 DEF Next
<1> QED BY <1>1, <1>2, TypeCorrect, PTL DEF Spec

-----------------------------------------------------------------------------
(* The network and its parent.                                             *)

(* What is saved was read from one JOIN RESPONSE: a restart takes it over  *)
(* as it is.                                                               *)
SavedIsRouter ==
  \A s \in eeprom : \E r \in Router : s = [nid |-> r.nid, cid |-> r.cid]

LEMMA ParentStep ==
  ASSUME TypeOK, ParentOfNetwork, SavedIsRouter, [Next]_vars
  PROVE  (ParentOfNetwork /\ SavedIsRouter)'
<1> DEFINE Goal == (ParentOfNetwork /\ SavedIsRouter)'
<1>0. RadioType
  BY TypeParts
<1>1. ASSUME UNCHANGED netVars PROVE Goal
  BY <1>1 DEF netVars, ParentOfNetwork, SavedIsRouter
<1>2. CASE NET_send \/ NET_join \/ InCall
  <2>1. UNCHANGED netVars
    BY <1>2
    DEF NET_send, NET_send_refused, NET_send_ready, NET_send_sleepy, NET_join, InCall,
        DrAckLoop, DrCheck, DrOverwrite, DrDataLoop, DrDataEnd, LINK_send_join_request,
        ScanDelay, JoinWait, JoinEnd, JoinTimeout, Return
  <2> QED BY <1>1, <2>1
<1>3. ASSUME NEW p \in air \cup ForOthers, JoinResponse(p) PROVE Goal
  <2> DEFINE saved == [nid |-> p.from.nid, cid |-> p.from.cid]
  <2>1. p.from \in Router /\ p.mine \in BOOLEAN
    BY <1>0, HeardType
  <2>2. \/ UNCHANGED netVars
        \/ nid' = p.from.nid /\ parent_cid' = p.from.cid /\ eeprom' = {saved}
    <3>1. CASE p.mine
      BY <1>3, <3>1 DEF JoinResponse, netVars
    <3>2. CASE ~p.mine
      BY <1>3, <3>2 DEF JoinResponse, netVars
    <3> QED BY <2>1, <3>1, <3>2
  <2>3. ASSUME nid' = p.from.nid, parent_cid' = p.from.cid, eeprom' = {saved}
        PROVE  Goal
    <3>1. saved \in eeprom' /\ saved.nid = nid'
      BY <2>3
    <3> QED BY <2>1, <2>3, <3>1 DEF ParentOfNetwork, SavedIsRouter
  <2> QED BY <1>1, <2>2, <2>3
<1>4. ASSUME NEW p \in air \cup ForOthers, MoveResponse(p) PROVE Goal
  <2>1. p.from \in Router
    BY <1>0, HeardType
  <2>2. /\ nid' = nid /\ eeprom' = eeprom
        /\ parent_cid' = parent_cid \/ (p.from.nid = nid /\ parent_cid' = p.from.cid)
    BY <1>4 DEF MoveResponse, ForMe
  <2> QED BY <2>1, <2>2 DEF ParentOfNetwork, SavedIsRouter
<1>5. ASSUME NEW p \in air \cup ForOthers, AckJoin(p) \/ DataRequestAnswer(p)
      PROVE  Goal
  <2>1. UNCHANGED netVars
    BY <1>5 DEF AckJoin, DataRequestAnswer
  <2> QED BY <1>1, <2>1
<1>6. CASE PHY_timer_interrupt
  BY <1>1, <1>6, TickFrame
<1>7. CASE DataBroadcast \/ Delivered \/ Lost \/ UNCHANGED vars
  <2>1. UNCHANGED netVars
    BY <1>7 DEF DataBroadcast, Delivered, Lost, envUnchanged, vars
  <2> QED BY <1>1, <2>1
<1>8. CASE NET_init
  <2>1. eeprom' = eeprom
    BY <1>8 DEF NET_init
  <2>2. CASE nid' = NoNetwork
    BY <2>1, <2>2 DEF ParentOfNetwork, SavedIsRouter
  <2>3. ASSUME NEW s \in eeprom, nid' = s.nid, parent_cid' = s.cid PROVE Goal
    BY <2>1, <2>3 DEF ParentOfNetwork, SavedIsRouter
  <2> QED BY <1>8, <2>2, <2>3 DEF NET_init
<1> QED BY <1>2, <1>3, <1>4, <1>5, <1>6, <1>7, <1>8 DEF Next, PHY_process_packet

(* A device with a network has a router of it for its parent, and its saved*)
(* record leads it back to this network after a restart.                   *)
THEOREM ParentCorrect == Spec => []ParentOfNetwork
<1>1. Init => ParentOfNetwork /\ SavedIsRouter
  BY DEF Init, ParentOfNetwork, SavedIsRouter
<1>2. TypeOK /\ ParentOfNetwork /\ SavedIsRouter /\ [Next]_vars
        => (ParentOfNetwork /\ SavedIsRouter)'
  BY ParentStep
<1> QED BY <1>1, <1>2, TypeCorrect, PTL DEF Spec

-----------------------------------------------------------------------------
(* The data requests.                                                      *)

InJoin == pc \in {"scan", "scan_delay", "join_wait", "join_end", "join_timeout"}

(* While a call runs, call names it, and an outcome that lets a data       *)
(* request return TRUE was written after the request had set the state.    *)
OutcomeIsOfCall ==
  /\ InJoin => call = "join"
  /\ InDataRequest =>
       /\ call = "send"
       /\ dr_state \in {DR_GO_SLEEP, DR_DATA_RECEIVED} => answered # "none"

AnswerInv == TrueMeansAnswered /\ OutcomeIsOfCall

LEMMA AnswerStep ==
  ASSUME TypeOK, AnswerInv, [Next]_vars
  PROVE  AnswerInv'
<1> USE DEF TrueMeansAnswered, OutcomeIsOfCall, AnswerInv, InJoin, InDataRequest,
            DR_ACK_WAITING, DR_DATA_WAITING, DR_GO_SLEEP, DR_DATA_RECEIVED
<1>0. RadioType /\ CallType
  BY TypeParts
<1>1. ASSUME UNCHANGED <<pc, call, sleepy_device, result, dr_state, answered>>
      PROVE  AnswerInv'
  BY <1>1
<1>2. CASE NET_send \/ NET_join
  BY <1>2
  DEF NET_send, NET_send_refused, NET_send_ready, NET_send_sleepy, NET_join
<1>3. CASE DrAckLoop \/ DrCheck \/ DrOverwrite
  BY <1>3 DEF DrAckLoop, DrCheck, DrOverwrite, Return
<1>4. CASE DrDataLoop \/ DrDataEnd
  BY <1>4 DEF DrDataLoop, DrDataEnd, Return
<1>5. CASE LINK_send_join_request \/ ScanDelay \/ JoinWait \/ JoinEnd \/ JoinTimeout
  BY <1>5 DEF LINK_send_join_request, ScanDelay, JoinWait, JoinEnd, JoinTimeout, Return
<1>6. ASSUME NEW p \in air \cup ForOthers, DataRequestAnswer(p) PROVE AnswerInv'
  BY <1>6 DEF DataRequestAnswer, mainVars
<1>7. ASSUME NEW p \in air \cup ForOthers,
             AckJoin(p) \/ JoinResponse(p) \/ MoveResponse(p)
      PROVE  AnswerInv'
  <2>1. UNCHANGED <<pc, call, sleepy_device, result, dr_state, answered>>
    BY <1>7 DEF AckJoin, JoinResponse, MoveResponse, mainVars
  <2> QED BY <1>1, <2>1
<1>8. CASE DataBroadcast
  BY <1>8 DEF DataBroadcast, mainVars
<1>9. CASE PHY_timer_interrupt
  BY <1>1, <1>9, TickFrame
<1>10. CASE Delivered \/ Lost \/ UNCHANGED vars
  <2>1. UNCHANGED <<pc, call, sleepy_device, result, dr_state, answered>>
    BY <1>10 DEF Delivered, Lost, envUnchanged, mainVars, vars
  <2> QED BY <1>1, <2>1
<1>11. CASE NET_init
  BY <1>11 DEF NET_init
<1> QED BY <1>2, <1>3, <1>4, <1>5, <1>6, <1>7, <1>8, <1>9, <1>10, <1>11
        DEF Next, InCall, PHY_process_packet

(* When the call of a sleepy device returns TRUE, it was answered during   *)
(* the call, whichever interrupts came between its tests and its writes.   *)
THEOREM AnswerCorrect == Spec => []TrueMeansAnswered
<1>1. Init => AnswerInv
  BY DEF Init, AnswerInv, TrueMeansAnswered, OutcomeIsOfCall, InJoin, InDataRequest
<1>2. TypeOK /\ AnswerInv /\ [Next]_vars => AnswerInv'
  BY AnswerStep
<1>3. AnswerInv => TrueMeansAnswered
  BY DEF AnswerInv
<1> QED BY <1>1, <1>2, <1>3, TypeCorrect, PTL DEF Spec
=============================================================================
