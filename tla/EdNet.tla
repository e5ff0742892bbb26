------------------------------- MODULE EdNet -------------------------------
(***************************************************************************)
(* The end device's network layer (src/fitp/ed/net_layer/net.c) with the   *)
(* packets its link layer passes on without a handshake                    *)
(* (src/fitp/ed/link_layer/link.c): joining a network, the data requests   *)
(* of a sleepy device, and the move to another parent.                     *)
(*                                                                         *)
(* The main program is inside at most one call, NET_send or NET_join, and  *)
(* pc tells how far it is.  Two interrupts come between any two of its     *)
(* steps: the radio's, with a packet, and the timer's.  A call waits in    *)
(* loops that count delays; nothing relates these to the timer, so that    *)
(* any number of interrupts comes between two rounds of a loop.            *)
(*                                                                         *)
(* Around the device are routers, coordinators or gateways, of one or more *)
(* networks.  They are the environment: they send what a router sends, but *)
(* whether and when is left open.  The handshake that carries a payload to *)
(* the parent is CoordUplink's business; here it is on its way in tx until *)
(* the link layer reports it delivered or gives it up.                     *)
(***************************************************************************)
EXTENDS Naturals, FiniteSets

CONSTANTS
  Router,      (* records [nid, cid, channel]: the routers in range       *)
  NoNetwork,   (* the nid of a device without a saved network: 1, 0, 0, 0 *)
  MaxChannel,  (* MAX_CHANNEL: 31 in the code                             *)
  Refused,     (* channels PHY_set_channel refuses: those from 25 at the  *)
               (* two highest bitrates of the lower bands, else none      *)
  HomeChannel, (* the channel of PHY_init_t                               *)
  MoveDelay,   (* MAX_MOVE_DELAY: 40                                      *)
  JoinDelay,   (* MAX_JOIN_DELAY: 40                                      *)
  AckDelay,    (* MAX_DR_ACK_DELAY: 20                                    *)
  DataDelay,   (* MAX_DR_DATA_DELAY: 100                                  *)
  ByteMod,     (* values of a uint8_t, as move_timeout and i are: 256     *)
  AirCap       (* packets on their way to the device; bounds the model    *)

ASSUME EdNetAssumption ==
  /\ Router # {}
  /\ \A r \in Router : r.cid \in Nat /\ r.channel \in Nat /\ r.nid # NoNetwork
  /\ MaxChannel \in Nat /\ HomeChannel \in Nat /\ Refused \subseteq Nat
  /\ HomeChannel \notin Refused
  /\ MoveDelay \in Nat \ {0} /\ ByteMod \in Nat /\ MoveDelay < ByteMod
  /\ {JoinDelay, AckDelay, DataDelay, MaxChannel + 1} \subseteq 0..(ByteMod - 1)
  /\ AirCap \in Nat

VARIABLES
  nid, parent_cid,          (* the network, the parent's ID               *)
  eeprom,                   (* {} or the one saved pair [nid, cid]        *)
  channel,                  (* the channel the radio is on                *)
  sleepy_device,            (* set by the application, for good           *)
  waiting_join_response,    (* a NET_join is waiting                      *)
  link_ack_join_received,   (* ... and some router has answered           *)
  ack_join_address,         (* the routers that did: the entries of the   *)
                            (* array that are not INVALID_CID             *)
  waiting_move_response,    (* the parent is lost                         *)
  move_timeout,             (* ticks until the next MOVE REQUEST          *)
  dr_state,                 (* how a data request stands                  *)
  tx,                       (* the payload in ed_tx_buffer, if any        *)
  call, pc, i,              (* the main program: call, place, counter     *)
  my_channel,               (* LINK_send_join_request: channel on entry   *)
  result,                   (* what the last call returned                *)
  air,                      (* packets on their way to the device         *)
  asked,                    (* history: the last tick sent a MOVE REQUEST *)
  answered                  (* history: what this call's data request was *)
                            (* answered by, GO SLEEP or DATA of the       *)
                            (* parent, or DATA a neighbour broadcast      *)

joinVars == <<waiting_join_response, link_ack_join_received, ack_join_address>>
moveVars == <<waiting_move_response, move_timeout>>
netVars  == <<nid, parent_cid, eeprom>>
mainVars == <<call, pc, i, my_channel, result>>
vars == <<netVars, channel, sleepy_device, joinVars, moveVars, dr_state, tx,
          mainVars, air, asked, answered>>

-----------------------------------------------------------------------------
NetIds == {r.nid : r \in Router}
Cids   == {0} \cup {r.cid : r \in Router}

DR_ACK_WAITING   == "DR_ACK_WAITING"
DR_DATA_WAITING  == "DR_DATA_WAITING"
DR_GO_SLEEP      == "DR_GO_SLEEP"
DR_DATA_RECEIVED == "DR_DATA_RECEIVED"

DrState == {DR_ACK_WAITING, DR_DATA_WAITING, DR_GO_SLEEP, DR_DATA_RECEIVED}

(* A packet from a router.  Its addressee is this device if mine is TRUE,  *)
(* otherwise another device that the same router serves.                   *)
Packet == [type : {"ACK_JOIN", "JOIN_RESPONSE", "MOVE_RESPONSE",
                   "ACK_DR_WAIT", "ACK_DR_SLEEP", "DATA"},
           from : Router, mine : BOOLEAN]

PacketFrom(r, type) == [type |-> type, from |-> r, mine |-> TRUE]

(* Some, all or none of the packets set out for the device: the others are *)
(* lost or never sent.  When they arrive is left open.                     *)
Sends(packets) ==
  \E p \in SUBSET packets :
    /\ Cardinality(air \cup p) <= AirCap
    /\ air' = air \cup p

Places == {"idle", "scan", "scan_delay", "join_wait", "join_end", "join_timeout",
           "dr_ack", "dr_check", "dr_overwrite", "dr_data"}

-----------------------------------------------------------------------------
(* Power on for the first time: the EEPROM is empty, NET_init sets a nid   *)
(* that is not zero, and NET_joined is TRUE from the start.                *)
Init ==
  /\ nid = NoNetwork /\ parent_cid = 0 /\ eeprom = {}
  /\ channel = HomeChannel /\ my_channel = HomeChannel
  /\ sleepy_device \in BOOLEAN
  /\ waiting_join_response = FALSE
  /\ link_ack_join_received = FALSE
  /\ ack_join_address = {}
  /\ waiting_move_response = FALSE /\ move_timeout = 0
  /\ dr_state = DR_ACK_WAITING
  /\ tx = "none"
  /\ call = "none" /\ pc = "idle" /\ i = 0 /\ result = FALSE
  /\ air = {} /\ asked = FALSE /\ answered = "none"

(* The device is switched off and on at any time: NET_init takes network   *)
(* and parent from the EEPROM, the rest starts as LINK_init and the static *)
(* initialisation leave it.                                                *)
NET_init ==
  /\ \/ eeprom = {} /\ nid' = NoNetwork /\ parent_cid' = 0
     \/ \E cfg \in eeprom : nid' = cfg.nid /\ parent_cid' = cfg.cid
  /\ channel' = HomeChannel /\ my_channel' = HomeChannel
  /\ waiting_join_response' = FALSE
  /\ link_ack_join_received' = FALSE
  /\ ack_join_address' = {}
  /\ waiting_move_response' = FALSE /\ move_timeout' = 0
  /\ dr_state' = DR_ACK_WAITING
  /\ tx' = "none"
  /\ call' = "none" /\ pc' = "idle" /\ i' = 0 /\ result' = FALSE
  /\ asked' = FALSE /\ answered' = "none"
  /\ UNCHANGED <<eeprom, sleepy_device, air>>

-----------------------------------------------------------------------------
(* The main program: NET_send.                                             *)

(* A call is refused while a new parent is sought, and a device that is    *)
(* not sleepy only hands its payload to the link layer.                    *)
NET_send_refused ==
  /\ pc = "idle"
  /\ waiting_move_response
  /\ call' = "send" /\ result' = FALSE
  /\ UNCHANGED <<netVars, channel, sleepy_device, joinVars, moveVars, dr_state,
                 tx, pc, i, my_channel, air, asked, answered>>

NET_send_ready ==
  /\ pc = "idle"
  /\ ~waiting_move_response
  /\ ~sleepy_device
  /\ call' = "send" /\ result' = (tx = "none")
  /\ tx' = IF tx = "none" THEN "DATA" ELSE tx
  /\ UNCHANGED <<netVars, channel, sleepy_device, joinVars, moveVars, dr_state,
                 pc, i, my_channel, air, asked, answered>>

(* A sleepy device makes a data request of its payload.  Whether the link  *)
(* layer could take it is not looked at.                                   *)
NET_send_sleepy_KeepsState ==
  /\ pc = "idle"
  /\ ~waiting_move_response
  /\ sleepy_device
  /\ call' = "send" /\ pc' = "dr_ack" /\ i' = 0
  /\ tx' = IF tx = "none" THEN "DR" ELSE tx
  /\ result' = FALSE /\ answered' = "none"
  /\ UNCHANGED <<netVars, channel, sleepy_device, joinVars, moveVars, dr_state,
                 my_channel, air, asked>>
NET_send_sleepy ==
  /\ pc = "idle"
  /\ ~waiting_move_response
  /\ sleepy_device
  /\ call' = "send" /\ pc' = "dr_ack" /\ i' = 0
  /\ dr_state' = DR_ACK_WAITING
  /\ tx' = IF tx = "none" THEN "DR" ELSE tx
  /\ result' = FALSE /\ answered' = "none"
  /\ UNCHANGED <<netVars, channel, sleepy_device, joinVars, moveVars,
                 my_channel, air, asked>>

(* A round of the loop that waits for the acknowledgement, or its end.     *)
DrAckLoop ==
  /\ pc = "dr_ack"
  /\ \/ /\ i < AckDelay /\ dr_state = DR_ACK_WAITING
        /\ i' = i + 1
        /\ UNCHANGED pc
     \/ /\ i >= AckDelay \/ dr_state # DR_ACK_WAITING
        /\ pc' = "dr_check"
        /\ UNCHANGED i
  /\ UNCHANGED <<netVars, channel, sleepy_device, joinVars, moveVars, dr_state,
                 tx, call, my_channel, result, air, asked, answered>>

(* A return; the counter is a dead variable from here on.                  *)
Return(value) ==
  /\ pc' = "idle" /\ i' = 0
  /\ result' = value
  /\ UNCHANGED <<netVars, channel, sleepy_device, link_ack_join_received,
                 ack_join_address, moveVars, dr_state, tx, call, my_channel,
                 air, asked, answered>>

(* The end of the first loop: no answer, no data to come, data already     *)
(* here, or data to wait for.                                              *)
DrCheck ==
  /\ pc = "dr_check"
  /\ UNCHANGED waiting_join_response
  /\ \/ dr_state = DR_ACK_WAITING /\ Return(FALSE)
     \/ dr_state \in {DR_GO_SLEEP, DR_DATA_RECEIVED} /\ Return(TRUE)
     \/ /\ dr_state = DR_DATA_WAITING
        /\ pc' = "dr_overwrite"
        /\ UNCHANGED <<netVars, channel, sleepy_device, link_ack_join_received,
                       ack_join_address, moveVars, dr_state, tx, call, i,
                       my_channel, result, air, asked, answered>>

(* The state is written again after it was tested: DATA that came between  *)
(* are not seen.                                                           *)
DrOverwrite ==
  /\ pc = "dr_overwrite"
  /\ dr_state' = DR_DATA_WAITING
  /\ pc' = "dr_data" /\ i' = 0
  /\ UNCHANGED <<netVars, channel, sleepy_device, joinVars, moveVars, tx, call,
                 my_channel, result, air, asked, answered>>

(* The loop that waits for the data, and its end.                          *)
DrDataLoop_NoLimit ==
  /\ pc = "dr_data"
  /\ dr_state = DR_DATA_WAITING
  /\ i' = i + 1
  /\ UNCHANGED <<netVars, channel, sleepy_device, joinVars, moveVars, dr_state,
                 tx, call, pc, my_channel, result, air, asked, answered>>
DrDataLoop ==
  /\ pc = "dr_data"
  /\ i < DataDelay
  /\ dr_state = DR_DATA_WAITING
  /\ i' = i + 1
  /\ UNCHANGED <<netVars, channel, sleepy_device, joinVars, moveVars, dr_state,
                 tx, call, pc, my_channel, result, air, asked, answered>>

DrDataEnd ==
  /\ pc = "dr_data"
  /\ i >= DataDelay \/ dr_state # DR_DATA_WAITING
  /\ UNCHANGED waiting_join_response
  /\ Return(dr_state = DR_DATA_RECEIVED)

-----------------------------------------------------------------------------
(* The main program: NET_join and LINK_send_join_request.                  *)

NET_join ==
  /\ pc = "idle"
  /\ call' = "join" /\ pc' = "scan" /\ i' = 0
  /\ my_channel' = channel
  /\ waiting_join_response' = TRUE
  /\ link_ack_join_received' = FALSE
  /\ result' = FALSE /\ answered' = "none"
  /\ UNCHANGED <<netVars, channel, sleepy_device, ack_join_address, moveVars,
                 dr_state, tx, air, asked>>

(* A router that hears a JOIN REQUEST acknowledges it and sends a response *)
(* when the server has accepted the device.                                *)
JoinAnswers(ch) ==
  {PacketFrom(r, type) : r \in {q \in Router : q.channel = ch},
                         type \in {"ACK_JOIN", "JOIN_RESPONSE"}}

(* The scan: a request on the next channel; the first refusal ends it on   *)
(* the channel before, only a complete scan goes back to where it began.   *)
LINK_send_join_request ==
  /\ pc = "scan"
  /\ \/ /\ i <= MaxChannel /\ i \notin Refused
        /\ channel' = i
        /\ Sends(JoinAnswers(i))
        /\ pc' = "scan_delay"
     \/ /\ i > MaxChannel \/ i \in Refused
        /\ channel' = IF i > MaxChannel THEN my_channel ELSE channel
        /\ pc' = "join_end"
        /\ UNCHANGED air
  /\ UNCHANGED <<netVars, sleepy_device, joinVars, moveVars, dr_state, tx, call,
                 i, my_channel, result, asked, answered>>

(* After the delay on a channel: stay if a router has answered.            *)
ScanDelay ==
  /\ pc = "scan_delay"
  /\ \/ /\ link_ack_join_received
        /\ pc' = "join_wait" /\ i' = 0
     \/ /\ ~link_ack_join_received
        /\ pc' = "scan" /\ i' = i + 1
  /\ UNCHANGED <<netVars, channel, sleepy_device, joinVars, moveVars, dr_state,
                 tx, call, my_channel, result, air, asked, answered>>

JoinWait ==
  /\ pc = "join_wait"
  /\ \/ /\ i < JoinDelay /\ waiting_join_response
        /\ i' = i + 1
        /\ UNCHANGED pc
     \/ /\ i >= JoinDelay \/ ~waiting_join_response
        /\ pc' = "join_end"
        /\ UNCHANGED i
  /\ UNCHANGED <<netVars, channel, sleepy_device, joinVars, moveVars, dr_state,
                 tx, call, my_channel, result, air, asked, answered>>

(* The end of NET_join: a flag that is still set means that no response    *)
(* came.  One may come after the test: the device joins and the call       *)
(* returns FALSE.                                                          *)
JoinEnd ==
  /\ pc = "join_end"
  /\ UNCHANGED waiting_join_response
  /\ \/ ~waiting_join_response /\ Return(TRUE)
     \/ /\ waiting_join_response
        /\ pc' = "join_timeout"
        /\ UNCHANGED <<netVars, channel, sleepy_device, link_ack_join_received,
                       ack_join_address, moveVars, dr_state, tx, call, i,
                       my_channel, result, air, asked, answered>>

JoinTimeout ==
  /\ pc = "join_timeout"
  /\ waiting_join_response' = FALSE
  /\ Return(FALSE)

-----------------------------------------------------------------------------
(* The radio interrupt.                                                    *)

(* A packet is heard if the radio is on its channel: one that was on its   *)
(* way, or one by which a router talks to another device that joins.       *)
Hears(p) ==
  /\ p.from.channel = channel
  /\ p.mine => p \in air
  /\ air' = air \ {p}

ForOthers == [type : {"ACK_JOIN", "JOIN_RESPONSE"}, from : Router, mine : {FALSE}]

(* A router says that it passes a JOIN REQUEST on.  For which device is    *)
(* not looked at.                                                          *)
AckJoin(p) ==
  /\ p.type = "ACK_JOIN"
  /\ Hears(p)
  /\ IF waiting_join_response
       THEN /\ link_ack_join_received' = TRUE
            /\ ack_join_address' = ack_join_address \cup {p.from.cid}
       ELSE UNCHANGED <<link_ack_join_received, ack_join_address>>
  /\ UNCHANGED <<netVars, channel, sleepy_device, waiting_join_response,
                 moveVars, dr_state, tx, mainVars, asked, answered>>

(* A JOIN RESPONSE of a router that has acknowledged a request ends the    *)
(* wait, whomever it is for; the network is taken over and saved if it is  *)
(* for this device.                                                        *)
JoinResponse(p) ==
  /\ p.type = "JOIN_RESPONSE"
  /\ Hears(p)
  /\ IF /\ waiting_join_response /\ link_ack_join_received
        /\ p.from.cid \in ack_join_address
       THEN /\ waiting_join_response' = FALSE
            /\ ack_join_address' = {}
            /\ nid' = IF p.mine THEN p.from.nid ELSE nid
            /\ parent_cid' = IF p.mine THEN p.from.cid ELSE parent_cid
            /\ eeprom' = IF p.mine THEN {[nid |-> p.from.nid, cid |-> p.from.cid]}
                                   ELSE eeprom
            /\ UNCHANGED link_ack_join_received
       ELSE UNCHANGED <<netVars, joinVars>>
  /\ UNCHANGED <<channel, sleepy_device, moveVars, dr_state, tx, mainVars,
                 asked, answered>>

(* The other packets: of the device's network and, but for a MOVE RESPONSE *)
(* and for packets of 20 bytes or less, of its parent.                     *)
ForMe_AnyNetwork(p) == p.mine
ForMe(p) == p.mine /\ p.from.nid = nid

Short(p) == p.type \in {"ACK_DR_WAIT", "ACK_DR_SLEEP"}

FromParent(p) == Short(p) \/ p.from.cid = parent_cid

(* While a new parent is sought nothing but a MOVE RESPONSE is processed.  *)
Processed(p) == ForMe(p) /\ FromParent(p) /\ ~waiting_move_response

InDataRequest == pc \in {"dr_ack", "dr_check", "dr_overwrite", "dr_data"}

(* Of data only the first after an acknowledgement count for the request.  *)
TakesData == sleepy_device /\ dr_state = DR_DATA_WAITING

(* Data requests: their acknowledgements are taken at any time.            *)
DataRequestAnswer(p) ==
  /\ p.type \in {"ACK_DR_WAIT", "ACK_DR_SLEEP", "DATA"}
  /\ Hears(p)
  /\ dr_state' =
       CASE ~Processed(p) -> dr_state
         [] Processed(p) /\ p.type = "ACK_DR_WAIT"  -> DR_DATA_WAITING
         [] Processed(p) /\ p.type = "ACK_DR_SLEEP" -> DR_GO_SLEEP
         [] Processed(p) /\ p.type = "DATA" ->
              IF TakesData THEN DR_DATA_RECEIVED ELSE dr_state
  /\ answered' = IF /\ InDataRequest /\ Processed(p)
                    /\ p.type = "ACK_DR_SLEEP" \/ (p.type = "DATA" /\ TakesData)
                   THEN "parent" ELSE answered
  /\ UNCHANGED <<netVars, channel, sleepy_device, joinVars, moveVars, tx,
                 mainVars, asked>>

(* A broadcast of the type DATA, from whomever.  End devices send one each *)
(* time they look for a parent.                                            *)
DataBroadcast ==
  /\ TakesData /\ ~waiting_move_response
  /\ dr_state' = DR_DATA_RECEIVED
  /\ answered' = IF InDataRequest THEN "neighbour" ELSE answered
  /\ UNCHANGED <<netVars, channel, sleepy_device, joinVars, moveVars, tx,
                 mainVars, air, asked>>

(* A new parent.  It is not saved.                                         *)
MoveResponse(p) ==
  /\ p.type = "MOVE_RESPONSE"
  /\ Hears(p)
  /\ IF ForMe(p)
       THEN /\ parent_cid' = p.from.cid
            /\ waiting_move_response' = FALSE
       ELSE UNCHANGED <<parent_cid, waiting_move_response>>
  /\ UNCHANGED <<nid, eeprom, channel, sleepy_device, joinVars, move_timeout,
                 dr_state, tx, mainVars, asked, answered>>

-----------------------------------------------------------------------------
(* The timer interrupt.                                                    *)

Decremented == (move_timeout + ByteMod - 1) % ByteMod

MoveAnswers ==
  {PacketFrom(r, "MOVE_RESPONSE") :
     r \in {q \in Router : q.nid = nid /\ q.channel = channel}}

(* MOVE REQUEST to all routers of the network, and a second broadcast for  *)
(* its neighbours: its type does not fit four bits and becomes DATA.       *)
NET_send_move_request_KeepsTimeout ==
  /\ Sends(MoveAnswers) /\ asked' = TRUE
  /\ move_timeout' = Decremented
NET_send_move_request ==
  /\ Sends(MoveAnswers) /\ asked' = TRUE
  /\ move_timeout' = MoveDelay

(* A tick while a parent is sought: the request is repeated on time-out.   *)
LINK_timer_counter_Once ==
  /\ move_timeout' = IF waiting_move_response THEN Decremented ELSE move_timeout
  /\ asked' = FALSE
  /\ UNCHANGED air
LINK_timer_counter ==
  \/ /\ waiting_move_response /\ Decremented = 0
     /\ NET_send_move_request
  \/ /\ ~(waiting_move_response /\ Decremented = 0)
     /\ move_timeout' = IF waiting_move_response THEN Decremented ELSE move_timeout
     /\ asked' = FALSE
     /\ UNCHANGED air

(* The retransmissions of tx are spent: the parent is lost, unless it is   *)
(* lost already, and the payload is dropped.                               *)
LINK_error_handler_ed ==
  /\ tx # "none"
  /\ tx' = "none"
  /\ waiting_move_response' = TRUE
  /\ IF waiting_move_response THEN LINK_timer_counter ELSE NET_send_move_request

PHY_timer_interrupt ==
  /\ \/ LINK_timer_counter /\ UNCHANGED <<waiting_move_response, tx>>
     \/ LINK_error_handler_ed
  /\ UNCHANGED <<netVars, channel, sleepy_device, joinVars, dr_state, mainVars,
                 answered>>

-----------------------------------------------------------------------------
(* The environment.                                                        *)

envUnchanged == <<netVars, channel, sleepy_device, joinVars, moveVars, dr_state,
                  mainVars, asked, answered>>

(* The parent takes the payload; the gateway's answer to a data request    *)
(* is GO SLEEP, or WAIT with the DATA after it.                            *)
Delivered ==
  /\ tx # "none"
  /\ tx' = "none"
  /\ \E r \in Router :
       /\ r.nid = nid /\ r.cid = parent_cid /\ r.channel = channel
       /\ \/ tx = "DATA" /\ UNCHANGED air
          \/ tx = "DR" /\ Sends({PacketFrom(r, "ACK_DR_SLEEP")})
          \/ tx = "DR" /\ Sends({PacketFrom(r, "ACK_DR_WAIT"), PacketFrom(r, "DATA")})
  /\ UNCHANGED envUnchanged

(* A packet does not arrive.                                               *)
Lost ==
  /\ \E p \in air : air' = air \ {p}
  /\ UNCHANGED <<envUnchanged, tx>>

-----------------------------------------------------------------------------
NET_send == NET_send_refused \/ NET_send_ready \/ NET_send_sleepy

InCall == \/ DrAckLoop \/ DrCheck \/ DrOverwrite \/ DrDataLoop \/ DrDataEnd
          \/ LINK_send_join_request \/ ScanDelay \/ JoinWait \/ JoinEnd
          \/ JoinTimeout

PHY_process_packet(p) ==
  AckJoin(p) \/ JoinResponse(p) \/ DataRequestAnswer(p) \/ MoveResponse(p)

Next ==
  \/ NET_send \/ NET_join \/ InCall
  \/ \E p \in air \cup ForOthers : PHY_process_packet(p)
  \/ DataBroadcast
  \/ PHY_timer_interrupt
  \/ Delivered
  \/ Lost
  \/ NET_init

(* The timer ticks; nothing is assumed of the application, of the routers  *)
(* and of the radio.                                                       *)
Spec == Init /\ [][Next]_vars /\ WF_vars(PHY_timer_interrupt)

-----------------------------------------------------------------------------
TypeOK ==
  /\ nid \in NetIds \cup {NoNetwork}
  /\ parent_cid \in Cids
  /\ eeprom \in SUBSET [nid : NetIds, cid : Cids]
  /\ Cardinality(eeprom) <= 1
  /\ channel \in Nat \ Refused
  /\ my_channel \in Nat \ Refused
  /\ sleepy_device \in BOOLEAN
  /\ waiting_join_response \in BOOLEAN
  /\ link_ack_join_received \in BOOLEAN
  /\ ack_join_address \in SUBSET Cids
  /\ waiting_move_response \in BOOLEAN
  /\ move_timeout \in 0..(ByteMod - 1)
  /\ dr_state \in DrState
  /\ tx \in {"none", "DATA", "DR"}
  /\ call \in {"none", "send", "join"}
  /\ pc \in Places
  /\ i \in 0..(ByteMod - 1)
  /\ pc = "scan_delay" => i <= MaxChannel
  /\ result \in BOOLEAN
  /\ air \in SUBSET Packet
  /\ asked \in BOOLEAN
  /\ answered \in {"none", "parent", "neighbour"}

(* When the call of a sleepy device returns TRUE, then during the call it  *)
(* was told to sleep, or DATA came after an acknowledgement (net.c:326),   *)
(* although perhaps those of an earlier request that was given up.         *)
TrueMeansAnswered ==
  pc = "idle" /\ call = "send" /\ sleepy_device /\ result => answered # "none"

(* A device with a network has for its parent a router of that network,    *)
(* and finds its way back to the network after a restart, although a move  *)
(* changes the parent and is not saved (net.c:160, net.c:193).             *)
ParentOfNetwork ==
  nid # NoNetwork =>
    /\ \E r \in Router : r.nid = nid /\ r.cid = parent_cid
    /\ \E s \in eeprom : s.nid = nid

(* A device without a parent has its time-out running, whichever of the    *)
(* link layer's error, the timer and a response came first (net.c:213,     *)
(* net.c:431): a time-out of 0 would count 256 ticks down first.           *)
MoveTimerArmed == waiting_move_response => move_timeout \in 1..MoveDelay

(* A device without a parent asks for one again and again (net.c:435).     *)
MoveRetried ==
  waiting_move_response ~> (~waiting_move_response \/ asked)
=============================================================================
