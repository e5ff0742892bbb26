---------------------------- MODULE GatewayMail ----------------------------
(***************************************************************************)
(* Messages between the gateway's application and sleepy end devices: the  *)
(* store in which messages for sleepy devices wait until a device asks for *)
(* them, and the queue of what was received                                *)
(* (src/fitp/pan/net_layer/net.cpp, src/fitp/pan/fitp/fitp.cpp).           *)
(*                                                                         *)
(* Three threads of the gateway work on them: one application thread sends *)
(* (NET_send), one reads what was received (fitp_received_data), and the   *)
(* thread of the radio takes packets (PHY_process_packet).  Only the queue *)
(* of received messages is protected by a mutex; the store is not.         *)
(*                                                                         *)
(* All devices here are sleepy, listed, and children of the gateway.  The  *)
(* handshakes below are those of PanUplink and Downlink, of which the      *)
(* packets that can be lost and repeated, and the limits, are kept; so are *)
(* the buffers: DATA are looked up by the addresses in the TX buffer       *)
(* (link.cpp:431), and the request of a device that gave it up keeps its   *)
(* slot.  Such a device asks again (EdNet has its search for a parent).    *)
(***************************************************************************)
EXTENDS Naturals, Sequences

CONSTANTS
  Ed,          (* the sleepy end devices                                  *)
  Messages,    (* the messages the application sends, each of them once   *)
               (* and in the order of their numbers                       *)
  Addressees,  (* by message, the devices it may be for; bounds the model *)
  Nothing,     (* no device, no message                                   *)
  MaxSleepy,   (* MAX_SLEEPY_MESSAGES: 10                                 *)
  BufferSize,  (* LINK_RX_BUFFER_SIZE and LINK_TX_BUFFER_SIZE: both 4     *)
  Overlap,     (* whether the application may be in NET_send while the    *)
               (* radio's thread answers a request                        *)
  MaxInbox,    (* messages in the queue; bounds the model                 *)
  MaxLosses    (* lost packets, transfers given up, early time-outs;      *)
               (* bounds the model                                        *)

ASSUME GatewayMailAssumption ==
  /\ Messages \subseteq Nat
  /\ Nothing \notin Ed \cup Messages
  /\ Addressees \in [Messages -> SUBSET Ed]
  /\ MaxSleepy \in Nat \ {0} /\ BufferSize \in Nat \ {0}
  /\ Overlap \in BOOLEAN
  /\ MaxInbox \in Nat \ {0} /\ MaxLosses \in Nat

VARIABLES
  sleepy_messages,   (* the store                                         *)
  app,               (* where the sending thread is in NET_send           *)
  radio,             (* where the radio's thread is in its answer         *)
  rx_buffer,         (* of each slot: the device whose request it holds   *)
  tx_buffer,         (* of each slot: whether free, the address, the      *)
                     (* message                                           *)
  received_messages, (* the queue of what was received                    *)
  reader,            (* where the reading thread is                       *)
  device,            (* of each device: NET_send and its link layer       *)
  up,                (* the packet of each device that is in the air      *)
  losses,            (* history: lost packets, transfers given up, early  *)
                     (* time-outs                                         *)
  toed,              (* history: the addressee of each message            *)
  ended,             (* history: <<e, m>> for which NET_send returned     *)
                     (* false, or that were replaced, refused by the link *)
                     (* layer, confirmed by e, or given up                *)
  returned           (* history: whether the request of each device was   *)
                     (* returned to the application                       *)

storeVars  == <<sleepy_messages, app, toed>>
radioVars  == <<radio, rx_buffer, tx_buffer>>
inboxVars  == <<received_messages, reader, returned>>
deviceVars == <<device, up>>
vars == <<storeVars, radioVars, inboxVars, deviceVars, ended, losses>>

Slot == 1..MaxSleepy

BufferSlot == 1..BufferSize

TxRecord == [empty : BOOLEAN, ed : Ed \cup {Nothing},
             msg : Messages \cup {Nothing}]

Sleepy == [valid : BOOLEAN, toed : Ed \cup {Nothing},
           payload : Messages \cup {Nothing}]

(* dr_state: what NET_send waits for, "out" when it does not run (it sets  *)
(* the state anew when called); link: the handshake of the request; req: a *)
(* bit that tells a request from the one before; acked: its COMMIT was     *)
(* acknowledged.                                                           *)
Device == [dr_state : {"DR_ACK_WAITING", "DR_DATA_WAITING", "out"},
           link : {"free", "DATA", "COMMIT"}, req : {0, 1}, acked : BOOLEAN]

Packet == [type : {"DATA", "COMMIT"}, req : {0, 1}]

(* A message that was received: the request of a device, or the record of  *)
(* a packet without payload.                                               *)
Received == [ed : Ed \cup {Nothing}, req : {0, 1}]

(* What the queue gets for ACK, COMMIT and COMMIT ACK: their length less   *)
(* two headers is below zero, so the record is read from beyond the packet.*)
Garbage == [ed |-> Nothing, req |-> 0]

(* A scan from the first slot upwards finds i first among the slots S.     *)
First(i, S) == i \in S /\ \A j \in S : i <= j

SlotsFor_AnyDevice(e) == {i \in Slot : sleepy_messages[i].valid}

(* The slots with a message for e.                                         *)
SlotsFor(e) ==
  {i \in Slot : sleepy_messages[i].valid /\ sleepy_messages[i].toed = e}

FreeSlots == {i \in Slot : ~sleepy_messages[i].valid}

(* The slots of the RX buffer with a request of e, and those that are free.*)
RxSlotsOf(e) == {i \in BufferSlot : rx_buffer[i] = e}

FreeRxSlots == {i \in BufferSlot : rx_buffer[i] = Nothing}

(* The look-up of DATA among those already stored: the address that slot i *)
(* of the TX buffer has, or had when it was in use.                        *)
AlreadyStored(e) ==
  \E i \in BufferSlot : rx_buffer[i] # Nothing /\ tx_buffer[i].ed = e

(* The slots of the TX buffer with a message for e, and those that are     *)
(* free.                                                                   *)
TxSlotsOf(e) == {i \in BufferSlot : ~tx_buffer[i].empty /\ tx_buffer[i].ed = e}

FreeTxSlots == {i \in BufferSlot : tx_buffer[i].empty}

(* What slots S of the TX buffer hold, and the TX buffer with these freed: *)
(* they keep their addresses.                                              *)
MailIn(S) == {<<tx_buffer[i].ed, tx_buffer[i].msg>> : i \in S}

Freed(S) ==
  [i \in BufferSlot |->
     IF i \in S THEN [empty |-> TRUE, ed |-> tx_buffer[i].ed, msg |-> Nothing]
     ELSE tx_buffer[i]]

OutOfSend   == [at |-> "out", slot |-> 1, msg |-> Nothing]
OutOfAnswer == [at |-> "out", ed |-> Nothing, slot |-> 1]

Answering == radio.at # "out"

Init ==
  /\ sleepy_messages =
       [i \in Slot |-> [valid |-> FALSE, toed |-> Nothing, payload |-> Nothing]]
  /\ app = OutOfSend
  /\ radio = OutOfAnswer
  /\ rx_buffer = [i \in BufferSlot |-> Nothing]
  /\ tx_buffer = [i \in BufferSlot |-> [empty |-> TRUE, ed |-> Nothing, msg |-> Nothing]]
  /\ received_messages = <<>> /\ reader = "out"
  /\ device = [e \in Ed |-> [dr_state |-> "out",
                             link |-> "free", req |-> 0, acked |-> FALSE]]
  /\ up = [e \in Ed |-> <<>>]
  /\ losses = 0
  /\ toed = [m \in Messages |-> Nothing]
  /\ ended = {}
  /\ returned = [e \in Ed |-> FALSE]

(* Either what goes to a device reaches it, with effect d on the device,   *)
(* or it is lost.                                                          *)
ReachesOrLost(e, d) ==
  \/ device' = [device EXCEPT ![e] = d] /\ UNCHANGED losses
  \/ losses < MaxLosses /\ losses' = losses + 1 /\ UNCHANGED device

-----------------------------------------------------------------------------
(* The application's thread that sends.                                    *)

(* push_sleepy_message finds the slot: the one that holds a message for e, *)
(* or else the first free one.  Without either NET_send returns false.     *)
push_sleepy_message(e, m) ==
  /\ app.at = "out" /\ toed[m] = Nothing /\ e \in Addressees[m]
  /\ \A n \in Messages : n < m => toed[n] # Nothing
  /\ Overlap \/ ~Answering
  /\ toed' = [toed EXCEPT ![m] = e]
  /\ \/ /\ \E i \in Slot : /\ First(i, SlotsFor(e))
                           /\ app' = [at |-> "overwrite", slot |-> i, msg |-> m]
        /\ UNCHANGED ended
     \/ /\ SlotsFor(e) = {}
        /\ \E i \in Slot : /\ First(i, FreeSlots)
                           /\ app' = [at |-> "fill", slot |-> i, msg |-> m]
        /\ UNCHANGED ended
     \/ /\ SlotsFor(e) = {} /\ FreeSlots = {}
        /\ ended' = ended \cup {<<e, m>>}
        /\ UNCHANGED app
  /\ UNCHANGED <<sleepy_messages, radioVars, inboxVars, deviceVars, losses>>

(* It writes the message into the slot it found, and NET_send returns true.*)
(* Only a free slot gets the address and is made valid.                    *)
PushWrites ==
  LET old == sleepy_messages[app.slot]
  IN  /\ app.at # "out"
      /\ app' = OutOfSend
      /\ \/ /\ app.at = "overwrite"
            /\ sleepy_messages' = [sleepy_messages EXCEPT ![app.slot].payload = app.msg]
            /\ ended' = IF old.valid /\ old.toed = toed[app.msg]
                        THEN ended \cup {<<old.toed, old.payload>>} ELSE ended
         \/ /\ app.at = "fill"
            /\ sleepy_messages' = [sleepy_messages EXCEPT ![app.slot] =
                 [valid |-> TRUE, toed |-> toed[app.msg], payload |-> app.msg]]
            /\ UNCHANGED ended
      /\ UNCHANGED <<toed, radioVars, inboxVars, deviceVars, losses>>

-----------------------------------------------------------------------------
(* The thread of the radio.                                                *)

(* Every packet of the network is put into the queue, before anything else *)
(* of it is looked at.                                                     *)
LINK_save_msg_info(record) ==
  received_messages' = Append(received_messages, record)

(* The radio's thread takes the packet of e that is in the air.            *)
Takes(e, type) ==
  /\ ~Answering
  /\ up[e] # <<>> /\ Head(up[e]).type = type
  /\ Len(received_messages) < MaxInbox
  /\ up' = [up EXCEPT ![e] = Tail(@)]
  /\ UNCHANGED <<app, toed, tx_buffer, reader, returned, ended>>

(* An ACK goes back.                                                       *)
Acked(e) ==
  ReachesOrLost(e, [device[e] EXCEPT !.link = IF @ = "free" THEN @ ELSE "COMMIT"])

(* DATA that the look-up finds are acknowledged.  Others are stored in the *)
(* first free slot and acknowledged, or refused with BUSY, after which the *)
(* device goes on sending them.                                            *)
TakesData(e) ==
  /\ Takes(e, "DATA")
  /\ LINK_save_msg_info([ed |-> e, req |-> Head(up[e]).req])
  /\ \/ AlreadyStored(e) /\ Acked(e) /\ UNCHANGED rx_buffer
     \/ /\ ~AlreadyStored(e)
        /\ \E i \in BufferSlot : /\ First(i, FreeRxSlots)
                                 /\ rx_buffer' = [rx_buffer EXCEPT ![i] = e]
        /\ Acked(e)
     \/ /\ ~AlreadyStored(e) /\ FreeRxSlots = {}
        /\ UNCHANGED <<rx_buffer, device, losses>>
  /\ UNCHANGED <<sleepy_messages, radio>>

(* COMMIT ACK goes back.                                                   *)
CommitAcked(e) ==
  ReachesOrLost(e, [device[e] EXCEPT !.link = "free", !.acked = TRUE])

(* COMMIT of a request of e: acknowledged; then local_process_packet       *)
(* looks for a message for e, marks it invalid, and answers in the steps   *)
(* that follow.  The slot of the request is freed after them, but nothing  *)
(* reads the RX buffer before.                                             *)
local_process_packet(e) ==
  /\ Takes(e, "COMMIT")
  /\ Overlap \/ app.at = "out"
  /\ LINK_save_msg_info(Garbage)
  /\ \E i \in BufferSlot : /\ First(i, RxSlotsOf(e))
                           /\ rx_buffer' = [rx_buffer EXCEPT ![i] = Nothing]
  /\ CommitAcked(e)
  /\ \/ \E i \in Slot :
          /\ First(i, SlotsFor(e))
          /\ sleepy_messages' = [sleepy_messages EXCEPT ![i].valid = FALSE]
          /\ radio' = [at |-> "wait", ed |-> e, slot |-> i]
     \/ /\ SlotsFor(e) = {}
        /\ radio' = [at |-> "sleep", ed |-> e, slot |-> 1]
        /\ UNCHANGED sleepy_messages

(* COMMIT again, or of DATA that were not stored: acknowledged.            *)
CommitAgain(e) ==
  /\ Takes(e, "COMMIT")
  /\ RxSlotsOf(e) = {}
  /\ LINK_save_msg_info(Garbage)
  /\ CommitAcked(e)
  /\ UNCHANGED <<sleepy_messages, radio, rx_buffer>>

(* The answer without handshake: data follow, or go to sleep.              *)
AnswerWait ==
  /\ radio.at = "wait"
  /\ radio' = [radio EXCEPT !.at = "data"]
  /\ ReachesOrLost(radio.ed, [device[radio.ed] EXCEPT !.dr_state =
       IF @ = "out" THEN @ ELSE "DR_DATA_WAITING"])
  /\ UNCHANGED <<storeVars, rx_buffer, tx_buffer, inboxVars, up, ended>>

AnswerSleep ==
  /\ radio.at = "sleep"
  /\ radio' = OutOfAnswer
  /\ ReachesOrLost(radio.ed, [device[radio.ed] EXCEPT !.dr_state = "out"])
  /\ UNCHANGED <<storeVars, rx_buffer, tx_buffer, inboxVars, up, ended>>

(* The record of the TX buffer for the answer: send copies what is now in  *)
(* the slot of the store.                                                  *)
Answer == [empty |-> FALSE, ed |-> radio.ed, msg |-> sleepy_messages[radio.slot].payload]

AnswerData_Overruns ==
  /\ radio.at = "data"
  /\ radio' = OutOfAnswer
  /\ \/ \E i \in BufferSlot : /\ First(i, FreeTxSlots)
                              /\ tx_buffer' = [tx_buffer EXCEPT ![i] = Answer]
     \/ /\ FreeTxSlots = {}
        /\ tx_buffer' = [i \in 1..(BufferSize + 1) |->
             IF i \in BufferSlot THEN tx_buffer[i] ELSE Answer]
  /\ UNCHANGED <<storeVars, rx_buffer, inboxVars, deviceVars, losses, ended>>

(* The data themselves: if the TX buffer is full they are lost, as the     *)
(* result of send is ignored.                                              *)
AnswerData ==
  /\ radio.at = "data"
  /\ radio' = OutOfAnswer
  /\ \/ /\ \E i \in BufferSlot : /\ First(i, FreeTxSlots)
                                 /\ tx_buffer' = [tx_buffer EXCEPT ![i] = Answer]
        /\ UNCHANGED ended
     \/ /\ FreeTxSlots = {}
        /\ ended' = ended \cup {<<Answer.ed, Answer.msg>>}
        /\ UNCHANGED tx_buffer
  /\ UNCHANGED <<storeVars, rx_buffer, inboxVars, deviceVars, losses>>

(* Messages leave the TX buffer.                                           *)
Frees(S) == tx_buffer' = Freed(S) /\ ended' = ended \cup MailIn(S)

(* The transfer of a message to e ends: its DATA were acknowledged, COMMIT *)
(* was sent, the device has the message, waiting or not, and the queue of  *)
(* the gateway has ACK and COMMIT ACK, which frees the first slot for e.   *)
Delivered(e) ==
  /\ ~Answering
  /\ \E i \in BufferSlot : First(i, TxSlotsOf(e)) /\ Frees({i})
  /\ Len(received_messages) < MaxInbox
  /\ received_messages' = received_messages \o <<Garbage, Garbage>>
  /\ device' = [device EXCEPT ![e].dr_state =
       IF @ = "DR_DATA_WAITING" THEN "out" ELSE @]
  /\ UNCHANGED <<storeVars, radio, rx_buffer, reader, returned, up, losses>>

(* With one message all messages for this device are given up.             *)
GivenUp(e) ==
  /\ TxSlotsOf(e) # {} /\ Frees(TxSlotsOf(e))
  /\ losses < MaxLosses /\ losses' = losses + 1
  /\ UNCHANGED <<storeVars, radio, rx_buffer, inboxVars, deviceVars>>

-----------------------------------------------------------------------------
(* The application's thread that reads (fitp_received_data).               *)

(* The oldest message is returned.                                         *)
Read ==
  /\ reader = "out" /\ received_messages # <<>>
  /\ received_messages' = Tail(received_messages)
  /\ LET r == Head(received_messages)
     IN  returned' = [e \in Ed |-> returned[e] \/ (e = r.ed /\ r.req = device[e].req)]
  /\ UNCHANGED <<storeVars, radioVars, reader, deviceVars, ended, losses>>

(* An empty queue is waited for.  When a message comes, or after 5 s, the  *)
(* call returns without one, also if there is one by then.                 *)
Wait ==
  /\ reader = "out" /\ received_messages = <<>>
  /\ reader' = "waiting"
  /\ UNCHANGED <<storeVars, radioVars, received_messages, returned, deviceVars,
                 ended, losses>>

WakesUp_Drops ==
  /\ reader = "waiting"
  /\ reader' = "out"
  /\ received_messages' = IF received_messages = <<>> THEN <<>> ELSE Tail(received_messages)
  /\ UNCHANGED <<storeVars, radioVars, returned, deviceVars, ended, losses>>

WakesUp ==
  /\ reader = "waiting"
  /\ reader' = "out"
  /\ UNCHANGED <<storeVars, radioVars, received_messages, returned, deviceVars,
                 ended, losses>>

-----------------------------------------------------------------------------
(* The devices.                                                            *)

(* NET_send: a new request, unless the last one is still under way, whose  *)
(* outcome is then waited for.                                             *)
Asks(e) ==
  /\ device[e].dr_state = "out"
  /\ \/ /\ device[e].link = "free"
        /\ device' = [device EXCEPT ![e] =
             [dr_state |-> "DR_ACK_WAITING", link |-> "DATA",
              req |-> 1 - @.req, acked |-> FALSE]]
        /\ returned' = [returned EXCEPT ![e] = FALSE]
     \/ /\ device[e].link # "free"
        /\ device' = [device EXCEPT ![e].dr_state = "DR_ACK_WAITING"]
        /\ UNCHANGED returned
  /\ UNCHANGED <<storeVars, radioVars, received_messages, reader, up, ended, losses>>

(* The link layer sends, or sends again, the packet of its handshake.      *)
Transmits(e) ==
  /\ device[e].link # "free" /\ up[e] = <<>>
  /\ up' = [up EXCEPT ![e] = <<[type |-> device[e].link, req |-> device[e].req]>>]
  /\ UNCHANGED <<storeVars, radioVars, inboxVars, device, ended, losses>>

IsLost(e) ==
  /\ up[e] # <<>>
  /\ losses < MaxLosses /\ losses' = losses + 1
  /\ up' = [up EXCEPT ![e] = Tail(@)]
  /\ UNCHANGED <<storeVars, radioVars, inboxVars, device, ended>>

(* After its last retry the link layer gives the request up; by then the   *)
(* packet before is no longer in the air.                                  *)
GivesUp(e) ==
  /\ device[e].link # "free" /\ up[e] = <<>>
  /\ losses < MaxLosses /\ losses' = losses + 1
  /\ device' = [device EXCEPT ![e].link = "free"]
  /\ UNCHANGED <<storeVars, radioVars, inboxVars, up, ended>>

(* Nothing of the request of e or of its answer is under way.              *)
Over(e) ==
  /\ device[e].link = "free"
  /\ ~(Answering /\ radio.ed = e)
  /\ TxSlotsOf(e) = {}

TimesOut_DataOnly(e) ==
  /\ device[e].dr_state = "DR_DATA_WAITING"
  /\ Over(e)
  /\ device' = [device EXCEPT ![e].dr_state = "out"]
  /\ UNCHANGED <<storeVars, radioVars, inboxVars, up, ended, losses>>

(* It returns false after 10 ms times MAX_DR_ACK_DELAY, MAX_DR_DATA_DELAY: *)
(* when nothing comes any more, or too early.                              *)
TimesOut(e) ==
  /\ device[e].dr_state # "out"
  /\ \/ Over(e) /\ UNCHANGED losses
     \/ ~Over(e) /\ losses < MaxLosses /\ losses' = losses + 1
  /\ device' = [device EXCEPT ![e].dr_state = "out"]
  /\ UNCHANGED <<storeVars, radioVars, inboxVars, up, ended>>

-----------------------------------------------------------------------------
RadioStep ==
  \/ \E e \in Ed : TakesData(e) \/ local_process_packet(e) \/ CommitAgain(e)
  \/ AnswerWait \/ AnswerSleep \/ AnswerData

DeviceStep(e) == Asks(e) \/ Transmits(e) \/ TimesOut(e)

ReaderStep == Read \/ Wait \/ WakesUp

Next ==
  \/ \E e \in Ed, m \in Messages : push_sleepy_message(e, m)
  \/ PushWrites
  \/ RadioStep
  \/ \E e \in Ed : Delivered(e) \/ GivenUp(e)
  \/ ReaderStep
  \/ \E e \in Ed : DeviceStep(e) \/ IsLost(e) \/ GivesUp(e)

(* The threads run again and again, devices go on asking, and each of them *)
(* gets its turn in the air; nothing is assumed about when the application *)
(* sends.                                                                  *)
Spec ==
  /\ Init /\ [][Next]_vars
  /\ WF_vars(PushWrites) /\ WF_vars(ReaderStep)
  /\ WF_vars(AnswerWait \/ AnswerSleep \/ AnswerData)
  /\ \A e \in Ed :
       /\ WF_vars(DeviceStep(e))
       /\ SF_vars(TakesData(e) \/ local_process_packet(e) \/ CommitAgain(e))
       /\ SF_vars(Delivered(e))

-----------------------------------------------------------------------------
(* Properties.                                                             *)

(* The messages in the TX buffer.                                          *)
TxMail == MailIn({i \in BufferSlot : ~tx_buffer[i].empty})

(* Every variable has its type; the TX buffer is not overrun, and a slot   *)
(* in use has a message for a device.                                      *)
TypeOK ==
  /\ sleepy_messages \in [Slot -> Sleepy]
  /\ app \in [at : {"out", "overwrite", "fill"}, slot : Slot,
              msg : Messages \cup {Nothing}]
  /\ radio \in [at : {"out", "wait", "data", "sleep"}, ed : Ed \cup {Nothing},
                slot : Slot]
  /\ rx_buffer \in [BufferSlot -> Ed \cup {Nothing}]
  /\ tx_buffer \in [BufferSlot -> TxRecord] /\ TxMail \subseteq Ed \X Messages
  /\ received_messages \in Seq(Received)
  /\ reader \in {"out", "waiting"}
  /\ device \in [Ed -> Device]
  /\ up \in [Ed -> Seq(Packet)]
  /\ losses \in 0..MaxLosses
  /\ toed \in [Messages -> Ed \cup {Nothing}]
  /\ ended \subseteq Ed \X Messages
  /\ returned \in [Ed -> BOOLEAN]

(* The message m for e waits in the store, or the answer to e is about to  *)
(* send it.                                                                *)
Waits(e, m) ==
  \/ \E i \in SlotsFor(e) : sleepy_messages[i].payload = m
  \/ /\ radio.at \in {"wait", "data"} /\ radio.ed = e
     /\ sleepy_messages[radio.slot].payload = m

(* A message that NET_send returned true for (net.cpp:637) is never lost   *)
(* without a trace: it waits for its device, is in the TX buffer, was      *)
(* received by the device it is for, or was replaced by a later one for    *)
(* this device, refused by the link layer, or given up.                    *)
Accounted ==
  \A m \in Messages :
    toed[m] # Nothing /\ app.msg # m =>
      Waits(toed[m], m) \/ <<toed[m], m>> \in TxMail \cup ended

(* What is sent to a device, and what it receives, is a message the        *)
(* application sent to this device: an answer sends the message it found,  *)
(* "send first message and then invalidate this record" (net.cpp:992).     *)
MailForAddressee == \A t \in TxMail \cup ended : t[1] = toed[t[2]]

(* A request whose COMMIT was acknowledged to the device is in the queue,  *)
(* or was returned by fitp_received_data (fitp.cpp:179): the application   *)
(* misses none, although calls that had to wait return nothing.            *)
RequestIsQueued ==
  \A e \in Ed : device[e].acked =>
    \/ returned[e]
    \/ \E i \in DOMAIN received_messages :
         received_messages[i] = [ed |-> e, req |-> device[e].req]

(* The DATA that e sends will not be stored: the look-up mistakes them for *)
(* stored ones, when they are not (link.cpp:431), or it does not find them *)
(* and all slots are in use.                                               *)
ShutOut(e) ==
  /\ device[e].link = "DATA"
  /\ \/ AlreadyStored(e) /\ RxSlotsOf(e) = {}
     \/ ~AlreadyStored(e) /\ FreeRxSlots = {}

(* A message does not stay in the store as long as its device goes on      *)
(* asking (net.cpp:990), unless the device is shut out again and again: by *)
(* requests of other devices, by requests stored twice after a lost ACK or *)
(* given up by their device, as both keep a slot for ever.  Over lost      *)
(* packets, requests given up, answers that come too late and a full TX    *)
(* buffer, again and again there is none.                                  *)
MailLeaves == \A e \in Ed : <>[]~ShutOut(e) => []<>(SlotsFor(e) = {})
=============================================================================
