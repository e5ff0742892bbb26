------------------------- MODULE GatewayMail_proofs -------------------------
(***************************************************************************)
(* Proofs about the gateway's store and its queue of received messages,    *)
(* for any devices and messages and any sizes of the store, the buffers    *)
(* and the queue.                                                          *)
(***************************************************************************)
EXTENDS GatewayMail, TLAPS

-----------------------------------------------------------------------------
(* The type invariant, in parts.                                           *)

StoreType ==
  /\ sleepy_messages \in [Slot -> Sleepy]
  /\ app \in [at : {"out", "overwrite", "fill"}, slot : Slot,
              msg : Messages \cup {Nothing}]
  /\ toed \in [Messages -> Ed \cup {Nothing}]

RadioType ==
  /\ radio \in [at : {"out", "wait", "data", "sleep"}, ed : Ed \cup {Nothing},
                slot : Slot]
  /\ rx_buffer \in [BufferSlot -> Ed \cup {Nothing}]
  /\ tx_buffer \in [BufferSlot -> TxRecord] /\ TxMail \subseteq Ed \X Messages
  /\ ended \subseteq Ed \X Messages

InboxType ==
  /\ received_messages \in Seq(Received)
  /\ reader \in {"out", "waiting"}
  /\ returned \in [Ed -> BOOLEAN]

DeviceType ==
  /\ device \in [Ed -> Device]
  /\ up \in [Ed -> Seq(Packet)]
  /\ losses \in 0..MaxLosses

LEMMA TypeParts ==
  TypeOK <=> StoreType /\ RadioType /\ InboxType /\ DeviceType
BY Zenon DEF TypeOK, StoreType, RadioType, InboxType, DeviceType

(* What the types do not say of a slot and of who works on one: a valid    *)
(* slot holds a message for a device, so does the slot an answer is about  *)
(* to send, also while NET_send changes it; and a message NET_send is busy *)
(* with has its addressee.                                                 *)
SlotsHoldMail ==
  \A i \in Slot : sleepy_messages[i].valid =>
    sleepy_messages[i].toed \in Ed /\ sleepy_messages[i].payload \in Messages

AppHasMail ==
  app.at # "out" => app.msg \in Messages /\ toed[app.msg] \in Ed

AnswerHasMail ==
  /\ radio.at # "out" => radio.ed \in Ed
  /\ radio.at \in {"wait", "data"} =>
       sleepy_messages[radio.slot].payload \in Messages

TypeInv ==
  /\ StoreType /\ RadioType /\ InboxType /\ DeviceType
  /\ SlotsHoldMail /\ AppHasMail /\ AnswerHasMail

LEMMA Bounds ==
  /\ Nothing \notin Ed /\ Nothing \notin Messages
  /\ MaxLosses \in Nat
  /\ 1 \in Slot
<1>1. MaxSleepy \in Nat /\ MaxSleepy >= 1
  BY GatewayMailAssumption
<1>2. 1 \in Slot
  BY <1>1 DEF Slot
<1>3. MaxLosses \in Nat /\ Nothing \notin Ed \cup Messages
  BY GatewayMailAssumption
<1> QED BY <1>2, <1>3

LEMMA TypeInit == Init => TypeInv
<1> SUFFICES ASSUME Init PROVE TypeInv
  OBVIOUS
<1> USE Bounds
<1>1. StoreType /\ SlotsHoldMail /\ AppHasMail
  BY DEF Init, StoreType, SlotsHoldMail, AppHasMail, OutOfSend, Sleepy
<1>2. RadioType /\ AnswerHasMail
  BY DEF Init, RadioType, AnswerHasMail, OutOfAnswer, TxRecord, TxMail, MailIn
<1>3. InboxType
  BY DEF Init, InboxType
<1>4. DeviceType
  BY DEF Init, DeviceType, Device
<1> QED BY <1>1, <1>2, <1>3, <1>4 DEF TypeInv

-----------------------------------------------------------------------------
(* The steps, one by one.                                                  *)

(* A device, or a slot, that a step changes is one again.                  *)
LEMMA DeviceEdits ==
  ASSUME NEW d \in Device
  PROVE  /\ [d EXCEPT !.link = IF @ = "free" THEN @ ELSE "COMMIT"] \in Device
         /\ [d EXCEPT !.link = "free"] \in Device
         /\ [d EXCEPT !.link = "free", !.acked = TRUE] \in Device
         /\ [d EXCEPT !.dr_state = IF @ = "out" THEN @ ELSE "DR_DATA_WAITING"] \in Device
         /\ [d EXCEPT !.dr_state = IF @ = "DR_DATA_WAITING" THEN "out" ELSE @] \in Device
         /\ [d EXCEPT !.dr_state = "out"] \in Device
         /\ [d EXCEPT !.dr_state = "DR_ACK_WAITING"] \in Device
         /\ [dr_state |-> "DR_ACK_WAITING", link |-> "DATA",
             req |-> 1 - d.req, acked |-> FALSE] \in Device
         /\ d.link # "free" => [type |-> d.link, req |-> d.req] \in Packet
<1>1. [d EXCEPT !.link = IF @ = "free" THEN @ ELSE "COMMIT"] \in Device
  <2>1. CASE d.link = "free"
    BY <2>1 DEF Device
  <2>2. CASE d.link # "free"
    BY <2>2 DEF Device
  <2> QED BY <2>1, <2>2
<1>2. /\ [d EXCEPT !.link = "free"] \in Device
      /\ [d EXCEPT !.link = "free", !.acked = TRUE] \in Device
  BY DEF Device
<1>3. [d EXCEPT !.dr_state = IF @ = "out" THEN @ ELSE "DR_DATA_WAITING"] \in Device
  BY DEF Device
<1>4. [d EXCEPT !.dr_state = IF @ = "DR_DATA_WAITING" THEN "out" ELSE @] \in Device
  BY DEF Device
<1>5. /\ [d EXCEPT !.dr_state = "out"] \in Device
      /\ [d EXCEPT !.dr_state = "DR_ACK_WAITING"] \in Device
  BY DEF Device
<1>6. [dr_state |-> "DR_ACK_WAITING", link |-> "DATA",
       req |-> 1 - d.req, acked |-> FALSE] \in Device
  BY DEF Device
<1>7. d.link # "free" => [type |-> d.link, req |-> d.req] \in Packet
  BY DEF Device, Packet
<1> QED BY <1>1, <1>2, <1>3, <1>4, <1>5, <1>6, <1>7

LEMMA DrStateEdit ==
  ASSUME NEW e \in Ed, NEW s, device \in [Ed -> Device],
         device' = [device EXCEPT ![e].dr_state = s]
  PROVE  \A f \in Ed : /\ device'[f].link = device[f].link
                       /\ device'[f].req = device[f].req
                       /\ device'[f].acked = device[f].acked
<1> SUFFICES ASSUME NEW f \in Ed
             PROVE  /\ device'[f].link = device[f].link
                    /\ device'[f].req = device[f].req
                    /\ device'[f].acked = device[f].acked
  OBVIOUS
<1>1. CASE f = e
  BY <1>1 DEF Device
<1>2. CASE f # e
  BY <1>2
<1> QED BY <1>1, <1>2

LEMMA SlotEdits ==
  ASSUME NEW s \in Sleepy
  PROVE  /\ [s EXCEPT !.valid = FALSE] \in Sleepy
         /\ [s EXCEPT !.valid = FALSE].valid = FALSE
         /\ [s EXCEPT !.valid = FALSE].payload = s.payload
BY DEF Sleepy

(* What leaves the TX buffer is in the history; nothing else of it changes.*)
LEMMA FreesMail ==
  ASSUME tx_buffer \in [BufferSlot -> TxRecord], NEW S \in SUBSET BufferSlot,
         \A i \in S : ~tx_buffer[i].empty, Frees(S)
  PROVE  /\ tx_buffer' \in [BufferSlot -> TxRecord]
         /\ TxMail' \subseteq TxMail /\ ended' \subseteq ended \cup TxMail
         /\ TxMail \cup ended \subseteq TxMail' \cup ended'
<1>1. /\ tx_buffer' \in [BufferSlot -> TxRecord]
      /\ \A i \in S : tx_buffer'[i].empty
      /\ \A i \in BufferSlot \ S : tx_buffer'[i] = tx_buffer[i]
  BY DEF Frees, Freed, TxRecord
<1>2. ended' = ended \cup MailIn(S)
  BY DEF Frees
<1> QED BY <1>1, <1>2 DEF TxMail, MailIn

(* The answer goes into the TX buffer, or it is refused.                   *)
LEMMA AnswerMail ==
  ASSUME tx_buffer \in [BufferSlot -> TxRecord], Answer \in TxRecord, ~Answer.empty,
         AnswerData
  PROVE  /\ tx_buffer' \in [BufferSlot -> TxRecord]
         /\ TxMail \subseteq TxMail' /\ ended \subseteq ended'
         /\ <<Answer.ed, Answer.msg>> \in TxMail' \cup ended'
         /\ TxMail' \cup ended' \subseteq
              (TxMail \cup ended) \cup {<<Answer.ed, Answer.msg>>}
<1>1. CASE UNCHANGED tx_buffer /\ ended' = ended \cup {<<Answer.ed, Answer.msg>>}
  BY <1>1 DEF TxMail, MailIn
<1>2. ASSUME NEW i \in BufferSlot, tx_buffer[i].empty, ended' = ended,
             tx_buffer' = [tx_buffer EXCEPT ![i] = Answer]
      PROVE  /\ tx_buffer' \in [BufferSlot -> TxRecord]
             /\ TxMail \subseteq TxMail' /\ ended \subseteq ended'
             /\ <<Answer.ed, Answer.msg>> \in TxMail' \cup ended'
             /\ TxMail' \cup ended' \subseteq
                  (TxMail \cup ended) \cup {<<Answer.ed, Answer.msg>>}
  <2>1. /\ tx_buffer' \in [BufferSlot -> TxRecord] /\ tx_buffer'[i] = Answer
        /\ \A j \in BufferSlot : j # i => tx_buffer'[j] = tx_buffer[j]
    BY <1>2
  <2> QED BY <1>2, <2>1 DEF TxMail, MailIn
<1> QED BY <1>1, <1>2 DEF AnswerData, First, FreeTxSlots

(* The answer is a record of the TX buffer.                                *)
LEMMA AnswerType ==
  ASSUME TypeInv, radio.at = "data"
  PROVE  /\ Answer \in TxRecord /\ ~Answer.empty
         /\ Answer.ed = radio.ed /\ Answer.ed \in Ed
         /\ Answer.msg = sleepy_messages[radio.slot].payload /\ Answer.msg \in Messages
BY DEF Answer, TypeInv, AnswerHasMail, TxRecord

(* The slots that Delivered and GivenUp free are in use.                   *)
LEMMA EndsInUse ==
  ASSUME NEW e \in Ed, Delivered(e) \/ GivenUp(e)
  PROVE  \E S \in SUBSET BufferSlot : Frees(S) /\ \A i \in S : ~tx_buffer[i].empty
<1>1. CASE Delivered(e)
  <2> PICK i \in BufferSlot : i \in TxSlotsOf(e) /\ Frees({i})
    BY <1>1 DEF Delivered, First
  <2>1. \A j \in {i} : ~tx_buffer[j].empty
    BY DEF TxSlotsOf
  <2> QED BY <2>1
<1>2. CASE GivenUp(e)
  BY <1>2, Zenon DEF GivenUp, TxSlotsOf
<1> QED BY <1>1, <1>2

(* Every step is one of these.                                             *)
LEMMA NextCases ==
  ASSUME Next
  PROVE  \/ \E e \in Ed, m \in Messages : push_sleepy_message(e, m)
         \/ PushWrites
         \/ \E e \in Ed : TakesData(e)
         \/ \E e \in Ed : local_process_packet(e)
         \/ \E e \in Ed : CommitAgain(e)
         \/ AnswerWait \/ AnswerSleep \/ AnswerData
         \/ \E e \in Ed : Delivered(e)
         \/ Read \/ Wait \/ WakesUp
         \/ \E e \in Ed : GivenUp(e)
         \/ \E e \in Ed : Asks(e)
         \/ \E e \in Ed : Transmits(e)
         \/ \E e \in Ed : TimesOut(e)
         \/ \E e \in Ed : IsLost(e)
         \/ \E e \in Ed : GivesUp(e)
BY DEF Next, RadioStep, ReaderStep, DeviceStep

LEMMA StoreTypeNext ==
  ASSUME TypeInv, [Next]_vars
  PROVE  StoreType' /\ SlotsHoldMail' /\ AppHasMail'
<1> USE Bounds DEF TypeInv, StoreType, SlotsHoldMail, AppHasMail
<1>1. CASE \E e \in Ed, m \in Messages : push_sleepy_message(e, m)
  <2> PICK e \in Ed, m \in Messages : push_sleepy_message(e, m)
    BY <1>1
  <2>1. /\ toed' = [toed EXCEPT ![m] = e] /\ app.at = "out"
        /\ UNCHANGED sleepy_messages
        /\ \/ UNCHANGED app
           \/ \E i \in Slot : \/ app' = [at |-> "overwrite", slot |-> i, msg |-> m]
                              \/ app' = [at |-> "fill", slot |-> i, msg |-> m]
    BY DEF push_sleepy_message
  <2>2. CASE UNCHANGED app
    BY <2>1, <2>2
  <2>3. ASSUME NEW i \in Slot,
               \/ app' = [at |-> "overwrite", slot |-> i, msg |-> m]
               \/ app' = [at |-> "fill", slot |-> i, msg |-> m]
        PROVE  StoreType' /\ SlotsHoldMail' /\ AppHasMail'
    BY <2>1, <2>3
  <2> QED BY <2>1, <2>2, <2>3
<1>2. CASE PushWrites
  <2>1. app' = OutOfSend /\ toed' = toed /\ app.slot \in Slot
        /\ app.msg \in Messages /\ toed[app.msg] \in Ed
    BY <1>2 DEF PushWrites
  <2>2. CASE sleepy_messages' = [sleepy_messages EXCEPT ![app.slot].payload = app.msg]
    BY <2>1, <2>2 DEF OutOfSend, Sleepy
  <2>3. CASE sleepy_messages' = [sleepy_messages EXCEPT ![app.slot] =
                 [valid |-> TRUE, toed |-> toed[app.msg], payload |-> app.msg]]
    BY <2>1, <2>3 DEF OutOfSend, Sleepy
  <2> QED BY <1>2, <2>2, <2>3 DEF PushWrites
<1>3. CASE \E e \in Ed : local_process_packet(e)
  <2> PICK e \in Ed : local_process_packet(e)
    BY <1>3
  <2>1. /\ UNCHANGED <<app, toed>>
        /\ \/ UNCHANGED sleepy_messages
           \/ \E i \in Slot :
                sleepy_messages' = [sleepy_messages EXCEPT ![i].valid = FALSE]
    BY DEF local_process_packet, Takes, First, SlotsFor
  <2>2. ASSUME NEW i \in Slot,
               sleepy_messages' = [sleepy_messages EXCEPT ![i].valid = FALSE]
        PROVE  StoreType' /\ SlotsHoldMail' /\ AppHasMail'
    <3> DEFINE s == [sleepy_messages[i] EXCEPT !.valid = FALSE]
    <3>1. s \in Sleepy /\ ~s.valid
      BY SlotEdits
    <3>2. sleepy_messages' = [sleepy_messages EXCEPT ![i] = s]
      BY <2>2
    <3> HIDE DEF s
    <3>3. sleepy_messages' \in [Slot -> Sleepy]
      BY <3>1, <3>2
    <3>4. \A j \in Slot : sleepy_messages'[j].valid => sleepy_messages'[j] = sleepy_messages[j]
      BY <3>1, <3>2
    <3> QED BY <2>1, <3>3, <3>4
  <2> QED BY <2>1, <2>2
<1>4. CASE UNCHANGED <<sleepy_messages, app, toed>>
  BY <1>4
<1> QED
  BY <1>1, <1>2, <1>3, <1>4, NextCases
     DEF TakesData, CommitAgain, Takes, AnswerWait, AnswerSleep, AnswerData,
         Delivered, Read, Wait, WakesUp, GivenUp, Asks, Transmits, TimesOut,
         IsLost, GivesUp, storeVars, vars

LEMMA AnswerHasMailNext ==
  ASSUME TypeInv, [Next]_vars
  PROVE  AnswerHasMail'
<1> USE Bounds DEF TypeInv, AnswerHasMail
<1> RadioType /\ StoreType /\ SlotsHoldMail /\ AppHasMail
  OBVIOUS
<1>1. CASE PushWrites
  BY <1>1 DEF PushWrites, radioVars, StoreType, Sleepy, AppHasMail, RadioType
<1>2. CASE \E e \in Ed : local_process_packet(e)
  <2> PICK e \in Ed : local_process_packet(e)
    BY <1>2
  <2>1. CASE radio' = [at |-> "sleep", ed |-> e, slot |-> 1]
    BY <2>1
  <2>2. ASSUME NEW j \in Slot, First(j, SlotsFor(e)),
               sleepy_messages' = [sleepy_messages EXCEPT ![j].valid = FALSE],
               radio' = [at |-> "wait", ed |-> e, slot |-> j]
        PROVE  AnswerHasMail'
    BY <2>2 DEF First, SlotsFor, StoreType, Sleepy, SlotsHoldMail
  <2> QED BY <2>1, <2>2 DEF local_process_packet
<1>3. CASE AnswerWait \/ AnswerSleep \/ AnswerData
  BY <1>3 DEF AnswerWait, AnswerSleep, AnswerData, OutOfAnswer, storeVars, RadioType
<1>4. CASE UNCHANGED <<sleepy_messages, radio>>
  BY <1>4
<1> QED
  BY <1>1, <1>2, <1>3, <1>4, NextCases
     DEF push_sleepy_message, TakesData, CommitAgain, Takes, Delivered, Read, Wait,
         WakesUp, GivenUp, Asks, Transmits, TimesOut, IsLost, GivesUp, storeVars,
         radioVars, vars

LEMMA RadioTypeNext ==
  ASSUME TypeInv, [Next]_vars
  PROVE  RadioType'
<1> USE Bounds
<1>a. /\ radio \in [at : {"out", "wait", "data", "sleep"}, ed : Ed \cup {Nothing},
                     slot : Slot]
      /\ rx_buffer \in [BufferSlot -> Ed \cup {Nothing}]
      /\ tx_buffer \in [BufferSlot -> TxRecord] /\ TxMail \subseteq Ed \X Messages
      /\ ended \subseteq Ed \X Messages
      /\ StoreType /\ SlotsHoldMail /\ AppHasMail /\ AnswerHasMail
  BY DEF TypeInv, RadioType
<1>b. UNCHANGED tx_buffer => TxMail' = TxMail
  BY DEF TxMail, MailIn
<1>1. ASSUME NEW e \in Ed, NEW m \in Messages, push_sleepy_message(e, m)
      PROVE  RadioType'
  <2>1. UNCHANGED <<radio, rx_buffer, tx_buffer>> /\ ended' \subseteq ended \cup {<<e, m>>}
    BY <1>1 DEF push_sleepy_message, radioVars
  <2> QED BY <1>a, <1>b, <2>1 DEF RadioType
<1>2. CASE PushWrites
  <2>1. app.slot \in Slot
    BY <1>a DEF StoreType
  <2>2. UNCHANGED <<radio, rx_buffer, tx_buffer>>
    BY <1>2 DEF PushWrites, radioVars
  <2>3. \/ ended' = ended
        \/ /\ ended' = ended \cup {<<sleepy_messages[app.slot].toed,
                                     sleepy_messages[app.slot].payload>>}
           /\ sleepy_messages[app.slot].valid
    BY <1>2 DEF PushWrites
  <2> QED BY <1>a, <1>b, <2>1, <2>2, <2>3 DEF SlotsHoldMail, RadioType
<1>3. ASSUME NEW e \in Ed, TakesData(e) \/ local_process_packet(e) \/ CommitAgain(e)
      PROVE  RadioType'
  <2>1. UNCHANGED <<tx_buffer, ended>>
    BY <1>3 DEF TakesData, local_process_packet, CommitAgain, Takes
  <2>2. \/ UNCHANGED rx_buffer
        \/ \E i \in BufferSlot : \/ rx_buffer' = [rx_buffer EXCEPT ![i] = e]
                                 \/ rx_buffer' = [rx_buffer EXCEPT ![i] = Nothing]
    BY <1>3 DEF TakesData, local_process_packet, CommitAgain
  <2>3. rx_buffer' \in [BufferSlot -> Ed \cup {Nothing}]
    BY <1>a, <2>2
  <2>4. \/ UNCHANGED radio
        \/ radio' = [at |-> "sleep", ed |-> e, slot |-> 1]
        \/ \E j \in Slot : radio' = [at |-> "wait", ed |-> e, slot |-> j]
    BY <1>3 DEF TakesData, local_process_packet, CommitAgain, First, SlotsFor
  <2> QED BY <1>a, <1>b, <2>1, <2>3, <2>4 DEF RadioType
<1>4. CASE AnswerWait \/ AnswerSleep
  <2>1. UNCHANGED <<rx_buffer, tx_buffer, ended>>
    BY <1>4 DEF AnswerWait, AnswerSleep
  <2>2. radio' = [radio EXCEPT !.at = "data"] \/ radio' = OutOfAnswer
    BY <1>4 DEF AnswerWait, AnswerSleep
  <2> QED BY <1>a, <1>b, <2>1, <2>2 DEF RadioType, OutOfAnswer
<1>5. CASE AnswerData
  <2>1. radio' = OutOfAnswer /\ UNCHANGED rx_buffer /\ radio.at = "data"
    BY <1>5 DEF AnswerData
  <2>2. /\ tx_buffer' \in [BufferSlot -> TxRecord]
        /\ TxMail' \cup ended' \subseteq
             (TxMail \cup ended) \cup {<<Answer.ed, Answer.msg>>}
        /\ <<Answer.ed, Answer.msg>> \in Ed \X Messages
    BY <1>a, <1>5, <2>1, AnswerType, AnswerMail
  <2> QED BY <1>a, <2>1, <2>2 DEF RadioType, OutOfAnswer
<1>6. ASSUME NEW e \in Ed, Delivered(e) \/ GivenUp(e)
      PROVE  RadioType'
  <2>1. UNCHANGED <<radio, rx_buffer>>
    BY <1>6 DEF Delivered, GivenUp
  <2>2. /\ tx_buffer' \in [BufferSlot -> TxRecord]
        /\ TxMail' \subseteq TxMail /\ ended' \subseteq ended \cup TxMail
    BY <1>a, <1>6, EndsInUse, FreesMail
  <2> QED BY <1>a, <2>1, <2>2 DEF RadioType
<1>7. CASE UNCHANGED <<radio, rx_buffer, tx_buffer, ended>>
  BY <1>a, <1>b, <1>7 DEF RadioType
<1> QED
  BY <1>1, <1>2, <1>3, <1>4, <1>5, <1>6, <1>7, NextCases
     DEF Read, Wait, WakesUp, Asks, Transmits, TimesOut, IsLost, GivesUp, radioVars, vars

LEMMA RecordsType ==
  /\ Garbage \in Received
  /\ \A s \in Seq(Received) : \A r \in Received :
       Append(s, r) \in Seq(Received) /\ s \o <<r, r>> \in Seq(Received)
  /\ \A s \in Seq(Received) : s # <<>> => Head(s) \in Received /\ Tail(s) \in Seq(Received)
<1>1. Garbage \in Received
  BY DEF Garbage, Received
<1>2. ASSUME NEW s \in Seq(Received), NEW r \in Received
      PROVE  Append(s, r) \in Seq(Received) /\ s \o <<r, r>> \in Seq(Received)
  <2>1. <<r, r>> \in Seq(Received)
    OBVIOUS
  <2> QED BY <2>1
<1>3. ASSUME NEW s \in Seq(Received), s # <<>>
      PROVE  Head(s) \in Received /\ Tail(s) \in Seq(Received)
  BY <1>3
<1> QED BY <1>1, <1>2, <1>3

LEMMA InboxTypeNext ==
  ASSUME TypeInv, [Next]_vars
  PROVE  InboxType'
<1> USE RecordsType DEF InboxType
<1> InboxType /\ DeviceType
  BY DEF TypeInv
<1>1. CASE \E e \in Ed : TakesData(e) \/ local_process_packet(e) \/ CommitAgain(e)
  <2> PICK e \in Ed : TakesData(e) \/ local_process_packet(e) \/ CommitAgain(e)
    BY <1>1
  <2>1. CASE TakesData(e)
    <3>1. Head(up[e]) \in Packet
      BY <2>1 DEF TakesData, Takes, DeviceType
    <3>2. [ed |-> e, req |-> Head(up[e]).req] \in Received
      BY <3>1 DEF Received, Packet
    <3> QED BY <2>1, <3>2 DEF TakesData, Takes, LINK_save_msg_info
  <2>2. CASE local_process_packet(e) \/ CommitAgain(e)
    BY <2>2 DEF local_process_packet, CommitAgain, Takes, LINK_save_msg_info
  <2> QED BY <2>1, <2>2
<1>2. CASE \E e \in Ed : Delivered(e)
  BY <1>2 DEF Delivered
<1>3. CASE Read
  BY <1>3 DEF Read
<1>4. CASE \E e \in Ed : Asks(e)
  BY <1>4 DEF Asks
<1>5. CASE Wait \/ WakesUp
  BY <1>5 DEF Wait, WakesUp
<1>6. CASE UNCHANGED <<received_messages, reader, returned>>
  BY <1>6
<1> QED
  BY <1>1, <1>2, <1>3, <1>4, <1>5, <1>6, NextCases
     DEF push_sleepy_message, PushWrites, AnswerWait, AnswerSleep, AnswerData,
         GivenUp, Transmits, TimesOut, IsLost, GivesUp, inboxVars, vars

LEMMA DeviceTypeNext ==
  ASSUME TypeInv, [Next]_vars
  PROVE  DeviceType'
<1> USE Bounds DEF DeviceType
<1> DeviceType /\ AnswerHasMail
  BY DEF TypeInv
<1>a. ASSUME NEW e \in Ed, NEW d \in Device, device' = [device EXCEPT ![e] = d]
      PROVE  device' \in [Ed -> Device]
  BY <1>a
<1>b. ASSUME NEW e \in Ed, NEW d \in Device, ReachesOrLost(e, d)
      PROVE  device' \in [Ed -> Device] /\ losses' \in 0..MaxLosses
  BY <1>b DEF ReachesOrLost
<1>1. CASE \E e \in Ed : TakesData(e) \/ local_process_packet(e) \/ CommitAgain(e)
  <2> PICK e \in Ed : TakesData(e) \/ local_process_packet(e) \/ CommitAgain(e)
    BY <1>1
  <2>0. up[e] # <<>> /\ up' = [up EXCEPT ![e] = Tail(@)]
    BY DEF TakesData, local_process_packet, CommitAgain, Takes
  <2>1. up' \in [Ed -> Seq(Packet)]
    BY <2>0
  <2>2. UNCHANGED <<device, losses>> \/ \E d \in Device : ReachesOrLost(e, d)
    BY DeviceEdits, Zenon
       DEF TakesData, Acked, local_process_packet, CommitAgain, CommitAcked
  <2> QED BY <1>b, <2>1, <2>2
<1>2. CASE AnswerWait \/ AnswerSleep
  <2>1. radio.ed \in Ed /\ up' = up
    BY <1>2 DEF AnswerWait, AnswerSleep, AnswerHasMail
  <2>2. \E d \in Device : ReachesOrLost(radio.ed, d)
    BY <1>2, <2>1, DeviceEdits, Zenon DEF AnswerWait, AnswerSleep
  <2> QED BY <1>b, <2>1, <2>2
<1>3. CASE \E e \in Ed : Delivered(e)
  BY <1>3, <1>a, DeviceEdits DEF Delivered
<1>4. CASE \E e \in Ed : GivenUp(e)
  BY <1>4 DEF GivenUp, deviceVars
<1>5. CASE \E e \in Ed : Asks(e)
  BY <1>5, <1>a, DeviceEdits DEF Asks
<1>6. CASE \E e \in Ed : TimesOut(e)
  <2> PICK e \in Ed : TimesOut(e)
    BY <1>6
  <2>1. [device[e] EXCEPT !.dr_state = "out"] \in Device
    BY DeviceEdits
  <2>2. device' \in [Ed -> Device]
    BY <1>a, <2>1 DEF TimesOut
  <2>3. losses' \in 0..MaxLosses /\ up' = up
    BY DEF TimesOut
  <2> QED BY <2>2, <2>3
<1>7. CASE \E e \in Ed : Transmits(e)
  <2> PICK e \in Ed : Transmits(e)
    BY <1>7
  <2>1. [type |-> device[e].link, req |-> device[e].req] \in Packet
    BY DeviceEdits DEF Transmits
  <2>2. <<[type |-> device[e].link, req |-> device[e].req]>> \in Seq(Packet)
    BY <2>1
  <2> QED BY <2>2 DEF Transmits
<1>8. CASE \E e \in Ed : IsLost(e)
  BY <1>8 DEF IsLost
<1>9. CASE \E e \in Ed : GivesUp(e)
  <2> PICK e \in Ed : GivesUp(e)
    BY <1>9
  <2>1. [device[e] EXCEPT !.link = "free"] \in Device
    BY DeviceEdits
  <2>2. device' \in [Ed -> Device]
    BY <1>a, <2>1 DEF GivesUp
  <2>3. losses' \in 0..MaxLosses /\ up' = up
    BY DEF GivesUp
  <2> QED BY <2>2, <2>3
<1>10. CASE UNCHANGED <<device, up, losses>>
  BY <1>10
<1> QED
  BY <1>1, <1>2, <1>3, <1>4, <1>5, <1>6, <1>7, <1>8, <1>9, <1>10, NextCases
     DEF push_sleepy_message, PushWrites, AnswerData, Read, Wait, WakesUp,
         deviceVars, vars

(* Every reachable state is typed, and the TX buffer is not overrun,       *)
(* whether or not the application sends while the radio's thread answers.  *)
LEMMA TypeInvCorrect == Spec => []TypeInv
<1>1. Init => TypeInv
  BY TypeInit
<1>2. TypeInv /\ [Next]_vars => TypeInv'
  BY StoreTypeNext, AnswerHasMailNext, RadioTypeNext, InboxTypeNext,
     DeviceTypeNext, Zenon
     DEF TypeInv
<1> QED BY <1>1, <1>2, PTL DEF Spec

(* Every variable has its type and the TX buffer is never overrun: what    *)
(* NET_send writes into a slot and what an answer copies out of it is      *)
(* always a message for a device, in whatever order the two threads work   *)
(* on the unprotected store (net.cpp:637, net.cpp:990).                    *)
THEOREM TypeCorrect == Spec => []TypeOK
<1>1. TypeInv => TypeOK
  BY TypeParts DEF TypeInv
<1> QED BY <1>1, TypeInvCorrect, PTL

-----------------------------------------------------------------------------
(* Requests.                                                               *)

(* The record of the request of e is in the queue, or was returned.        *)
Queued(e) ==
  \/ returned[e]
  \/ \E i \in DOMAIN received_messages :
       received_messages[i] = [ed |-> e, req |-> device[e].req]

(* What a device has in the air is the packet of its handshake; and from   *)
(* the ACK of its DATA on, its request is in the queue.                    *)
AirIsOfHandshake ==
  \A e \in Ed :
    /\ up[e] = <<>> \/ up[e] = <<[type |-> device[e].link, req |-> device[e].req]>>
    /\ device[e].link = "free" => up[e] = <<>>

CommitIsQueued ==
  \A e \in Ed : device[e].link = "COMMIT" \/ device[e].acked => Queued(e)

RequestInv == AirIsOfHandshake /\ CommitIsQueued

LEMMA RequestInit == Init => RequestInv
BY DEF Init, RequestInv, AirIsOfHandshake, CommitIsQueued

(* A record in the queue stays there while records are only added.         *)
LEMMA QueuedKept ==
  ASSUME NEW e \in Ed, Queued(e), received_messages \in Seq(Received),
         returned'[e] = returned[e], device'[e].req = device[e].req,
         \/ UNCHANGED received_messages
         \/ \E r \in Received : received_messages' = Append(received_messages, r)
         \/ \E r \in Received : received_messages' = received_messages \o <<r, r>>
  PROVE  Queued(e)'
<1>1. CASE returned[e]
  BY <1>1 DEF Queued
<1>2. ASSUME NEW i \in DOMAIN received_messages,
             received_messages[i] = [ed |-> e, req |-> device[e].req]
      PROVE  Queued(e)'
  <2>1. i \in DOMAIN received_messages' /\ received_messages'[i] = received_messages[i]
    <3>1. CASE UNCHANGED received_messages
      BY <3>1
    <3>2. ASSUME NEW r \in Received, received_messages' = Append(received_messages, r)
          PROVE  i \in DOMAIN received_messages' /\ received_messages'[i] = received_messages[i]
      BY <3>2
    <3>3. ASSUME NEW r \in Received, received_messages' = received_messages \o <<r, r>>
          PROVE  i \in DOMAIN received_messages' /\ received_messages'[i] = received_messages[i]
      BY <3>3
    <3> QED BY <3>1, <3>2, <3>3
  <2> QED BY <1>2, <2>1 DEF Queued
<1> QED BY <1>1, <1>2 DEF Queued

(* The oldest record leaves the queue only as it is returned.              *)
LEMMA QueuedRead ==
  ASSUME NEW e \in Ed, Queued(e), Read, received_messages \in Seq(Received),
         returned \in [Ed -> BOOLEAN]
  PROVE  Queued(e)'
<1>1. /\ received_messages # <<>> /\ received_messages' = Tail(received_messages)
      /\ device' = device
      /\ returned'[e] <=> \/ returned[e]
                          \/ /\ e = Head(received_messages).ed
                             /\ Head(received_messages).req = device[e].req
  BY DEF Read, deviceVars
<1>2. CASE returned[e]
  BY <1>1, <1>2 DEF Queued
<1>3. ASSUME NEW i \in DOMAIN received_messages,
             received_messages[i] = [ed |-> e, req |-> device[e].req]
      PROVE  Queued(e)'
  <2>1. CASE i = 1
    <3>1. Head(received_messages) = [ed |-> e, req |-> device[e].req]
      BY <1>1, <1>3, <2>1
    <3>2. returned'[e]
      BY <1>1, <3>1
    <3> QED BY <3>2 DEF Queued
  <2>2. CASE i # 1
    <3>1. /\ i - 1 \in DOMAIN received_messages'
          /\ received_messages'[i - 1] = received_messages[i]
      BY <1>1, <1>3, <2>2
    <3> QED BY <1>1, <1>3, <3>1 DEF Queued
  <2> QED BY <2>1, <2>2
<1> QED BY <1>2, <1>3 DEF Queued

(* What a packet that is taken does to its own device and to the others.   *)
LEMMA AirNext ==
  ASSUME TypeInv, AirIsOfHandshake, [Next]_vars
  PROVE  AirIsOfHandshake'
<1> USE DEF AirIsOfHandshake
<1> DeviceType /\ AnswerHasMail
  BY DEF TypeInv
<1> SUFFICES ASSUME NEW e \in Ed
             PROVE  /\ \/ up'[e] = <<>>
                       \/ up'[e] = <<[type |-> device'[e].link, req |-> device'[e].req]>>
                    /\ device'[e].link = "free" => up'[e] = <<>>
  OBVIOUS
<1>1. CASE /\ up'[e] = up[e] /\ device'[e].link = device[e].link
           /\ device'[e].req = device[e].req
  BY <1>1
<1>2. CASE up'[e] = <<>>
  BY <1>2
<1>a. device \in [Ed -> Device] /\ up \in [Ed -> Seq(Packet)]
  BY DEF DeviceType
<1>3. ASSUME NEW f \in Ed, TakesData(f) \/ local_process_packet(f) \/ CommitAgain(f)
                           \/ IsLost(f)
      PROVE  \/ up'[e] = <<>>
             \/ up'[e] = up[e] /\ device'[e] = device[e]
  <2>1. up[f] # <<>> /\ up' = [up EXCEPT ![f] = Tail(@)]
    BY <1>3 DEF TakesData, local_process_packet, CommitAgain, Takes, IsLost
  <2>2. CASE e = f
    BY <1>a, <2>1, <2>2
  <2>3. CASE e # f
    <3>1. up'[e] = up[e]
      BY <1>a, <2>1, <2>3
    <3>2. \/ UNCHANGED device
          \/ \E d : device' = [device EXCEPT ![f] = d]
      BY <1>3, Zenon DEF TakesData, Acked, local_process_packet, CommitAgain, CommitAcked,
         ReachesOrLost, IsLost
    <3> QED BY <1>a, <2>3, <3>1, <3>2
  <2> QED BY <2>2, <2>3
<1>4. CASE up' = up /\ \E f \in Ed : \E s : device' = [device EXCEPT ![f].dr_state = s]
  BY <1>1, <1>4, <1>a, DrStateEdit
<1>5. CASE AnswerWait \/ AnswerSleep
  <2>1. radio.ed \in Ed /\ up' = up
    BY <1>5 DEF AnswerWait, AnswerSleep, AnswerHasMail
  <2>2. \/ UNCHANGED device
        \/ \E s : device' = [device EXCEPT ![radio.ed].dr_state = s]
    BY <1>5, Zenon DEF AnswerWait, AnswerSleep, ReachesOrLost
  <2> QED BY <1>1, <1>4, <2>1, <2>2
<1>6. CASE \E f \in Ed : Delivered(f)
  BY <1>4, <1>6, Zenon DEF Delivered
<1>7. CASE \E f \in Ed : Asks(f)
  <2> PICK f \in Ed : Asks(f)
    BY <1>7
  <2>1. up' = up
    BY DEF Asks
  <2>2. CASE device[f].link = "free"
    <3>1. up[f] = <<>>
      BY <2>2
    <3>2. \E d : device' = [device EXCEPT ![f] = d]
      BY <2>2 DEF Asks
    <3> QED BY <1>1, <1>2, <1>a, <2>1, <3>1, <3>2
  <2>3. CASE device[f].link # "free"
    BY <1>4, <2>1, <2>3, Zenon DEF Asks
  <2> QED BY <2>2, <2>3
<1>8. CASE \E f \in Ed : TimesOut(f)
  BY <1>4, <1>8, Zenon DEF TimesOut
<1>9. CASE \E f \in Ed : Transmits(f)
  BY <1>1, <1>9, <1>a DEF Transmits
<1>10. CASE UNCHANGED <<device, up>>
  BY <1>1, <1>10
<1>11. CASE \E f \in Ed : TakesData(f) \/ local_process_packet(f) \/ CommitAgain(f)
                          \/ IsLost(f)
  BY <1>1, <1>2, <1>3, <1>11
<1>12. CASE \E f \in Ed : GivesUp(f)
  <2> PICK f \in Ed : GivesUp(f)
    BY <1>12
  <2>1. up' = up /\ up[f] = <<>> /\ device' = [device EXCEPT ![f].link = "free"]
    BY DEF GivesUp
  <2>2. e # f => device'[e] = device[e]
    BY <1>a, <2>1
  <2> QED BY <1>1, <1>2, <2>1, <2>2
<1> QED
  BY <1>5, <1>6, <1>7, <1>8, <1>9, <1>10, <1>11, <1>12, NextCases
     DEF push_sleepy_message, PushWrites, AnswerData, Read, Wait, WakesUp, GivenUp,
         deviceVars, vars

LEMMA CommitIsQueuedNext ==
  ASSUME TypeInv, RequestInv, [Next]_vars
  PROVE  CommitIsQueued'
<1> USE RecordsType
<1> AirIsOfHandshake /\ CommitIsQueued
  BY DEF RequestInv
<1>a. /\ device \in [Ed -> Device] /\ up \in [Ed -> Seq(Packet)]
      /\ received_messages \in Seq(Received) /\ returned \in [Ed -> BOOLEAN]
      /\ AnswerHasMail
  BY DEF TypeInv, DeviceType, InboxType
<1> SUFFICES ASSUME NEW e \in Ed, device'[e].link = "COMMIT" \/ device'[e].acked
             PROVE  Queued(e)'
  BY DEF CommitIsQueued
<1>1. CASE /\ device'[e].link = device[e].link /\ device'[e].req = device[e].req
           /\ device'[e].acked = device[e].acked /\ returned'[e] = returned[e]
           /\ \/ UNCHANGED received_messages
              \/ \E r \in Received : received_messages' = Append(received_messages, r)
              \/ \E r \in Received : received_messages' = received_messages \o <<r, r>>
  <2>1. Queued(e)
    BY <1>1 DEF CommitIsQueued
  <2> QED BY <1>1, <1>a, <2>1, QueuedKept
<1>2. ASSUME NEW f \in Ed, TakesData(f)
      PROVE  Queued(e)'
  <2>1. /\ up[f] = <<[type |-> device[f].link, req |-> device[f].req]>>
        /\ device[f].link # "free"
    BY <1>2 DEF TakesData, Takes, AirIsOfHandshake
  <2>2. /\ received_messages' = Append(received_messages, [ed |-> f, req |-> device[f].req])
        /\ returned' = returned
    BY <1>2, <2>1 DEF TakesData, Takes, LINK_save_msg_info
  <2>3. /\ [ed |-> f, req |-> device[f].req] \in Received
        /\ [device[f] EXCEPT !.link = IF @ = "free" THEN @ ELSE "COMMIT"].req
              = device[f].req
    BY <1>a DEF Received, Device
  <2>4. \/ UNCHANGED device
        \/ device' = [device EXCEPT ![f] =
             [device[f] EXCEPT !.link = IF @ = "free" THEN @ ELSE "COMMIT"]]
    BY <1>2 DEF TakesData, Acked, ReachesOrLost
  <2>5. CASE e = f
    <3>1. device'[f].req = device[f].req
      BY <1>a, <2>3, <2>4
    <3>2. /\ Len(received_messages) + 1 \in DOMAIN received_messages'
          /\ received_messages'[Len(received_messages) + 1]
               = [ed |-> f, req |-> device[f].req]
      BY <1>a, <2>2, <2>3
    <3> QED BY <2>5, <3>1, <3>2 DEF Queued
  <2>6. CASE e # f
    <3>1. device'[e] = device[e]
      BY <1>a, <2>4, <2>6
    <3> QED BY <1>1, <2>2, <2>3, <3>1
  <2> QED BY <2>5, <2>6
<1>3. ASSUME NEW f \in Ed, local_process_packet(f) \/ CommitAgain(f)
      PROVE  Queued(e)'
  <2>0. up[f] # <<>> /\ Head(up[f]).type = "COMMIT"
    BY <1>3 DEF local_process_packet, CommitAgain, Takes
  <2>1. device[f].link = "COMMIT"
    <3>1. up[f] = <<[type |-> device[f].link, req |-> device[f].req]>>
      BY <2>0 DEF AirIsOfHandshake
    <3>2. Head(up[f]) = [type |-> device[f].link, req |-> device[f].req]
      BY <3>1
    <3> QED BY <2>0, <3>2
  <2>2. /\ received_messages' = Append(received_messages, Garbage)
        /\ returned' = returned
    BY <1>3 DEF local_process_packet, CommitAgain, Takes, LINK_save_msg_info
  <2>3. [device[f] EXCEPT !.link = "free", !.acked = TRUE].req = device[f].req
    BY <1>a DEF Device
  <2>4. \/ UNCHANGED device
        \/ device' = [device EXCEPT ![f] =
             [device[f] EXCEPT !.link = "free", !.acked = TRUE]]
    BY <1>3 DEF local_process_packet, CommitAgain, CommitAcked, ReachesOrLost
  <2>5. CASE e = f
    <3>1. device'[f].req = device[f].req
      BY <1>a, <2>3, <2>4
    <3>2. Queued(f)
      BY <2>1 DEF CommitIsQueued
    <3> QED BY <1>a, <2>2, <2>5, <3>1, <3>2, QueuedKept
  <2>6. CASE e # f
    <3>1. device'[e] = device[e]
      BY <1>a, <2>4, <2>6
    <3> QED BY <1>1, <2>2, <3>1
  <2> QED BY <2>5, <2>6
<1>4. CASE /\ \E f \in Ed : \E s : device' = [device EXCEPT ![f].dr_state = s]
           /\ returned' = returned
           /\ \/ UNCHANGED received_messages
              \/ \E r \in Received : received_messages' = received_messages \o <<r, r>>
  <2>1. /\ device'[e].link = device[e].link /\ device'[e].req = device[e].req
        /\ device'[e].acked = device[e].acked
    BY <1>4, <1>a, DrStateEdit
  <2> QED BY <1>1, <1>4, <2>1
<1>5. CASE AnswerWait \/ AnswerSleep
  <2>1. radio.ed \in Ed /\ UNCHANGED <<received_messages, returned>>
    BY <1>5, <1>a DEF AnswerWait, AnswerSleep, AnswerHasMail, inboxVars
  <2>2. \/ UNCHANGED device
        \/ \E s : device' = [device EXCEPT ![radio.ed].dr_state = s]
    BY <1>5, Zenon DEF AnswerWait, AnswerSleep, ReachesOrLost
  <2> QED BY <1>1, <1>4, <2>1, <2>2
<1>6. CASE \E f \in Ed : Delivered(f)
  <2>1. /\ returned' = returned
        /\ received_messages' = received_messages \o <<Garbage, Garbage>>
        /\ \E f \in Ed : \E s : device' = [device EXCEPT ![f].dr_state = s]
    BY <1>6, Zenon DEF Delivered
  <2> QED BY <1>4, <2>1
<1>7. ASSUME NEW f \in Ed, Asks(f)
      PROVE  Queued(e)'
  <2>1. received_messages' = received_messages
    BY <1>7 DEF Asks
  <2>2. CASE device[f].link = "free"
    <3>1. /\ device' = [device EXCEPT ![f] =
               [dr_state |-> "DR_ACK_WAITING", link |-> "DATA",
                req |-> 1 - device[f].req, acked |-> FALSE]]
          /\ returned' = [returned EXCEPT ![f] = FALSE]
      BY <1>7, <2>2 DEF Asks
    <3>2. e # f
      BY <1>a, <3>1
    <3>3. device'[e] = device[e] /\ returned'[e] = returned[e]
      BY <1>a, <3>1, <3>2
    <3> QED BY <1>1, <2>1, <3>3
  <2>3. CASE device[f].link # "free"
    <3>1. /\ returned' = returned
          /\ \E s : device' = [device EXCEPT ![f].dr_state = s]
      BY <1>7, <2>3, Zenon DEF Asks
    <3> QED BY <1>4, <2>1, <3>1
  <2> QED BY <2>2, <2>3
<1>8. CASE \E f \in Ed : TimesOut(f)
  <2>1. /\ UNCHANGED <<received_messages, returned>>
        /\ \E f \in Ed : \E s : device' = [device EXCEPT ![f].dr_state = s]
    BY <1>8, Zenon DEF TimesOut, inboxVars
  <2> QED BY <1>4, <2>1
<1>9. CASE Read
  <2>1. device' = device
    BY <1>9 DEF Read, deviceVars
  <2>2. Queued(e)
    BY <2>1 DEF CommitIsQueued
  <2> QED BY <1>9, <1>a, <2>2, QueuedRead
<1>10. CASE UNCHANGED <<device, received_messages, returned>>
  BY <1>1, <1>10
<1>11. CASE \E f \in Ed : GivesUp(f)
  <2> PICK f \in Ed : GivesUp(f)
    BY <1>11
  <2>1. /\ UNCHANGED <<received_messages, returned>>
        /\ device' = [device EXCEPT ![f].link = "free"]
    BY DEF GivesUp, inboxVars
  <2>2. CASE e = f
    <3>1. /\ device'[e].req = device[e].req
          /\ device'[e].acked = device[e].acked /\ device'[e].link = "free"
      BY <1>a, <2>1, <2>2 DEF Device
    <3>2. Queued(e)
      BY <3>1 DEF CommitIsQueued
    <3> QED BY <1>a, <2>1, <3>1, <3>2, QueuedKept
  <2>3. CASE e # f
    <3>1. device'[e] = device[e]
      BY <1>a, <2>1, <2>3
    <3> QED BY <1>1, <2>1, <3>1
  <2> QED BY <2>2, <2>3
<1> QED
  BY <1>2, <1>3, <1>5, <1>6, <1>7, <1>8, <1>9, <1>10, <1>11, NextCases
     DEF push_sleepy_message, PushWrites, AnswerData, Wait, WakesUp, GivenUp,
         Transmits, IsLost, deviceVars, inboxVars, vars

(* A request whose COMMIT was acknowledged to the device is in the queue   *)
(* or was returned by fitp_received_data (fitp.cpp:179), for any number of *)
(* devices, lost packets and calls that time out, and although the queue   *)
(* also gets a record of every packet without payload.                     *)
THEOREM RequestCorrect == Spec => []RequestIsQueued
<1>1. Init => RequestInv
  BY RequestInit
<1>2. TypeInv /\ RequestInv /\ [Next]_vars => RequestInv'
  BY AirNext, CommitIsQueuedNext DEF RequestInv
<1>3. RequestInv => RequestIsQueued
  BY DEF RequestInv, CommitIsQueued, Queued, RequestIsQueued
<1> QED BY <1>1, <1>2, <1>3, TypeInvCorrect, PTL DEF Spec

-----------------------------------------------------------------------------
(* The store, where the application does not send while the radio's thread *)
(* answers.                                                                *)

(* Never are both threads at work on the store; NET_send holds a slot it   *)
(* found, in the state it found it in.                                     *)
OneAtWork ==
  /\ app.at = "out" \/ ~Answering
  /\ app.at = "out" => app.msg = Nothing
  /\ app.at = "overwrite" =>
       /\ sleepy_messages[app.slot].valid
       /\ sleepy_messages[app.slot].toed = toed[app.msg]
  /\ app.at = "fill" => ~sleepy_messages[app.slot].valid

(* A slot holds a message for the device it says, also the one an answer   *)
(* has taken out and not sent yet.                                         *)
SlotsTrue ==
  /\ \A i \in Slot : sleepy_messages[i].valid =>
       toed[sleepy_messages[i].payload] = sleepy_messages[i].toed
  /\ radio.at \in {"wait", "data"} =>
       toed[sleepy_messages[radio.slot].payload] = radio.ed

MailInv == OneAtWork /\ SlotsTrue /\ MailForAddressee /\ Accounted

LEMMA MailInit == Init => MailInv
BY DEF Init, MailInv, OneAtWork, SlotsTrue, MailForAddressee, Accounted, Answering,
       OutOfSend, OutOfAnswer, TxMail, MailIn

(* What the first steps of NET_send and of an answer find in the store.    *)
LEMMA Found ==
  ASSUME NEW e \in Ed, NEW i \in Slot
  PROVE  /\ First(i, SlotsFor(e)) =>
              sleepy_messages[i].valid /\ sleepy_messages[i].toed = e
         /\ First(i, FreeSlots) => ~sleepy_messages[i].valid
BY DEF First, SlotsFor, FreeSlots

LEMMA OneAtWorkNext ==
  ASSUME TypeInv, OneAtWork, ~Overlap, [Next]_vars
  PROVE  OneAtWork'
<1> USE Bounds DEF OneAtWork, Answering
<1> StoreType /\ AppHasMail
  BY DEF TypeInv
<1>1. ASSUME NEW e \in Ed, NEW m \in Messages, push_sleepy_message(e, m)
      PROVE  OneAtWork'
  <2>1. /\ app.at = "out" /\ ~Answering /\ toed' = [toed EXCEPT ![m] = e]
        /\ UNCHANGED <<sleepy_messages, radio>>
    BY <1>1 DEF push_sleepy_message, radioVars
  <2>2. toed'[m] = e
    BY <2>1 DEF StoreType
  <2>3. \/ UNCHANGED app
        \/ \E i \in Slot : /\ First(i, SlotsFor(e))
                           /\ app' = [at |-> "overwrite", slot |-> i, msg |-> m]
        \/ \E i \in Slot : /\ First(i, FreeSlots)
                           /\ app' = [at |-> "fill", slot |-> i, msg |-> m]
    BY <1>1 DEF push_sleepy_message
  <2> QED BY <2>1, <2>2, <2>3, Found
<1>2. CASE PushWrites
  BY <1>2 DEF PushWrites, OutOfSend, radioVars
<1>3. ASSUME NEW e \in Ed, local_process_packet(e)
      PROVE  OneAtWork'
  BY <1>3 DEF local_process_packet, Takes
<1>4. CASE AnswerWait \/ AnswerSleep \/ AnswerData
  <2>1. UNCHANGED <<sleepy_messages, app, toed>> /\ radio.at # "out"
    BY <1>4 DEF AnswerWait, AnswerSleep, AnswerData, storeVars
  <2> QED BY <2>1
<1>5. CASE UNCHANGED <<sleepy_messages, app, toed, radio>>
  BY <1>5
<1> QED
  BY <1>1, <1>2, <1>3, <1>4, <1>5, NextCases
     DEF TakesData, CommitAgain, Takes, Delivered, Read, Wait, WakesUp, GivenUp,
         Asks, Transmits, TimesOut, IsLost, GivesUp, storeVars, radioVars, vars

LEMMA SlotsTrueNext ==
  ASSUME TypeInv, OneAtWork, SlotsTrue, ~Overlap, [Next]_vars
  PROVE  SlotsTrue'
<1> USE Bounds DEF SlotsTrue
<1> StoreType /\ AppHasMail /\ SlotsHoldMail /\ AnswerHasMail /\ RadioType
  BY DEF TypeInv
<1>1. ASSUME NEW e \in Ed, NEW m \in Messages, push_sleepy_message(e, m)
      PROVE  SlotsTrue'
  <2>1. /\ toed[m] = Nothing /\ ~Answering /\ toed' = [toed EXCEPT ![m] = e]
        /\ UNCHANGED <<sleepy_messages, radio>>
    BY <1>1 DEF push_sleepy_message, radioVars
  <2>2. \A n \in Messages : toed[n] # Nothing => toed'[n] = toed[n]
    BY <2>1 DEF StoreType
  <2> QED BY <2>1, <2>2 DEF SlotsHoldMail, Answering
<1>2. CASE PushWrites
  <2>1. /\ app.at # "out" /\ toed' = toed /\ radio' = radio /\ radio.at = "out"
        /\ app.slot \in Slot /\ app.msg \in Messages
    BY <1>2 DEF PushWrites, radioVars, OneAtWork, Answering, AppHasMail, StoreType
  <2>2. /\ sleepy_messages'[app.slot].toed = toed[app.msg]
        /\ sleepy_messages'[app.slot].payload = app.msg
    <3>1. CASE app.at = "overwrite"
      BY <1>2, <2>1, <3>1 DEF PushWrites, StoreType, Sleepy, OneAtWork
    <3>2. CASE app.at = "fill"
      BY <1>2, <2>1, <3>2 DEF PushWrites, StoreType
    <3> QED BY <1>2, <3>1, <3>2 DEF PushWrites
  <2>3. \A j \in Slot : j # app.slot => sleepy_messages'[j] = sleepy_messages[j]
    BY <1>2, <2>1 DEF PushWrites, StoreType
  <2> QED BY <2>1, <2>2, <2>3
<1>3. ASSUME NEW e \in Ed, local_process_packet(e)
      PROVE  SlotsTrue'
  <2>1. toed' = toed
    BY <1>3 DEF local_process_packet, Takes
  <2>2. CASE UNCHANGED sleepy_messages /\ radio' = [at |-> "sleep", ed |-> e, slot |-> 1]
    BY <2>1, <2>2
  <2>3. ASSUME NEW i \in Slot, First(i, SlotsFor(e)),
               sleepy_messages' = [sleepy_messages EXCEPT ![i].valid = FALSE],
               radio' = [at |-> "wait", ed |-> e, slot |-> i]
        PROVE  SlotsTrue'
    <3>1. sleepy_messages[i].valid /\ sleepy_messages[i].toed = e
      BY <2>3, Found
    <3>2. /\ ~sleepy_messages'[i].valid
          /\ sleepy_messages'[i].payload = sleepy_messages[i].payload
          /\ \A j \in Slot : j # i => sleepy_messages'[j] = sleepy_messages[j]
      BY <2>3, SlotEdits DEF StoreType
    <3> QED BY <2>1, <2>3, <3>1, <3>2
  <2> QED BY <1>3, <2>2, <2>3 DEF local_process_packet
<1>4. CASE AnswerWait \/ AnswerSleep \/ AnswerData
  BY <1>4 DEF AnswerWait, AnswerSleep, AnswerData, storeVars, OutOfAnswer, RadioType
<1>5. CASE UNCHANGED <<sleepy_messages, app, toed, radio>>
  BY <1>5
<1> QED
  BY <1>1, <1>2, <1>3, <1>4, <1>5, NextCases
     DEF TakesData, CommitAgain, Takes, Delivered, Read, Wait, WakesUp, GivenUp,
         Asks, Transmits, TimesOut, IsLost, GivesUp, storeVars, radioVars, vars

LEMMA AddresseeNext ==
  ASSUME TypeInv, OneAtWork, SlotsTrue, MailForAddressee, [Next]_vars
  PROVE  MailForAddressee'
<1> USE Bounds
<1>a. /\ toed \in [Messages -> Ed \cup {Nothing}] /\ app.slot \in Slot
      /\ TxMail \cup ended \subseteq Ed \X Messages
      /\ SlotsHoldMail /\ AnswerHasMail
  BY DEF TypeInv, StoreType, RadioType
<1>t. UNCHANGED tx_buffer => TxMail' = TxMail
  BY DEF TxMail, MailIn
<1>b. \A t \in TxMail \cup ended : t[1] = toed[t[2]]
  BY DEF MailForAddressee
<1>1. ASSUME NEW e \in Ed, NEW m \in Messages, push_sleepy_message(e, m)
      PROVE  MailForAddressee'
  <2>1. /\ toed[m] = Nothing /\ toed' = [toed EXCEPT ![m] = e]
        /\ TxMail' \cup ended' \subseteq (TxMail \cup ended) \cup {<<e, m>>}
    BY <1>1, <1>t DEF push_sleepy_message, radioVars
  <2>2. toed'[m] = e /\ \A n \in Messages : toed[n] # Nothing => toed'[n] = toed[n]
    BY <1>a, <2>1
  <2>3. \A t \in TxMail \cup ended : toed[t[2]] # Nothing /\ t[2] \in Messages
    BY <1>a, <1>b
  <2>4. \A t \in TxMail \cup ended : t[1] = toed'[t[2]]
    BY <1>b, <2>2, <2>3
  <2> QED BY <2>1, <2>2, <2>4 DEF MailForAddressee
<1>2. CASE PushWrites
  <2>1. /\ toed' = toed /\ TxMail' = TxMail
        /\ \/ ended' = ended
           \/ /\ sleepy_messages[app.slot].valid
              /\ ended' = ended \cup {<<sleepy_messages[app.slot].toed,
                                        sleepy_messages[app.slot].payload>>}
    BY <1>2, <1>t DEF PushWrites, radioVars
  <2>2. sleepy_messages[app.slot].valid =>
          toed[sleepy_messages[app.slot].payload] = sleepy_messages[app.slot].toed
    BY <1>a DEF SlotsTrue
  <2> QED BY <1>b, <2>1, <2>2 DEF MailForAddressee
<1>3. CASE AnswerData
  <2>1. toed' = toed /\ radio.at = "data"
    BY <1>3 DEF AnswerData, storeVars
  <2>2. TxMail' \cup ended' \subseteq
             (TxMail \cup ended) \cup {<<Answer.ed, Answer.msg>>}
    BY <1>3, <2>1, AnswerType, AnswerMail DEF TypeInv, RadioType
  <2>3. toed[Answer.msg] = Answer.ed
    BY <2>1, AnswerType DEF SlotsTrue
  <2> QED BY <1>b, <2>1, <2>2, <2>3 DEF MailForAddressee
<1>4. ASSUME NEW e \in Ed, Delivered(e) \/ GivenUp(e)
      PROVE  MailForAddressee'
  <2>1. toed' = toed
    BY <1>4 DEF Delivered, GivenUp, storeVars
  <2>2. TxMail' \cup ended' \subseteq TxMail \cup ended
    BY <1>4, EndsInUse, FreesMail DEF TypeInv, RadioType
  <2> QED BY <1>b, <2>1, <2>2 DEF MailForAddressee
<1>5. CASE UNCHANGED <<toed, tx_buffer, ended>>
  BY <1>5, <1>b, <1>t DEF MailForAddressee
<1> QED
  BY <1>1, <1>2, <1>3, <1>4, <1>5, NextCases
     DEF TakesData, local_process_packet, CommitAgain, Takes, AnswerWait, AnswerSleep,
         Read, Wait, WakesUp, Asks, Transmits, TimesOut, IsLost, GivesUp, storeVars,
         radioVars, vars

(* m waits in the store for the device it was written to.                  *)
WaitsFor(m) == Waits(toed[m], m)

(* A message that waits stays there, unless the step takes, replaces or    *)
(* sends it.                                                               *)
LEMMA AccountedNext ==
  ASSUME TypeInv, OneAtWork, SlotsTrue, MailForAddressee, Accounted, ~Overlap,
         [Next]_vars
  PROVE  Accounted'
<1> USE Bounds
<1>a. /\ toed \in [Messages -> Ed \cup {Nothing}] /\ app.slot \in Slot /\ radio.slot \in Slot
      /\ sleepy_messages \in [Slot -> Sleepy]
      /\ SlotsHoldMail /\ AnswerHasMail /\ AppHasMail
  BY DEF TypeInv, StoreType, RadioType
<1>t. UNCHANGED tx_buffer => TxMail' = TxMail
  BY DEF TxMail, MailIn
<1> SUFFICES ASSUME NEW n \in Messages, toed'[n] # Nothing, app'.msg # n
             PROVE  WaitsFor(n)' \/ <<toed'[n], n>> \in TxMail' \cup ended'
  BY DEF Accounted, WaitsFor
<1>b. ASSUME toed'[n] = toed[n], app.msg # n
      PROVE  WaitsFor(n) \/ <<toed[n], n>> \in TxMail \cup ended
  BY <1>b DEF Accounted, WaitsFor
(* What it takes for n to wait in the next state.                          *)
<1>c. ASSUME NEW i \in Slot, sleepy_messages'[i].valid, sleepy_messages'[i].toed = toed'[n],
             sleepy_messages'[i].payload = n
      PROVE  WaitsFor(n)'
  BY <1>c DEF WaitsFor, Waits, SlotsFor
<1>d. ASSUME radio'.at \in {"wait", "data"}, radio'.ed = toed'[n],
             sleepy_messages'[radio'.slot].payload = n
      PROVE  WaitsFor(n)'
  BY <1>d DEF WaitsFor, Waits
<1>1. ASSUME NEW e \in Ed, NEW m \in Messages, push_sleepy_message(e, m)
      PROVE  WaitsFor(n)' \/ <<toed'[n], n>> \in TxMail' \cup ended'
  <2>1. /\ UNCHANGED <<sleepy_messages, radio>> /\ TxMail' = TxMail /\ ended \subseteq ended'
        /\ toed' = [toed EXCEPT ![m] = e] /\ app.at = "out" /\ app.msg = Nothing
    BY <1>1, <1>t DEF push_sleepy_message, radioVars, OneAtWork
  <2>2. CASE n = m
    <3>1. <<e, m>> \in ended'
      BY <1>1, <2>2 DEF push_sleepy_message
    <3> QED BY <1>a, <2>1, <2>2, <3>1
  <2>3. CASE n # m
    <3>1. toed'[n] = toed[n]
      BY <1>a, <2>1, <2>3
    <3>2. WaitsFor(n) \/ <<toed[n], n>> \in TxMail \cup ended
      BY <1>b, <2>1, <3>1
    <3>3. WaitsFor(n) => WaitsFor(n)'
      BY <2>1, <3>1 DEF WaitsFor, Waits, SlotsFor
    <3> QED BY <2>1, <3>1, <3>2, <3>3
  <2> QED BY <2>2, <2>3
<1>2. CASE PushWrites
  <2>1. /\ app.at # "out" /\ toed' = toed /\ UNCHANGED radio /\ TxMail' = TxMail
        /\ app.msg \in Messages /\ radio.at = "out" /\ ended \subseteq ended'
    BY <1>2, <1>a, <1>t DEF PushWrites, radioVars, OneAtWork, Answering, AppHasMail
  <2>2. \A j \in Slot : j # app.slot => sleepy_messages'[j] = sleepy_messages[j]
    BY <1>2, <1>a DEF PushWrites
  <2>3. CASE n = app.msg
    <3>1. /\ sleepy_messages'[app.slot].valid /\ sleepy_messages'[app.slot].toed = toed[n]
          /\ sleepy_messages'[app.slot].payload = n
      <4>1. CASE app.at = "overwrite"
        BY <1>2, <1>a, <2>3, <4>1 DEF PushWrites, OneAtWork, Sleepy
      <4>2. CASE app.at = "fill"
        BY <1>2, <1>a, <2>3, <4>2 DEF PushWrites
      <4> QED BY <1>2, <4>1, <4>2 DEF PushWrites
    <3> QED BY <1>a, <1>c, <2>1, <3>1
  <2>4. CASE n # app.msg
    <3>1. WaitsFor(n) \/ <<toed[n], n>> \in TxMail \cup ended
      BY <1>b, <2>1, <2>4
    <3>2. ASSUME WaitsFor(n)
          PROVE  WaitsFor(n)' \/ <<toed'[n], n>> \in ended'
      <4>1. PICK i \in Slot : /\ sleepy_messages[i].valid
                              /\ sleepy_messages[i].toed = toed[n]
                              /\ sleepy_messages[i].payload = n
        BY <2>1, <3>2 DEF WaitsFor, Waits, SlotsFor
      <4>2. CASE i = app.slot
        <5>1. app.at = "overwrite" /\ sleepy_messages[i].toed = toed[app.msg]
          BY <1>2, <4>1, <4>2 DEF PushWrites, OneAtWork
        <5>2. <<toed[n], n>> \in ended'
          BY <1>2, <4>1, <4>2, <5>1 DEF PushWrites
        <5> QED BY <2>1, <5>2
      <4>3. CASE i # app.slot
        BY <1>c, <2>1, <2>2, <4>1, <4>3
      <4> QED BY <4>2, <4>3
    <3> QED BY <2>1, <3>1, <3>2
  <2> QED BY <2>3, <2>4
<1>3. ASSUME NEW e \in Ed, local_process_packet(e)
      PROVE  WaitsFor(n)' \/ <<toed'[n], n>> \in TxMail' \cup ended'
  <2>1. /\ UNCHANGED <<toed, ended, app>> /\ TxMail' = TxMail /\ ~Answering
    BY <1>3, <1>t DEF local_process_packet, Takes
  <2>2. WaitsFor(n) \/ <<toed[n], n>> \in TxMail \cup ended
    BY <1>b, <2>1
  <2>3. ASSUME WaitsFor(n)
        PROVE  WaitsFor(n)'
    <3>1. PICK i \in Slot : /\ sleepy_messages[i].valid
                            /\ sleepy_messages[i].toed = toed[n]
                            /\ sleepy_messages[i].payload = n
      BY <2>1, <2>3 DEF WaitsFor, Waits, SlotsFor, Answering
    <3>2. CASE UNCHANGED sleepy_messages
      BY <1>c, <2>1, <3>1, <3>2
    <3>3. ASSUME NEW j \in Slot, First(j, SlotsFor(e)),
                 sleepy_messages' = [sleepy_messages EXCEPT ![j].valid = FALSE],
                 radio' = [at |-> "wait", ed |-> e, slot |-> j]
          PROVE  WaitsFor(n)'
      <4>1. CASE i = j
        <5>1. sleepy_messages[j].toed = e
          BY <3>3, Found
        <5>2. sleepy_messages'[j].payload = sleepy_messages[j].payload
          BY <1>a, <3>3, SlotEdits
        <5> QED BY <1>d, <2>1, <3>1, <3>3, <4>1, <5>1, <5>2
      <4>2. CASE i # j
        <5>1. sleepy_messages'[i] = sleepy_messages[i]
          BY <1>a, <3>3, <4>2
        <5> QED BY <1>c, <2>1, <3>1, <5>1
      <4> QED BY <4>1, <4>2
    <3> QED BY <1>3, <3>2, <3>3 DEF local_process_packet
  <2> QED BY <2>1, <2>2, <2>3
<1>4. CASE AnswerWait \/ AnswerSleep \/ AnswerData
  <2>0. AnswerData => /\ TxMail \subseteq TxMail' /\ ended \subseteq ended'
                      /\ <<Answer.ed, Answer.msg>> \in TxMail' \cup ended'
    BY AnswerType, AnswerMail DEF AnswerData, TypeInv, RadioType
  <2>1. /\ UNCHANGED <<sleepy_messages, toed, app>>
        /\ TxMail \cup ended \subseteq TxMail' \cup ended'
    BY <1>4, <1>t, <2>0 DEF AnswerWait, AnswerSleep, AnswerData, storeVars
  <2>2. WaitsFor(n) \/ <<toed[n], n>> \in TxMail \cup ended
    BY <1>b, <2>1
  <2>3. CASE \E i \in SlotsFor(toed[n]) : sleepy_messages[i].payload = n
    BY <1>c, <2>1, <2>3 DEF SlotsFor
  <2>4. CASE /\ radio.at \in {"wait", "data"} /\ radio.ed = toed[n]
             /\ sleepy_messages[radio.slot].payload = n
    <3>1. CASE AnswerWait
      <4>1. radio'.at = "data" /\ radio'.ed = radio.ed /\ radio'.slot = radio.slot
        BY <3>1 DEF AnswerWait, TypeInv, RadioType
      <4> QED BY <1>d, <2>1, <2>4, <4>1
    <3>2. CASE AnswerSleep
      BY <2>4, <3>2 DEF AnswerSleep
    <3>3. CASE AnswerData
      BY <2>0, <2>1, <2>4, <3>3, AnswerType DEF AnswerData
    <3> QED BY <1>4, <3>1, <3>2, <3>3
  <2> QED BY <2>1, <2>2, <2>3, <2>4 DEF WaitsFor, Waits
<1>5. CASE /\ UNCHANGED <<sleepy_messages, toed, app, radio>>
           /\ TxMail \cup ended \subseteq TxMail' \cup ended'
  <2>1. WaitsFor(n) \/ <<toed[n], n>> \in TxMail \cup ended
    BY <1>b, <1>5
  <2>2. WaitsFor(n) => WaitsFor(n)'
    BY <1>5 DEF WaitsFor, Waits, SlotsFor
  <2> QED BY <1>5, <2>1, <2>2
<1>6. ASSUME NEW e \in Ed, Delivered(e) \/ GivenUp(e)
      PROVE  WaitsFor(n)' \/ <<toed'[n], n>> \in TxMail' \cup ended'
  <2>1. TxMail \cup ended \subseteq TxMail' \cup ended'
    BY <1>6, EndsInUse, FreesMail DEF TypeInv, RadioType
  <2> QED BY <1>5, <1>6, <2>1 DEF Delivered, GivenUp, storeVars
<1>7. CASE UNCHANGED <<sleepy_messages, toed, app, radio, tx_buffer, ended>>
  BY <1>5, <1>7, <1>t
<1> QED
  BY <1>1, <1>2, <1>3, <1>4, <1>6, <1>7, NextCases
     DEF TakesData, CommitAgain, Takes, Read, Wait, WakesUp, Asks, Transmits,
         TimesOut, IsLost, GivesUp, storeVars, radioVars, vars

LEMMA MailInvCorrect ==
  ASSUME ~Overlap
  PROVE  Spec => []MailInv
<1>1. Init => MailInv
  BY MailInit
<1>2. TypeInv /\ MailInv /\ [Next]_vars => MailInv'
  BY OneAtWorkNext, SlotsTrueNext, AddresseeNext, AccountedNext DEF MailInv
<1> QED BY <1>1, <1>2, TypeInvCorrect, PTL DEF Spec

(* Where the application does not send while the radio's thread answers,   *)
(* a message NET_send returned true for (net.cpp:637) is never lost        *)
(* without a trace, for any number of devices, messages and slots.         *)
THEOREM MailCorrect == ~Overlap => (Spec => []Accounted)
<1>1. MailInv => Accounted
  BY DEF MailInv
<1>2. ~Overlap => (Spec => []MailInv)
  BY MailInvCorrect
<1> QED BY <1>1, <1>2, PTL

(* And under the same condition what a device receives is a message the    *)
(* application sent to this device (net.cpp:992); the run of the race      *)
(* shows that it is not so without the condition.                          *)
THEOREM AddresseeCorrect == ~Overlap => (Spec => []MailForAddressee)
<1>1. MailInv => MailForAddressee
  BY DEF MailInv
<1>2. ~Overlap => (Spec => []MailInv)
  BY MailInvCorrect
<1> QED BY <1>1, <1>2, PTL
=============================================================================
