# Formal models of the FIT protocol library

The library under `src/fitp` implements the FIT protocol: a tree of battery
powered end devices (ED), coordinators that forward for them (COORD) and one
gateway at the root (PAN). This directory holds TLA+ modules of the protocol,
the TLC configurations that check them on small instances, and proofs that
TLAPS checks for every instance.

Contents: [the system](#the-system), [modules and code](#modules-and-code),
[runs](#runs), [bounds](#bounds), [fairness](#fairness), [proofs](#proofs),
[what the checks found](#what-the-checks-found),
[not modelled](#not-modelled), [plan](#plan).

## The system

Each kind of device has its own copy of four layers, `phy`, `link`, `net` and
`fitp`; `common/` holds shared constants and declarations. There is no
documentation besides the comments in the code, and there are no tests. The
properties below quote those comments where there is one to quote.

| Component | State | Operations | Hard because |
|---|---|---|---|
| **ED link** `ed/link_layer/link.c` | one transmission and one reception record, 8-bit tick counter, join flag | `LINK_send_ed`, `ed_process_packet`, `check_buffers_state` in the timer interrupt, `LINK_init` | main program and two interrupts share the record; packets lost, repeated and delayed; acknowledgements carry no number |
| **COORD link** `coord/link_layer/link.c` | four reception and four transmission slots, its own ED-like record towards its parent | `LINK_send_coord`, `LINK_send_ed`, `router_process_packet`, `ed_process_packet`, `check_buffers_state` | slots shared by all devices; slots found by address only; the address is a union of one and of four bytes |
| **PAN link** `pan/link_layer/link.cpp` | four reception and four transmission slots | as COORD, without a parent | as COORD; and the application, the radio thread and the timer thread use the slots without a lock |
| **ED net** `ed/net_layer/net.c` | network state (idle, joining, moving, waiting for data), parent, address, waiting data request | `NET_send`, `NET_join`, `LINK_process_packet`, `LINK_join_response_received`, `LINK_error_handler_ed` | main program waits on flags that interrupts set |
| **COORD net** `coord/net_layer/net.c` | routing table, pair mode and its timeout, pending joins | `LINK_route`, `get_next_coord`, `send_routing_table`, `NET_process_routing_table`, `LINK_join_request_received` | copy of the gateway's tree, received in parts and out of date |
| **PAN net** `pan/net_layer/net.cpp` | device table, routing tree, queues for sleepy devices, pending joins and moves | `NET_joining`, `NET_accepted_device`, `NET_unpair`, `NET_send`, `LINK_route`, `find_free_cid`, `push_sleepy_message`, `save_move_message` | identifiers given out and taken back, fixed queues, joins repeated and delayed |
| **Application interface** `*/fitp/fitp.*` | gateway: queue of received messages with mutex and condition | `fitp_send`, `fitp_received_data`, `fitp_joining_enable` | queue filled by one thread, emptied by another |
| **phy** `*/phy_layer/*` | radio mode, registers, FIFO | `PHY_send`, `PHY_send_with_cca`, `HW_irq1_occurred`, timer | the send routine waits for free air with the interrupts on |

How they interact. The application calls `fitp_*`, which calls `NET_*`, which
calls `LINK_send_*`, which sends with `PHY_send_with_cca`. The other way round
the radio interrupt calls `PHY_process_packet` of the link layer; that answers
with acknowledgements itself and calls `LINK_process_packet` (end device),
`LINK_route` (router) or `LINK_join_*` of the network layer once a payload is
committed. A timer interrupt of 50 ms calls `PHY_timer_interrupt`, which counts
`timer_counter`, resends or gives up what is due in `check_buffers_state`, and
tells the network layer with `LINK_error_handler_*`. All callbacks run to their
end in the interrupt; on the gateway interrupts are threads.

A payload crosses one hop by a *four-way handshake*:

    sender                receiver
      | ---- DATA ----->  |    kept in a slot
      | <---- ACK ------  |    BUSY, when no slot is free
      | --- COMMIT ---->  |    handed to the network layer, slot freed
      | <- COMMIT ACK --  |    sender's record freed

None of these packets carries a sequence number. Everything above relies on
this handshake, and most of what can go wrong in the code goes wrong here; so it
is modelled first, in both directions, and proved.

What makes each component correct:

- *Link layers*: a payload is handed to the network layer of the other side at
  most once and in the order of submission; an acknowledgement means that the
  payload is kept; a retransmission is always in sight; every transfer ends;
  giving up one neighbour leaves the others alone.
- *ED net*: a waiting `NET_send` or `NET_join` returns what is true of its
  answer; the parent is a router of the device's network; without a parent the
  device goes on asking for one.
- *COORD net*: a packet leaves towards the subtree that holds its destination
  and never goes round; every coordinator learns what is below it, and nothing
  else.
- *PAN net*: no coordinator identifier belongs to two devices; the device table
  and the tree agree; a message for a sleepy device is never lost without a
  trace, goes to no other device, and leaves the store.
- *Application interface*: what the link layer acknowledged reaches the
  application.
- *phy* of the gateway: packets stay whole whichever thread uses the radio, the
  radio listens when nobody sends, and the mutex is given back.

## Modules and code

| Module | Models | Uses |
|---|---|---|
| `Transfer` | abstract: what a handshake promises to the layers above | |
| `Radio` | tick counter and channels | |
| `EdLink` | sending half of the end device | `Radio` |
| `CoordUplink` | ED to COORD: `EdLink` with the receiving half of the coordinator; refines `Transfer` | `EdLink`, `Transfer` |
| `UplinkAck` | `CoordUplink` with a history of which transfers began afresh: what an acknowledgement is worth | `CoordUplink` |
| `PanUplink` | ED to PAN: `EdLink` with the receiving half of the gateway | `EdLink` |
| `Downlink` | COORD to ED: transmission slots and the receiving half of the end device; refines `Transfer` | `Radio`, `Transfer` |
| `PanJoin` | gateway: JOIN REQUESTs, accept and unpair, device table and file, coordinator IDs, routing tree | |
| `EdNet` | end device, network layer: `NET_send`, `NET_join`, data requests, the move to another parent, and the packets its link layer passes on without a handshake | |
| `Routing` | coordinators and gateway: routing tables, `get_next_coord`, `LINK_route`, the loss of the parent | |
| `GatewayMail` | gateway: messages for sleepy devices, answers to data requests, queue of received messages | |
| `GatewayPhy` | gateway, physical layer: threads, radio modes, FIFO, SPI transfers | |
| `*_proofs` | theorems about the module they are named after | that module |
| `MC*` | symmetry sets and the values of constants that are functions or sets of records | |

`PROJECT.json` maps each definition to its lines. The correspondence in short:

- An action is one run of a handler, from its first test to its return, with
  every change it makes: interrupts of one kind do not interrupt each other.
  Names are the code's where a function is one action (`LINK_send_ed`,
  `ed_process_ack` for the branch of `ed_process_packet`, `check_buffers_state`).
- *Waiting for the air.* `LINK_send_ed` fills the record, then waits in
  `PHY_send_with_cca`. It runs in the main program with interrupts on, so that
  the record may be resent, acknowledged, committed and freed before the DATA of
  the call are sent. With `Preempted = TRUE` this wait is a step of its own:
  `LINK_send_ed` sets `waiting`, the action `PHY_send_with_cca` ends it. With
  `Preempted = FALSE` the air is always free at once. `LINK_send_coord` of a
  router waits in the same way after it has taken a slot; in `Downlink` the
  payloads that wait are `waiting`. Sends made *by* an interrupt are part of its
  action.
- *Payloads* are numbers: the n-th payload of a device is n. The `msg` of a
  COMMIT is not in the packet; it is a history of what the sender meant, read
  only by properties.
- *Slots* are functions from `Slot`; a scan from index 0 that stops at the first
  match is `First(i, S)`. The dead fields of a free record have one value, with
  the exception of the address in the gateway's transmission slots, which
  `PanUplink` keeps because the code reads it.
- *The tick counter* counts modulo `TimerMod`, with the equality test of the
  code.
- *The radio*: one first-in-first-out channel per direction and device, at most
  `AirCap` packets long. A packet may be lost at any time (`Lose`) and one that
  finds the channel full is lost. Repetitions come from the retransmissions of
  the code itself. The hardware neither reorders nor duplicates packets. A
  packet for another receiver, one of a failed checksum or one dropped by
  `PHY_process_packet` in a state that ignores it is a lost one.
- *Restarts* empty what `LINK_init` empties: the records. What is in the air
  survives them.
- *History variables* (`sent`, `done`, `log`, `addressed`, `sends`, `restarts`,
  `fresh`) record what happened; only bounds and properties read them.
- *`Transfer`* has a constant `Repeats`: whether the last payload may be handed over
  again. Both link layers implement it with `Repeats <- Preempted`: stale DATA that
  leave after their wait are what repeats a payload, and they repeat the last one
  only.

`PanJoin` stands alone: its radio thread and the calls of the server share the
state of the gateway's network layer.

- *Two threads without a lock*. The radio thread stores a request in two steps:
  `RequestStarts` finds the free record and writes `edid`, the first field;
  `RequestStored` writes the others, `valid` last. An accept is three steps:
  `AcceptStarts` finds the record of the device and its parent, `AcceptAdds`
  reads the record again and changes the table, `AcceptEnds` saves and drops the
  requests. The other calls are one step each, since the radio thread changes
  nothing they use. The server makes one call at a time.
- *Records* that were removed from the table all look like `Free`; an invalid
  record of `join_info` keeps `edid` and device type, for the code reads them.
- *Signal strengths* are left out: any valid request may be the best one.
- *The file* is the sequence of records in use. Loading puts them in the first
  slots. A save that fails leaves the old file or a beginning of the new one;
  a restart while the file is written is a failed save followed by a restart.
- *The routing tree* is an array by CID. `load_routing_table` also sends the tree
  to the coordinators, and writes beyond the array for a coordinator with
  `INVALID_CID`; neither is modelled.
- A request may name any coordinator ID as the one it came through, listed or not:
  `JOIN_REQUEST_ROUTE` is stored without a look at the table.

`EdNet` has the device in full and the routers around it as an environment that
sends what a router sends, whenever.

- *The main program* is inside at most one call. `pc` is its place: a step is
  one round of a waiting loop, or what lies between two places where an
  interrupt makes a difference. `DrCheck` and `DrOverwrite` are two steps, since
  `net.c:346-361` tests `dr_state` and writes it afterwards; so are `JoinEnd` and
  `JoinTimeout`.
- *Interrupts* are one step each: `PHY_process_packet` for a packet that is heard
  on the channel the radio is on, `PHY_timer_interrupt` for a tick.
- *Delays* count rounds; nothing relates them to the timer, which may tick any
  number of times between two rounds.
- *The handshake* of a payload is `tx`: on its way until `Delivered`, or until the
  timer gives it up and the device looks for another parent.

`Routing` takes the coordinators when they have joined, in any tree of the
gateway's device table, and the gateway when it starts.

- A tree is an array by CID with `INVALID`. `get_next_coord` and `is_in_subtree`
  climb it; `Climb` is the sequence of nodes they meet. Where the code goes on
  with what lies behind the array, `InSubtree` has both outcomes.
- `NET_process_routing_table` is one step: it stores the rows and composes the
  tables for the children, or returns early on a table of one row.
- A hop is one step with three outcomes: success, failure, and success of which the
  sender does not hear. It needs both coordinators to take each other for neighbours
  (`CanTalk`): the test of `link.c:916` is applied to DATA and to the ACK that comes
  back, so that a coordinator without a table reaches nobody. A router that cannot
  reach its parent is in `rebuilding` and drops what it is to route, for ever (see
  below).
- `top` is the device table; it does not change, as the tree and the tables are
  computed from it only when the gateway starts or unpairs a device.

`GatewayMail` has three threads of the gateway: one application thread in
`NET_send`, one in `fitp_received_data`, and the radio's thread.

- `push_sleepy_message` finds the record, `PushWrites` fills it: two steps,
  between which, with `Overlap`, the radio's thread may use the record. The
  radio's answer is three steps, `local_process_packet` (finds the message and
  frees its record), `AnswerWait`, `AnswerData`, as each of the two sends waits
  for the air.
- The handshakes are reduced to the packets that can be lost and repeated, and to
  the two buffers of the gateway's link layer; `PanUplink` and `Downlink` have them
  in full. A request is looked up as in `link.cpp:431`, by the address that the
  *transmission* slot of the same number has or had: it may be acknowledged and
  dropped, stored twice, or answered BUSY when `rx_buffer` is full. The slot of a
  device that gives its request up (`GivesUp`), and the second copy of a request,
  stay in use, as only COMMIT frees a slot. `ShutOut` names the devices to which
  this happens.
- The link layer puts every packet of the network into the queue before it looks
  at it, whatever it is; for ACK, COMMIT and COMMIT ACK this is `Garbage`.

`GatewayPhy` has the timer's thread and the application as senders (`Sender`) and
the thread of the radio's events (`Radio`), which sends as well: after `Deliver`,
which is `PHY_process_packet`, it owes `answers`, the acknowledgements and answers
that the packet asks for, and sends them with `PHY_send_with_cca`. A call is the
sequence of its elementary steps; `at` is the number of a thread's next one, and
any thread may take it.

- A transfer over SPI is two steps: `Fill` writes the one global `xfer`
  (`phy.cpp:90`), `ioctl` transfers what `xfer` holds by then. Reads exclude each
  other by `mmm`; writes are made under `mm`; the read of the noise in
  `HW_irq1_occurred` is made without `mm` and may meet a write.
- `Transferred` is the set of outcomes when a thread's `ioctl` finds another's
  description: the other transfer, its own after all, one byte, or a register
  address with a zero behind it, as the fields are written one by one. `Fill` being
  one step, these outcomes stand for the torn descriptions too.
- `mixed` is a history: a thread found another's description, and no thread has got
  the radio into standby and emptied its FIFO since. The properties say what holds
  while it is false; nothing in the code reads or needs it.

Definitions such as `Commit_KeepsSlot` are mistakes one could make in the
definition whose name they extend. No specification uses them; they document
which error each property would notice.

## Runs

Passing runs (each also checks the type invariant of its module, or leaves it to
the other run of the module):

| Run | Instance | Shows |
|---|---|---|
| `coord_uplink` | 1 ED, 2 slots, 2 payloads, restarts of both, `Preempted` | `RetransmissionArmed`, `OneSlotPerSender`, `InOrder`, refinement of `Transfer` with repeats; under timer fairness `TransferEnds` |
| `coord_uplink_crowded` | 2 EDs, 1 slot, 3 payloads, no restarts, not `Preempted` | `InOrderAtMostOnce`, refinement of `Transfer` without repeats, `AckMeansStored`, `DoneMeansHandedOver`, with BUSY in play |
| `downlink_apart` | 2 EDs, 2 slots, 2 payloads, 1 restart, `Preempted`, never two slots for one device | refinement of `Transfer` with repeats |
| `downlink_overlap` | 2 EDs, several slots for one device, not `Preempted` | `RetransmissionArmed`, `GiveUpIsPerDevice`, under timer fairness `TransferEnds` |
| `pan_uplink` | 2 EDs, the gateway sends up to two payloads, 1 restart | `AckMeansStoredUnlessAddressed` |
| `pan_join` | 2 coordinators that ask and an ED that is listed, 3 slots, 2 IDs, 2 request records, restarts at any point, 1 failed save | `DevicesDistinct`, `RoutesAreListed`, `FileIsTable`, `ParentKept` |
| `ed_net` | a router of one network and one of another on another channel, 2 channels, restarts at any point | `TrueMeansAnswered`, `ParentOfNetwork`, `MoveTimerArmed`; under timer fairness `MoveRetried` |
| `routing` | 3 coordinators and an ED in all trees with IDs above the parent's, the gateway starts twice, 1 loss, 1 packet | `TreesSound`, `TablesComplete`; under fairness `Settles`, `CalmDelivers` |
| `gateway_mail` | 2 sleepy devices, 2 messages, 1 record, 1 slot in each buffer, 1 loss | `Accounted`, `RequestIsQueued`; under fairness `MailLeaves` |
| `gateway_phy` | 2 sending threads and the radio's, which answers, FIFO of two packets | `PacketsIntact`, `ListensAtRest`; under fairness `LockReleased` |

Each of these also has to break under a plausible mistake in the code, one for
each of its properties (`PROJECT.json`, `mutants`).

Runs that TLC is expected to refute, since the code does not do what a comment
says (see [below](#what-the-checks-found)): `routing_circle`, `gateway_mail_race`.

Conditions separate the good cases from the bad ones, and the code enforces none
of them:

- no interrupt comes while `LINK_send_ed` or `LINK_send_coord` waits for the air
  (`~Preempted`): at-most-once delivery holds. Under `Preempted` the order still
  holds, but the last payload may be handed over again (`InOrder`, and `Transfer`
  with `Repeats`).
- the network layer does not send to a device for which a slot is in use or DATA
  wait for the air (`~Overlap` in `Downlink`): the order holds.
- nothing of an earlier payload of the device is under way or in a slot when a
  transfer begins (`fresh` in `UplinkAck`): what the device is told of it is true.
- a coordinator's ID is above its parent's (`Ordered`): packets do not circle.
- the application is not in `NET_send` while the radio's thread answers a data
  request (`~Overlap` in `GatewayMail`): messages go to their addressees.
- no transfer over SPI was mixed up since a thread last sent (`~mixed`): packets are
  whole and the gateway listens.

## Bounds

| Bound | Code | Runs | Why it is enough |
|---|---|---|---|
| `MaxMsg` | unbounded | 1 to 3, for all devices together | the payload numbers a slot, a record and a channel can confuse are the present one and the one before; a third lets an old packet meet a slot that has been used twice |
| `TimerMod` | 256 | 4 | pauses are at most three ticks, so 4 is the smallest counter on which they differ and that wraps within a transfer; the proofs hold for every value above 3 |
| `MaxRetries` | set at start | 1 (0 in `pan_uplink`) | distinguishes first, last and no retransmission; `check_buffers_state` depends on nothing else; the gateway never looks at contents, so in `pan_uplink` the DATA of a second payload stands for a repetition |
| `AirCap` | radio FIFO | 2; 1 in `coord_uplink_crowded` and `pan_uplink` | two packets let an acknowledgement of one payload travel with the next one, and late DATA behind a COMMIT; what this does with competing devices is left to the theorems |
| `RxSize`, `TxSize`, `BufferSize` | 4 | 1 or 2 | 1 is a full buffer, 2 a scan that has to choose |
| `MaxRestarts`, `EdRestarts` | unbounded | 0 or 1; device restarts unbounded | each restart can hit every point of a handshake |
| devices | unbounded | 1 or 2 | two compete for slots; more add nothing that a slot distinguishes |
| `MaxSends` | unbounded | up to 2 | payloads of the gateway to devices: one leaves an address in a slot, a second leaves another |
| `MaxCoord`, `MaxDevices` | 64, 255 | 3, 3 | two IDs, so that there is a second one to collide with and both can run out; as many slots as devices. The code looks only at the first `MAX_COORD` slots for a device; that a network has more devices is not covered |
| `MaxJoin` | 5 | 2 | a record for the accept and one for the requests that come meanwhile |
| `Sources` | any ID | 0 and 1 for the coordinators, none for the ED | two parents for each coordinator; an ED in the table takes part in the same way however it got there |
| `MaxFails` | unbounded | 1 | one failed save lets file and table differ; saves after it repair the file or find it as any other start does |
| `MaxChannel`, `Refused` | 31, from 25 at high bit rates | 1, none | two channels: one without an answer before or after one with |
| `MoveDelay` | 40 | 2 | the timer ticks while the device waits and does not ask yet, and then asks again |
| `JoinDelay`, `AckDelay`, `DataDelay` | 40, 20, 100 | 1 | between two rounds of a loop any number of interrupts comes, so that more rounds add no order of events; `ByteMod` 4 keeps the wrap of a time-out of 0 |
| `AirCap` of `EdNet` | unbounded | 2 | an answer to this request and one of an earlier request; packets for other devices are not limited |
| `Cids` | 1 to 63 | 1, 2, 3 | chains of three, two subtrees, a grandchild whose ID is below its parent's. The IDs are below 4, where the shift of `net.cpp:1055` loses nothing |
| `MaxBoots`, `MaxLosses` of `Routing` | unbounded | 2, 1 | tables of the first start that arrive after the second; a loss hits every table and every hop. With more losses the trees know less, which a start without its tables shows already |
| `Packets` | 4 slots for each node | 1 | hops of two packets share nothing but `rebuilding`, which one packet may set while no other is under way; the same packet is sent again and again |
| `MaxSleepy`, `BufferSize` of `GatewayMail` | 10, 4 | 1, 1 | a full store and full buffers with two devices and two messages; the stale address of the one slot makes the look-up mistake one device for the other. That a request is stored twice takes two slots, which the theorems have |
| `Messages`, `Addressees` | unbounded, any device | 1 and 2; the first for a given device | one to wait and one to replace it, refuse it or compete with it; the devices are alike |
| `MaxInbox` | unbounded | 1 (2) | tested before a packet is taken; one step may then put two records |
| `MaxLosses` of `GatewayMail` | unbounded | 1 (0) | every packet, every time-out and every giving up can be the one; the race needs none |
| `MaxPolls`, `FifoSize` | 4001, 64 bytes | 2, 4 | the limit of the wait is reached; a frame is two bytes, its length and its data, so that two of them can mix |
| `MaxAnswers` | unbounded | 1 | one answer makes the radio's thread a third sender; it sends a second one from the same state |

The theorems need none of these bounds (`Cids` keeps its range of 1 to 63).

## Fairness

In `CoordUplink` and `Downlink` liveness is checked under `TimedSpec`, which
assumes only that the timer interrupt of each device goes off again and again:
the hardware timer does not depend on anything else. Nothing is assumed of the
radio, which may lose every packet, or of the application. `EdNet` assumes the
same of its one timer.

- `Routing`: a table in the air is received or lost, and a handshake ends. The
  first is the radio's doing; the second is what `TransferEnds` says of the link
  layer. A packet is not assumed to succeed: only `CalmDelivers`, which speaks of
  a network in which the losses are used up, says that it arrives.
- `GatewayMail`: a thread of the gateway that can go on does (weak fairness of
  `PushWrites`, of the answers and of the reader, as the scheduler runs every
  thread); a device goes on asking and resending, which its timer and its
  application see to. Strong fairness of what arrives from each device: the
  threads take turns at the radio, and not for ever the other device's. Nothing
  is assumed of the application that sends.
- `GatewayPhy`: every thread is scheduled (weak fairness), and the wait for free
  air ends (strong fairness of `QuietAir`): the code has no limit for this wait, so
  it rests on the surroundings. That a thread which waits for the mutex gets it is
  not assumed.

## Proofs

Every safety invariant that a passing run checks is also a theorem, and so are the
action property and the two refinements. They hold for any devices, sizes of buffers
and tables, retries, clock range, channel sizes and numbers of losses and restarts
that the named `ASSUME` of the modules allow. TLC evaluates these assumptions in the
runs. A theorem `~C => (Spec => ...)` is about the systems in which the constant `C`
is `FALSE`; where `C` stands for something the code does not prevent, a run or the
list [below](#what-the-checks-found) shows what happens otherwise.

| Module | Theorem | Statement |
|---|---|---|
| `CoordUplink_proofs` | `TypeCorrect`, `ClockCorrect`, `SlotsCorrect` | `TypeOK`, `RetransmissionArmed`, `OneSlotPerSender` |
| | `OrderCorrect`, `HandshakeImplementsTransfer` | `InOrder`, `ImplementsTransfer` |
| | `OrderInvariant`, `DeliveryCorrect` | `~Preempted` implies `InOrderInv`, `InOrderAtMostOnce` |
| | `AckCorrect`, `DoneCorrect` | `AckMeansStored`, `DoneMeansHandedOver` (of `UplinkAck`) |
| `Downlink_proofs` | `TypeCorrect`, `ClockCorrect`, `GivingUpCorrect` | `TypeOK`, `RetransmissionArmed`, `GiveUpIsPerDevice` |
| | `DeliveryCorrect` | `~Overlap /\ ~Preempted` implies `InOrderAtMostOnce` |
| | `HandshakeImplementsTransfer` | `~Overlap` implies `ImplementsTransfer` |
| `PanUplink_proofs` | `TypeCorrect`, `AckCorrect` | `TypeOK`, `AckMeansStoredUnlessAddressed` |
| `PanJoin_proofs` | `TypeCorrect`, `DevicesCorrect`, `RoutesCorrect`, `FileCorrect`, `ParentKeptCorrect` | `TypeOK`, `DevicesDistinct`, `RoutesAreListed`, `FileIsTable`, `ParentKept` |
| `EdNet_proofs` | `TypeCorrect`, `MoveTimerCorrect`, `ParentCorrect`, `AnswerCorrect` | `TypeOK`, `MoveTimerArmed`, `ParentOfNetwork`, `TrueMeansAnswered` |
| `Routing_proofs` | `TypeCorrect`, `TreesCorrect`, `SearchCorrect` | `TypeOK`, `TreesSound`, and that the loop of `get_next_coord` ends |
| | `TablesCorrect` | `Ordered` implies `TablesComplete` |
| `GatewayMail_proofs` | `TypeCorrect`, `RequestCorrect` | `TypeOK`, `RequestIsQueued` |
| | `MailCorrect`, `AddresseeCorrect` | `~Overlap` implies `Accounted`, `MailForAddressee` |
| `GatewayPhy_proofs` | `TypeCorrect` | `TypeOK` |
| | `IntactCorrect`, `ListensCorrect` | `PacketsIntact`, `ListensAtRest` |

### The arguments

*Clocks.* `ClockCorrect` of both link layers is inductive with the type invariant;
its core is `LaterTick`: a moment two or three ticks away on the wrapping counter
is one tick nearer after a tick. Only `TimerMod > 3` is needed.

*Delivery.* `InOrderAtMostOnce` is not inductive: what has been handed over says
nothing of what a packet still in the air may do. `InOrderInv` adds that. It ranks
the packets, DATA of payload n at 2n and COMMIT at 2n+1, and says of each device:

- `ChannelOrder`: the packets in the air are sorted by rank and none is above
  what the device has sent; while DATA may be resent no COMMIT of that payload
  is in the air.
- `SlotOrder`: a payload in a slot is not younger than any packet in the air.
- `LogOrder`: a payload handed over is older than the slot and than every packet
  in the air; a payload whose DATA may be resent has not been handed over.

So a late COMMIT can only hand over a payload younger than all before. What a
device's step can do to the order is in three lemmas, `QuietStep` (nothing is sent),
`SendStep` (a packet not below those in the air is sent) and `OrderedFrame` (another
device's step). `~Preempted` is needed: the DATA sent after the wait may be below a
COMMIT in the air. `Downlink_proofs` has the same invariant, under the same
condition (`Prompt`: no DATA wait), with the roles exchanged (`Ordered`, `Young`);
`OwnSlot`, at most one slot for each device, is where `~Overlap` is used, and the
scan of all slots in one tick is the recursive function `DownAfter`, whose lemmas
are by induction over the slots.

*Order with preemption.* `OrderCorrect` has no condition. Its invariant `Aged`,
which `Downlink_proofs` has for the router as well (`AgedInv`), forgets the ranks:
the numbers do not fall from the log over the slots to the channel, and the device
sends none but its latest payload, be it waiting for the air or in its record
(`Latest`).

*Refinement.* A COMMIT that finds a slot (downlink: a record) maps to `HandOver`,
`LINK_send_*` to `Submit`, the end of a record to `End`, everything else to a
stutter. That the payload handed over is not an older one than the last is `Aged`
(`Repeats`); that it is a later one is `InOrderInv` (without `Repeats`).

*Acknowledgements.* `FreshInv` says of a fresh transfer that whatever is left of the
device's payloads is of the present one (`Present`); that the payload is kept once an
ACK is on its way or a COMMIT may be sent; and that it was handed over once a COMMIT
ACK is on its way or the device was told. It needs `AgedInv`, for the packets behind
the wait for the air. In `PanUplink` the invariant is `AddressesKnown`: an address in
a transmission slot is one the gateway has sent to, which the exception in the
property is about.

*The device table.* `TableInv` says that table and file are both sound (no device
twice, no ID twice from the second slot on), that the tree is made of listed
coordinators, that a request is stored in a record that is not valid, and that an
accept holds a record of a device. The last two carry the two-thread part: between
the three steps of an accept the radio's thread may write only records that are
not valid. That the file can take the table's place is
`LoadedSaved`: saving what was loaded from a sound file gives this file, for any
number of records.

*The end device.* `OutcomeIsOfCall` ties the state of a data request to what was
heard since the call began; the parent stays in the network because what the
EEPROM holds are routers and the device hears only the parent it asks
(`SavedIsRouter`).

*Routing.* `TreesInv`: every row that travels, and every entry of a tree, is one
of the gateway's table; the gateway has no tree or the whole one; a packet without
a device names a node. A climb is a recursive function, and the lemmas about it
are by induction over its length: `RootPath` (a climb in the gateway's table is
first coordinators, then the gateway, then nothing), `Agree` (two trees that agree
on the way give the same way), `Shift`, `BelowUp`, `BelowChild`, `BelowNext`,
`BelowAbove`. For `TablesCorrect` the invariant is `Served`: a coordinator knows
all that is below it, or a table with all rows below its addressee is on its way
to it or to one above it. The two lossy rules of `NET_process_routing_table` are
shown to be harmless: a table of one row is one for a leaf (`SingleRow`), and a row
is left out only if no child has a smaller ID (`ComposedComplete`), which `Ordered`
excludes. `routing_circle` is what happens without it.

*The message store.* `RequestInv` follows a request through the handshake into the
queue and holds in any case. `MailInv` has `OneAtWork`, true with `~Overlap` only,
and `SlotsTrue`: a record, also the one an answer has taken out, holds a message
for the device it names. `gateway_mail_race` refutes `MailForAddressee` with
`Overlap`.

*The radio of the gateway.* A thread's place is a position in one of two fixed
programs (`SendMove`, `IrqMove`). `Mutex`: the owner is the thread between lock and
unlock. `LayerInv` says for each place of the owner what the layer takes the mode and
the interrupts for, and holds in any case. `ChipInv` says, while nothing is `mixed`,
what the owner finds in the chip's mode and FIFO, and what everybody finds while
nobody owns the mutex (`Listening`). What a thread transfers is what it described, or
`mixed` becomes true; only emptying the FIFO in standby makes it false again.

### Induction

The induction rules of the library take a predicate, which the provers cannot
instantiate. `PanJoin_proofs` and `Routing_proofs` derive a rule about sets from
`NatLessThanWellFounded`: `Least` (a set of numbers has a least element) and
`UpTo` (a subset of 0..n that has 0 and goes on from each number to the next is
0..n). With it `Iterates` shows that a recursive function is well defined, and what
such a function computes is proved for every size. (The modules repeat these
lemmas, and `PanUplink_proofs` those of `EdLink`, since the modules they extend
declare the same names.)

### Only model-checked

Liveness, which is beyond the prover: `TransferEnds`, `MoveRetried`, `Settles`,
`CalmDelivers`, `MailLeaves` and `LockReleased`. The same holds for whatever needs
`ENABLED`: that no fair action is disabled for ever is in these runs only. What is
refuted is refuted by a counterexample on an instance.

## What the checks found

Two runs in which TLC refutes what a comment says:

- `routing_circle`: a coordinator passes on the row of an indirect descendant
  only if one of its children has an ID that is not larger (`net.c:755`). With 3
  below 1 and 2 below 3, coordinator 3 never learns of 2 and sends packets for it
  up; 1 sends them down again, for ever. IDs above the parent's avoid it, but IDs
  are given out anew after an unpairing.
- `gateway_mail_race`: the record of a message is freed before the message is sent
  (`net.cpp:993`, its comment says the reverse); the application refills it, and
  the device that asked gets the message of another device.

What the modelling of each part showed besides. TLC shows the first group with the
models as they are, under other values of their constants or with a property that no
run has, since the code does not keep it (`DoneIsDelivered` of `CoordUplink`,
`StoredOnce` of `PanUplink`, `CidsDistinct` of `PanJoin`, `ModeIsSet` of
`GatewayPhy`):

- *Uplink*. DATA sent after the wait for free air may be a stale copy of a payload
  that was committed meanwhile, and the payload is handed over a second time (`ed
  link.c:456`, `Preempted`). A COMMIT ACK of an earlier payload is taken for one of
  the present payload, which is reported as delivered ("data were successfully
  delivered", `ed link.c:242`) and never was: `DoneIsDelivered` fails, and
  `DoneMeansHandedOver` is what remains. A slot whose sender gave up between DATA
  and COMMIT is never released, as the expiration time of reception slots is not
  used; other devices are told BUSY, which renews their retransmissions, for ever:
  `TransferEnds` needs slots for all devices (`coord link.c:697`).
- *Downlink*. DATA sent after the wait of `LINK_send_coord` may be stale in the same
  way (`coord link.c:1105-1116`). With two slots in use for one device, it
  acknowledges the DATA of the second as a repetition of the first and drops them
  (`ed link.c:266`).
- *Gateway's uplink*. DATA are looked up by the address in the *transmission*
  slots (`pan link.cpp:431`): a payload that is not held is acknowledged and
  dropped (`AckMeansStoredUnlessAddressed` is what remains), and DATA that are held
  are stored once more (`StoredOnce` fails, if the device resends before it has the
  ACK). COMMIT frees the first of the two slots; the other one hands an old payload
  over again at a later COMMIT, or stays in use, and once all slots are lost in this
  way every device is told BUSY.
- *Joining at the gateway*. An accept takes the first record of the device even if
  it is no longer valid (`net.cpp:1191`); such a record may be given to another
  device while the accept is under way, and then this device is added.
  `find_free_cid` promises "a free coordinator ID" (`net.cpp:827`) and looks at the
  table from the second slot on: two coordinators have the same ID as soon as the
  one in the first slot and the next one joined (`CidsDistinct` fails).
  `DevicesDistinct` says that this is the only way.
- *SPI transfers*. The radio's thread reads the noise before it takes the mutex
  (`phy.cpp:615`), through the global array `xfer` (`phy.cpp:90`) that a sender is
  filling at the same time: a step of the sender is lost or a byte of its frame
  replaced. When the lost step is the last `set_rf_mode` of `PHY_send`, the gateway is
  in standby and hears nothing until it sends the next time (`ModeIsSet` fails).
  `PacketsIntact` and `ListensAtRest` say what holds otherwise.

The second group is modelled as the code has it, and no property speaks of it:

- After a MOVE REQUEST an end device sends a second broadcast whose type,
  `0x30 << 4`, is cut to DATA (`ed net.c:85, 136`): a neighbour that waits for its
  data takes it for them (`DataBroadcast`).
- A failed join leaves the radio on the channel of the scan if a channel was
  refused or the response did not come (`ed link.c:537-543`).
- `NET_joined` is true on a device that never joined, as its `nid` is 1.0.0.0.
- A JOIN RESPONSE for another device ends `NET_join` with true
  (`ed link.c:369`); one that comes between the test and the reset of the flag
  joins the device although the call returns false (`ed net.c:418-421`); the list
  of routers that acknowledged survives a time-out.
- The search for a parent survives a join, and a data request does not look at
  whether the link layer took it (`ed net.c:341`).
- A coordinator that has lost its parent routes nothing until it is restarted: the
  gateway stores move requests but never answers them, `NET_moving` is commented
  out (`pan link.cpp:727-729`).
- A coordinator without a routing table takes no ACK, as the test for neighbours
  applies to it (`link.c:916`): its packets reach the other side and are given up.
- For a failed packet to its own child a coordinator reads an uninitialised
  variable (`coord net.c:432`) and may look for a new parent. Its climb in
  `is_in_subtree` reads entry 255 of an array of 64 (`coord net.c:669`).
- Two tests for `INVALID_CID` after masking with 0x3f are never true
  (`coord net.c:562`, `net.cpp:1061`). The gateway's header is shifted by four
  bits where the format has two (`net.cpp:1055`); IDs of 4 and above are lost.
- The gateway puts records of ACK, COMMIT and COMMIT ACK into the queue with a
  length of 246, and leaves the type of other packets unset
  (`net.cpp:1389`, `fitp.cpp:150`). `fitp_received_data` returns nothing
  when it had to wait, even if a message came.
- Messages for sleepy devices are lost when the TX buffer is full, as the result of
  `send` is ignored (`net.cpp:996`), and when the application overwrites a record
  that was just taken.

## Not modelled

- Link layers: join packets of the routers; the slots of transfers between
  coordinators, which `Routing` takes as one step; the steps of two threads of the
  gateway that look for a free slot at once.
- Coordinator, network layer: joining, the forwarding of join and move packets, the
  pair mode with its time-out.
- Gateway, network layer: the answers to join requests, the records of move
  requests. `Routing` does not change the device table while packets travel, and
  does not model tables of more than one packet, rows sent twice (which overrun
  `r_table`) or a table that any coordinator sends (`coord link.c:908`).
- `Routing`: slots that a router loses to devices that gave up, and a full TX buffer.
- `GatewayMail` has sleepy children of the gateway only.
- `GatewayPhy` begins after `PHY_init`, though its threads start before it ends
  (`phy.cpp:676`). It has the registers that mode, FIFO and interrupts depend on, no
  change of channel, frequency or bit rate after the start, and no `ioctl` that fails.
- The drivers of the microcontrollers, the radio's frequencies, bit rates and
  power, GPIO access, the simulated radio `x86_phy.cc`, logging: I/O without
  protocol state.
- Routines that nothing calls, such as `NET_moving` and `NET_joining` on the
  gateway.

## Plan

Done: `Transfer`, `Radio`, `EdLink`, `CoordUplink`, `Downlink`, `PanUplink`,
`UplinkAck`, `PanJoin`, `EdNet`, `Routing`, `GatewayMail`, `GatewayPhy`, and the
proofs of every safety property of the passing runs.

1. *Proofs*: in `Routing`, that a packet under way is never sent to a node its
   sender does not name as a neighbour once all trees are complete, the safety
   half of `CalmDelivers`; in `Downlink`, what `Overlap` leaves of the order.
2. *Transfers between coordinators*: the slots with union addresses.
3. *Threads of the gateway*: `get_free_index_tx` and the filling of a slot as
   separate steps.
4. *Pair mode and joining at the coordinator*, composed with `PanJoin`: the ID a
   coordinator uses is the one in the table.
