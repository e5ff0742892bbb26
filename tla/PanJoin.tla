------------------------------ MODULE PanJoin ------------------------------
(***************************************************************************)
(* The network layer of the gateway (src/fitp/pan/net_layer/net.cpp and    *)
(* src/fitp/pan/fitp/fitp.cpp): devices ask to join, the server has them   *)
(* accepted or unpaired, coordinators get their ID (CID), and the gateway  *)
(* keeps the device table, its copy in a file and the routing tree.        *)
(*                                                                         *)
(* Two threads share this state without a lock.  The radio thread stores   *)
(* JOIN REQUESTs in join_info, one field after the other; the server       *)
(* thread runs the calls of fitp.h one at a time.  An accept reads         *)
(* join_info, adds the device and answers it, then saves the table: three  *)
(* steps here, the other calls are one.  The gateway may restart between   *)
(* any two steps, and writing the file may fail.                           *)
(*                                                                         *)
(* Left out: answers and routing tables that are sent to the devices, and  *)
(* the flag sleepy, which nothing reads here.                              *)
(***************************************************************************)
EXTENDS Naturals, Sequences, SequencesExt, FiniteSetsExt

CONSTANTS
  Device,       (* the devices that may join, known by their edid         *)
  NoDevice,     (* the edid of an array that was never written            *)
  Coords,       (* those that are coordinators                            *)
  Fixed,        (* the end device that fitp_device_list adds              *)
  MaxCoord,     (* MAX_COORD: 64 in the code                              *)
  MaxDevices,   (* MAX_DEVICES: 255 in the code                           *)
  MaxJoin,      (* MAX_JOIN_MESSAGES: 5 in the code                       *)
  Sources,      (* by device, the CIDs that its requests name as the one  *)
                (* they came through; bounds the model, as the code takes *)
                (* any                                                    *)
  MaxFails      (* saves that fail; bounds the model                      *)

INVALID_CID == 255
PAN == 0                       (* the CID of the gateway                  *)

ASSUME PanJoinAssumption ==
  /\ Coords \subseteq Device
  /\ Fixed \in Device \ Coords
  /\ NoDevice \notin Device
  /\ MaxCoord \in 2..INVALID_CID
  /\ MaxDevices \in Nat /\ MaxDevices >= MaxCoord
  /\ MaxJoin \in Nat \ {0}
  /\ Sources \in [Device -> SUBSET (0..MaxCoord - 1)]
  /\ MaxFails \in Nat

VARIABLES
  devices,        (* the device table                                     *)
  file,           (* the table as it was saved                            *)
  routing_tree,   (* the parent of each coordinator, by CID               *)
  join_info,      (* JOIN REQUESTs that wait for the server               *)
  pair_mode,      (* whether JOIN REQUESTs are taken                      *)
  storing,        (* the request that the radio thread is storing         *)
  accept,         (* where the server thread is in an accept              *)
  save_ok,        (* history: whether the last save was complete          *)
  fails           (* history: the number of saves that failed             *)

vars == <<devices, file, routing_tree, join_info, pair_mode, storing,
          accept, save_ok, fails>>

Cid == 0..MaxCoord - 1
Slot == 0..MaxDevices - 1
Scanned == Cid                 (* the slots that most look-ups stop after *)
JoinSlot == 0..MaxJoin - 1

(* A record of the table is in use if it has an edid.                      *)
Entry == [edid : Device \cup {NoDevice}, cid : Cid \cup {INVALID_CID},
          parent : Cid, coord : BOOLEAN]

Free == [edid |-> NoDevice, cid |-> 0, parent |-> PAN, coord |-> FALSE]

(* A record of join_info that is no longer valid keeps what is still read: *)
(* edid and device type.                                                   *)
Request == [valid : BOOLEAN, edid : Device \cup {NoDevice}, scid : Cid,
            coord : BOOLEAN]

NoRequest == [valid |-> FALSE, edid |-> NoDevice, scid |-> PAN,
              coord |-> FALSE]

(* No request is being stored, no accept is under way.                     *)
NotStoring == [slot |-> 0, request |-> NoRequest]
NoAccept == [phase |-> "idle", edid |-> NoDevice, slot |-> 0, parent |-> 0]

Storing == storing.request.valid
Idle == accept.phase = "idle"

-----------------------------------------------------------------------------
(* The device table.                                                       *)

Used(dev) == {i \in Scanned : dev[i].edid # NoDevice}

is_my_device(dev, e) == \E i \in Used(dev) : dev[i].edid = e

add_device_NoLookup(dev, e, cid, parent, coord) ==
  LET free == {i \in Slot : dev[i].edid = NoDevice}
  IN  IF free = {} THEN dev
      ELSE [dev EXCEPT ![Min(free)] = [edid |-> e, cid |-> cid,
                                       parent |-> parent, coord |-> coord]]

(* The table after e was added: it is full, lists e already, or has a      *)
(* first free slot.                                                        *)
add_device(dev, e, cid, parent, coord) ==
  LET free == {i \in Slot : dev[i].edid = NoDevice}
  IN  IF is_my_device(dev, e) \/ free = {} THEN dev
      ELSE [dev EXCEPT ![Min(free)] = [edid |-> e, cid |-> cid,
                                       parent |-> parent, coord |-> coord]]

remove_device(dev, e) ==
  [dev EXCEPT ![Min({i \in Used(dev) : dev[i].edid = e})] = Free]

find_free_cid_OneTooFar(dev) ==
  LET taken == {dev[j].cid : j \in Used(dev) \ {0}}
      free == (1..MaxCoord) \ taken
  IN  IF free = {} THEN INVALID_CID ELSE Min(free)

(* The least CID that no device has, the first one of the table not        *)
(* looked at.                                                              *)
find_free_cid(dev) ==
  LET taken == {dev[j].cid : j \in Used(dev) \ {0}}
      free == (1..MaxCoord - 1) \ taken
  IN  IF free = {} THEN INVALID_CID ELSE Min(free)

(* What save_device_table writes for a table and load_device_table makes   *)
(* of a file: the records move to the first slots.                         *)
Saved(dev) ==
  LET upTo[k \in 0..MaxCoord] ==
        IF k = 0 THEN <<>>
        ELSE IF dev[k - 1].edid = NoDevice THEN upTo[k - 1]
        ELSE Append(upTo[k - 1], dev[k - 1])
  IN  upTo[MaxCoord]

Loaded(f) == [i \in Slot |-> IF i < Len(f) THEN f[i + 1] ELSE Free]

(* The routing tree of a table: of coordinators with the same CID the last *)
(* one counts, a CID that is no index of the array none.                   *)
Tree(dev) ==
  LET with(c) == {i \in Scanned : dev[i].coord /\ dev[i].cid = c}
  IN  [c \in Cid |-> IF with(c) # {} THEN dev[Max(with(c))].parent
                     ELSE IF c = PAN THEN PAN ELSE INVALID_CID]

(* The file is written for the table dev, completely or not: the file that *)
(* was there is emptied before it is written.                              *)
save_device_table(dev) ==
  \/ file' = Saved(dev) /\ save_ok' = TRUE /\ UNCHANGED fails
  \/ /\ fails < MaxFails
     /\ fails' = fails + 1
     /\ file' \in {file} \cup Prefixes(Saved(dev))
     /\ save_ok' = FALSE

-----------------------------------------------------------------------------
(* The radio thread.                                                       *)

FreeRequests == {s \in JoinSlot : ~join_info[s].valid}

RequestStarts_AnySlot(e) ==
  /\ pair_mode
  /\ ~Storing
  /\ \E scid \in Sources[e], s \in JoinSlot :
       /\ join_info' = [join_info EXCEPT ![s].edid = e]
       /\ storing' = [slot |-> s,
                      request |-> [valid |-> TRUE, edid |-> e, scid |-> scid,
                                   coord |-> e \in Coords]]
  /\ UNCHANGED <<devices, file, routing_tree, pair_mode, accept, save_ok,
                 fails>>

(* A JOIN REQUEST of device e arrives, from e itself or through a          *)
(* coordinator, listed or not, and the first field of a free record is     *)
(* written.  Without a free record the request is dropped.                 *)
RequestStarts(e) ==
  /\ pair_mode
  /\ ~Storing
  /\ FreeRequests # {}
  /\ \E scid \in Sources[e] :
       storing' = [slot |-> Min(FreeRequests),
                   request |-> [valid |-> TRUE, edid |-> e, scid |-> scid,
                                coord |-> e \in Coords]]
  /\ join_info' = [join_info EXCEPT ![Min(FreeRequests)].edid = e]
  /\ UNCHANGED <<devices, file, routing_tree, pair_mode, accept, save_ok,
                 fails>>

(* The other fields are written, valid last.                               *)
RequestStored ==
  /\ Storing
  /\ join_info' = [join_info EXCEPT ![storing.slot] = storing.request]
  /\ storing' = NotStoring
  /\ UNCHANGED <<devices, file, routing_tree, pair_mode, accept, save_ok,
                 fails>>

-----------------------------------------------------------------------------
(* The server thread.                                                      *)

fitp_joining_enable ==
  /\ Idle
  /\ pair_mode' = TRUE
  /\ UNCHANGED <<devices, file, routing_tree, join_info, storing, accept,
                 save_ok, fails>>

fitp_joining_disable ==
  /\ Idle
  /\ pair_mode' = FALSE
  /\ UNCHANGED <<devices, file, routing_tree, join_info, storing, accept,
                 save_ok, fails>>

(* The valid requests of e.                                                *)
RequestsOf(e) == {s \in JoinSlot : join_info[s].valid /\ join_info[s].edid = e}

(* NET_accepted_device for e: it takes the first record of e, valid or     *)
(* not, and as the parent the best received of the valid ones, here any.   *)
(* Without one it returns.                                                 *)
AcceptStarts(e) ==
  /\ Idle
  /\ \E parent \in RequestsOf(e) :
       accept' = [phase |-> "found", edid |-> e,
                  slot |-> Min({s \in JoinSlot : join_info[s].edid = e}),
                  parent |-> parent]
  /\ UNCHANGED <<devices, file, routing_tree, join_info, pair_mode, storing,
                 save_ok, fails>>

(* The device of the record found is added, as a coordinator with a CID of *)
(* its own or as an end device, and the answer is sent: whether the device *)
(* was added makes no difference.                                          *)
AcceptAdds ==
  LET request == join_info[accept.slot]
      cid == IF request.coord THEN find_free_cid(devices) ELSE 0
  IN  /\ accept.phase = "found"
      /\ devices' = add_device(devices, request.edid, cid,
                               join_info[accept.parent].scid, request.coord)
      /\ accept' = [accept EXCEPT !.phase = "added"]
      /\ UNCHANGED <<file, routing_tree, join_info, pair_mode, storing,
                     save_ok, fails>>

(* The table is saved, and only if that failed the routing tree is built   *)
(* anew.  All requests of the device are dropped.                          *)
AcceptEnds ==
  /\ accept.phase = "added"
  /\ save_device_table(devices)
  /\ routing_tree' = IF save_ok' THEN routing_tree ELSE Tree(devices)
  /\ join_info' = [s \in JoinSlot |->
                     IF join_info[s].edid = join_info[accept.slot].edid
                     THEN [join_info[s] EXCEPT !.valid = FALSE, !.scid = PAN]
                     ELSE join_info[s]]
  /\ accept' = NoAccept
  /\ UNCHANGED <<devices, pair_mode, storing>>

NET_unpair_KeepsTree(e) ==
  /\ Idle
  /\ is_my_device(devices, e)
  /\ devices' = remove_device(devices, e)
  /\ save_device_table(devices')
  /\ UNCHANGED <<routing_tree, join_info, pair_mode, storing, accept>>

NET_unpair_NotSaved(e) ==
  /\ Idle
  /\ is_my_device(devices, e)
  /\ devices' = remove_device(devices, e)
  /\ routing_tree' = Tree(devices')
  /\ UNCHANGED <<file, join_info, pair_mode, storing, accept, save_ok, fails>>

(* A device that is listed is removed from the table, from the file and    *)
(* from the routing tree.                                                  *)
NET_unpair(e) ==
  /\ Idle
  /\ is_my_device(devices, e)
  /\ devices' = remove_device(devices, e)
  /\ save_device_table(devices')
  /\ routing_tree' = Tree(devices')
  /\ UNCHANGED <<join_info, pair_mode, storing, accept>>

(* Asking for the list of devices adds one with a fixed edid.              *)
fitp_device_list ==
  /\ Idle
  /\ devices' = add_device(devices, Fixed, 1, PAN, FALSE)
  /\ save_device_table(devices')
  /\ UNCHANGED <<routing_tree, join_info, pair_mode, storing, accept>>

(* The gateway stops at any point and starts again (NET_init).             *)
Restart ==
  /\ devices' = Loaded(file)
  /\ routing_tree' = Tree(Loaded(file))
  /\ join_info' = [s \in JoinSlot |-> NoRequest]
  /\ pair_mode' = FALSE
  /\ storing' = NotStoring
  /\ accept' = NoAccept
  /\ save_ok' = TRUE
  /\ UNCHANGED <<file, fails>>

Init ==
  /\ devices = [i \in Slot |-> Free]
  /\ file = <<>>
  /\ routing_tree = Tree([i \in Slot |-> Free])
  /\ join_info = [s \in JoinSlot |-> NoRequest]
  /\ pair_mode = FALSE
  /\ storing = NotStoring
  /\ accept = NoAccept
  /\ save_ok = TRUE
  /\ fails = 0

Next ==
  \/ \E e \in Device : RequestStarts(e) \/ AcceptStarts(e) \/ NET_unpair(e)
  \/ RequestStored
  \/ AcceptAdds
  \/ AcceptEnds
  \/ fitp_joining_enable
  \/ fitp_joining_disable
  \/ fitp_device_list
  \/ Restart

Spec == Init /\ [][Next]_vars

-----------------------------------------------------------------------------
(* Properties.                                                             *)

(* Every variable has its type; in particular every CID that is given out  *)
(* is an index of the routing tree or INVALID_CID.                         *)
TypeOK ==
  /\ devices \in [Slot -> Entry]
  /\ file \in Seq(Entry)
  /\ routing_tree \in [Cid -> Cid \cup {INVALID_CID}]
  /\ join_info \in [JoinSlot -> Request]
  /\ pair_mode \in BOOLEAN
  /\ storing \in [slot : JoinSlot, request : Request]
  /\ accept \in [phase : {"idle", "found", "added"},
                 edid : Device \cup {NoDevice},
                 slot : JoinSlot, parent : JoinSlot]
  /\ save_ok \in BOOLEAN
  /\ fails \in 0..MaxFails

CoordsWith(c) == {i \in Used(devices) : devices[i].coord /\ devices[i].cid = c}

(* A device is listed once among the slots that are looked up, and two     *)
(* coordinators share a CID only if one of them has the first slot of the  *)
(* table (net.cpp:376, net.cpp:829), through any order of joining,         *)
(* listing, unpairing and restarts, which move devices to other slots.     *)
DevicesDistinct ==
  /\ \A i, j \in Used(devices) : devices[i].edid = devices[j].edid => i = j
  /\ \A c \in Cid : Cardinality(CoordsWith(c) \ {0}) <= 1

(* No two coordinators have the same CID: a new one gets "a free           *)
(* coordinator ID" (net.cpp:827).  It does not: the one of the device in   *)
(* the first slot counts as free (net.cpp:832).                            *)
CidsDistinct == \A c \in Cid : Cardinality(CoordsWith(c)) <= 1

(* What the gateway routes by is in its table: a parent in the routing     *)
(* tree is the parent of a listed coordinator with this CID, also after    *)
(* coordinators were unpaired or their record was lost with the file.      *)
RoutesAreListed ==
  \A c \in Cid \ {PAN} :
    routing_tree[c] # INVALID_CID =>
      \E i \in CoordsWith(c) : devices[i].parent = routing_tree[c]

(* Between calls the file holds the table, unless the last save failed:    *)
(* no restart then forgets a device or brings an unpaired one back.        *)
FileIsTable == Idle /\ save_ok => file = Saved(devices)

(* The request an accept took its parent from stays as it is until the     *)
(* accept ends, although requests of other devices are stored meanwhile.   *)
ParentKept ==
  ~Idle => /\ join_info[accept.parent].valid
           /\ join_info[accept.parent].edid = accept.edid
=============================================================================
