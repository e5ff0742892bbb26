------------------------------ MODULE Routing -------------------------------
(***************************************************************************)
(* Routing along the tree of coordinators: get_next_coord, LINK_route and  *)
(* the routing tables, in src/fitp/coord/net_layer/net.c and               *)
(* src/fitp/pan/net_layer/net.cpp.                                         *)
(*                                                                         *)
(* The gateway (CID 0) computes its tree from the device table when it     *)
(* starts and sends a routing table to each of its children.  A            *)
(* coordinator that receives a table stores it and composes the tables of  *)
(* its own children.  Tables travel without acknowledgement: they may be   *)
(* lost, and nobody asks for them again.                                   *)
(*                                                                         *)
(* A packet goes from coordinator to coordinator.  One hop is one          *)
(* four-way handshake, whose details are in the modules of the link layer: *)
(* here it succeeds, or fails, or succeeds while its sender believes that  *)
(* it failed.  A coordinator accepts packets only from coordinators that   *)
(* its tree names as neighbours, and one that fails to reach its parent    *)
(* asks for a new parent and routes nothing until it is answered; the      *)
(* gateway never answers (NET_moving is not called).                       *)
(*                                                                         *)
(* The table fits into one packet (up to 20 coordinators).                 *)
(***************************************************************************)
EXTENDS Naturals, FiniteSets

CONSTANTS
  Cids,        (* the IDs of the coordinators, 0 is the gateway           *)
  Ed,          (* the EDID of an end device                               *)
  NoEd,        (* the EDID 0.0.0.0                                        *)
  Home,        (* the parent of the end device                            *)
  Packets,     (* identities of packets                                   *)
  INVALID,     (* INVALID_CID                                             *)
  Ordered,     (* whether a coordinator's ID is above its parent's        *)
  MaxBoots,    (* bound: starts of the gateway                            *)
  MaxLosses    (* bound: tables lost and handshakes failed                *)

ASSUME RoutingAssumption ==
  /\ Cids \subseteq 1..63 /\ IsFiniteSet(Cids)
  /\ Ed \notin Nat /\ NoEd \notin Nat /\ INVALID \notin Nat
  /\ Ed # NoEd /\ Ed # INVALID
  /\ Home \in Cids \cup {0}
  /\ Ordered \in BOOLEAN
  /\ MaxBoots \in Nat /\ MaxLosses \in Nat

Node   == Cids \cup {0}
Device == Cids \cup {Ed}   (* a coordinator's EDID is named by its CID    *)

VARIABLES
  top,         (* the parents in the gateway's device table               *)
  tree,        (* GLOBAL_STORAGE.routing_tree of each node                *)
  rebuilding,  (* coordinators whose waiting_move_response is set         *)
  tables,      (* the ROUTING DATA packets on the air                     *)
  packet,      (* the DATA packets and where they are                     *)
  boots,       (* starts of the gateway so far                            *)
  losses       (* losses so far                                           *)

vars == <<top, tree, rebuilding, tables, packet, boots, losses>>

-----------------------------------------------------------------------------
(***************************************************************************)
(* The routing tree.                                                       *)
(***************************************************************************)
MaxClimb == Cardinality(Node)

\* The nodes met on the way up from x, INVALID from the first missing entry.
Climb(t, x) ==
  LET f[k \in 0..MaxClimb] ==
        IF k = 0 THEN x
        ELSE LET y == f[k-1] IN IF y \in DOMAIN t THEN t[y] ELSE INVALID
  IN  f

\* Whether x is below c according to t.  A climb that meets a missing entry
\* goes on with whatever lies behind the array.
InSubtree(t, x, c) ==
  LET f == Climb(t, x)
  IN  IF \E k \in 0..MaxClimb : f[k] = c THEN {TRUE}
      ELSE IF f[MaxClimb] = INVALID THEN BOOLEAN ELSE {FALSE}

\* Where a climb from d meets c.
Hits(c, d) == {k \in 1..MaxClimb : Climb(tree[c], d)[k] = c}

\* The node met just before.
OneBefore(c, d) ==
  Climb(tree[c], d)[(CHOOSE k \in Hits(c, d) : \A l \in Hits(c, d) : k <= l) - 1]

\* The next coordinator from the gateway towards coordinator d.  The gateway
\* has all coordinators in its tree: its search, which has no end of its own,
\* succeeds.
GatewayNextCoord(d) == OneBefore(0, d)

\* The next coordinator from node c towards coordinator d, d # c.
NextCoord(c, d) ==
  CASE c = 0 -> GatewayNextCoord(d)
    [] c # 0 /\ (d = 0 \/ Hits(c, d) = {}) -> top[c]
    [] OTHER -> OneBefore(c, d)

\* Whether x is c or below it in the gateway's device table.
IsBelow(x, c) == \E k \in 0..MaxClimb : Climb(top, x)[k] = c

Topologies ==
  {t \in [Device -> Node] :
     /\ t[Ed] = Home
     /\ \A c \in Cids : \E k \in 0..MaxClimb : Climb(t, c)[k] = 0
     /\ Ordered => \A c \in Cids : t[c] < c}

-----------------------------------------------------------------------------
(***************************************************************************)
(* The routing tables.                                                     *)
(***************************************************************************)
Row == [cid : Cids, parent : Node]

Table == [to : Cids, rows : SUBSET Row]

Children(t, c) == {x \in Cids : t[x] = c}

\* The tables that node c sends: to each child the rows below it, and
\* perhaps rows for which that is undefined.
Sent(t, c, rows) ==
  LET pairs == Children(t, c) \X rows
      sure  == {q \in pairs : InSubtree(t, q[2].cid, q[1]) = {TRUE}}
      maybe == {q \in pairs : InSubtree(t, q[2].cid, q[1]) = BOOLEAN}
  IN  {{[to |-> x, rows |-> {r \in rows : <<x, r>> \in sure \cup more}] :
           x \in Children(t, c)} : more \in SUBSET maybe}

RTable_ParentLost(t, c) ==
  {[cid |-> i, parent |-> c] : i \in Children(t, c)} \cup
  {[cid |-> i, parent |-> c] :
     i \in {i \in Cids \ Children(t, c) :
              /\ t[i] # INVALID /\ t[t[i]] # 0
              /\ \E j \in Children(t, c) : j <= i}}

RTable_ChildrenOnly(t, c) ==
  {[cid |-> i, parent |-> c] : i \in Children(t, c)}

\* The rows that coordinator c composes: its children, and the others that
\* are not grandchildren of the gateway, if a child with a smaller ID exists.
RTable(t, c) ==
  {[cid |-> i, parent |-> c] : i \in Children(t, c)} \cup
  {[cid |-> i, parent |-> t[i]] :
     i \in {i \in Cids \ Children(t, c) :
              /\ t[i] # INVALID /\ t[t[i]] # 0
              /\ \E j \in Children(t, c) : j <= i}}

\* The gateway starts: load_routing_table.
NET_init ==
  /\ boots < MaxBoots
  /\ boots' = boots + 1
  /\ LET t == [x \in Node |-> IF x = 0 THEN 0 ELSE top[x]]
     IN  /\ tree' = [tree EXCEPT ![0] = t]
         /\ \E m \in Sent(t, 0, {[cid |-> x, parent |-> top[x]] : x \in Cids}) :
              tables' = tables \cup m
  /\ UNCHANGED <<top, rebuilding, packet, losses>>

\* A coordinator receives a table.
NET_process_routing_table(m) ==
  /\ m \in tables
  /\ LET c == m.to
         t == [x \in Node |->
                 IF \E r \in m.rows : r.cid = x
                 THEN (CHOOSE r \in m.rows : r.cid = x).parent ELSE tree[c][x]]
     IN  /\ tree' = [tree EXCEPT ![c] = t]
         /\ IF Cardinality(m.rows) = 1
            THEN tables' = tables \ {m}
            ELSE \E s \in Sent(t, c, RTable(t, c)) :
                   tables' = (tables \ {m}) \cup s
  /\ UNCHANGED <<top, rebuilding, packet, boots, losses>>

\* The radio loses a table.
LoseTable(m) ==
  /\ m \in tables
  /\ losses < MaxLosses
  /\ losses' = losses + 1
  /\ tables' = tables \ {m}
  /\ UNCHANGED <<top, tree, rebuilding, packet, boots>>

-----------------------------------------------------------------------------
(***************************************************************************)
(* Packets.  dcid and ed are the destination in the header.  A packet is   *)
(* on its way between coordinators ("hop", from at to to), on its way to a *)
(* child with its own EDID ("child", from at), or has come to an end.      *)
(***************************************************************************)
Packet == [place : {"none", "hop", "child", "received", "lost"},
           at : Node, to : Node,
           dcid : 0..63, ed : Device \cup {NoEd}]

Moving == {p \in Packets : packet[p].place \in {"hop", "child"}}

Idle == [place |-> "none", at |-> 0, to |-> 0, dcid |-> 0, ed |-> NoEd]

Done(p, where) ==
  [packet EXCEPT ![p] = [Idle EXCEPT !.place = where]]

ToChild(c, d, e) ==
  [place |-> "child", at |-> c, to |-> c, dcid |-> d, ed |-> e]

\* LINK_send_coord towards coordinator a, the header says d.
Towards(c, a, d, e) ==
  [place |-> "hop", at |-> c, to |-> NextCoord(c, a), dcid |-> d, ed |-> e]

\* The bits of the parent's ID that the gateway puts into the header.
Rewritten(a) == (4 * (a \div 16)) + (a % 4)

\* send of the gateway: the parent of device e is looked up, a child gets the
\* packet itself.
GatewaySend(e) ==
  IF top[e] = 0 THEN ToChild(0, 0, e) ELSE Towards(0, top[e], top[e], e)

\* The gateway's application sends a packet to device e.  fitp_send leaves
\* the coordinator to the network layer; with a coordinator's ID NET_send
\* looks for the device 0.0.0.0 and refuses.
GatewaySends(p, e) ==
  /\ boots > 0
  /\ p \notin Moving
  /\ packet' = [packet EXCEPT ![p] = GatewaySend(e)]
  /\ UNCHANGED <<top, tree, rebuilding, tables, boots, losses>>

\* The application of coordinator c sends a packet to coordinator d, or, by
\* way of the gateway, to the gateway or to device e.
CoordSends(p, c, d, e) ==
  /\ p \notin Moving
  /\ d = 0 \/ e = NoEd
  /\ c \notin rebuilding
  /\ d # c /\ e # c
  /\ packet' = [packet EXCEPT ![p] = Towards(c, d, d, e)]
  /\ UNCHANGED <<top, tree, rebuilding, tables, boots, losses>>

\* LINK_route of a coordinator.
RouteAtCoord(p, c) ==
  LET d == packet[p].dcid  e == packet[p].ed
  IN  IF c \in rebuilding THEN Done(p, "lost")
      ELSE IF d # c THEN [packet EXCEPT ![p] = Towards(c, d, d, e)]
      ELSE IF e \in {NoEd, c} THEN Done(p, "received")
      ELSE [packet EXCEPT ![p] = ToChild(c, d, e)]

\* LINK_route of the gateway.
RouteAtGateway(p) ==
  LET d == packet[p].dcid  e == packet[p].ed
  IN  IF d = 0 /\ e = NoEd THEN Done(p, "received")
      ELSE IF e = NoEd THEN [packet EXCEPT ![p] = Towards(0, d, d, e)]
      ELSE IF top[e] = 0 THEN [packet EXCEPT ![p] = ToChild(0, d, e)]
      ELSE [packet EXCEPT ![p] = Towards(0, top[e], Rewritten(top[e]), e)]

LINK_route(p, c) == IF c = 0 THEN RouteAtGateway(p) ELSE RouteAtCoord(p, c)

LINK_error_handler_coord_Everywhere(c, d) ==
  rebuilding' = rebuilding \cup {c}

\* MOVE REQUEST: c looks for another parent.  No answer ever sets the flag
\* back, as the gateway does not send one (pan link.cpp:727-729).
NET_send_move_request(c) == rebuilding' = rebuilding \cup {c}

\* A coordinator learns that it could not deliver a packet: without its
\* parent it looks for another one.  For a packet to its own child
\* get_next_coord returns an uninitialised variable.
LINK_error_handler_coord(c, d) ==
  \/ c = 0 /\ UNCHANGED rebuilding
  \/ /\ c \notin {0, d}
     /\ \/ NextCoord(c, d) = top[c] /\ NET_send_move_request(c)
        \/ NextCoord(c, d) # top[c] /\ UNCHANGED rebuilding
  \/ c # 0 /\ c = d /\ (UNCHANGED rebuilding \/ NET_send_move_request(c))

Neighbours_ParentOnly(c, from) ==
  IF c = 0 THEN tree[0][from] = 0 ELSE tree[c][c] = from

\* Whether c takes packets of coordinator from.
Neighbours(c, from) ==
  IF c = 0 THEN tree[0][from] = 0
  ELSE tree[c][c] = from \/ tree[c][from] = c

\* Whether the two can finish a handshake: the next node takes the DATA and
\* the sender takes the ACK.
CanTalk(from, to) == Neighbours(to, from) /\ Neighbours(from, to)

\* The handshake succeeds and the next node routes the packet.
HopSucceeds(p) ==
  LET r == packet[p]
  IN  /\ r.place = "hop"
      /\ CanTalk(r.at, r.to)
      /\ packet' = LINK_route(p, r.to)
      /\ UNCHANGED <<top, tree, rebuilding, tables, boots, losses>>

\* The packet is routed, but the sender never gets the COMMIT ACK.
HopUnnoticed(p) ==
  LET r == packet[p]
  IN  /\ r.place = "hop"
      /\ losses < MaxLosses /\ losses' = losses + 1
      /\ CanTalk(r.at, r.to)
      /\ packet' = LINK_route(p, r.to)
      /\ LINK_error_handler_coord(r.at, r.dcid)
      /\ UNCHANGED <<top, tree, tables, boots>>

\* The sender gives up: the next node is silent, or the sender deaf to its
\* answers, or every DATA was lost.
HopFails(p) ==
  LET r == packet[p]
  IN  /\ r.place = "hop"
      /\ \/ ~CanTalk(r.at, r.to) /\ UNCHANGED losses
         \/ losses < MaxLosses /\ losses' = losses + 1
      /\ packet' = Done(p, "lost")
      /\ LINK_error_handler_coord(r.at, r.dcid)
      /\ UNCHANGED <<top, tree, tables, boots>>

\* The child takes the packet.
ChildTakes(p) ==
  LET r == packet[p]
  IN  /\ r.place = "child" /\ top[r.ed] = r.at
      /\ packet' = Done(p, "received")
      /\ UNCHANGED <<top, tree, rebuilding, tables, boots, losses>>

\* The child is silent, or not a child.
ChildFails(p) ==
  LET r == packet[p]
  IN  /\ r.place = "child"
      /\ \/ top[r.ed] # r.at /\ UNCHANGED losses
         \/ losses < MaxLosses /\ losses' = losses + 1
      /\ packet' = Done(p, "lost")
      /\ LINK_error_handler_coord(r.at, r.dcid)
      /\ UNCHANGED <<top, tree, tables, boots>>

-----------------------------------------------------------------------------
\* The coordinators have joined, the gateway has not started yet.
Init ==
  /\ top \in Topologies
  /\ tree = [c \in Node |-> [x \in Node |-> INVALID]]
  /\ rebuilding = {}
  /\ tables = {}
  /\ packet = [p \in Packets |-> Idle]
  /\ boots = 0
  /\ losses = 0

Step(p) == ChildTakes(p) \/ ChildFails(p)
           \/ HopSucceeds(p) \/ HopFails(p) \/ HopUnnoticed(p)

Next ==
  \/ NET_init
  \/ \E m \in tables : NET_process_routing_table(m) \/ LoseTable(m)
  \/ \E p \in Packets :
       \/ \E e \in Device : GatewaySends(p, e)
       \/ \E c \in Cids, d \in Node, e \in Device \cup {NoEd} :
            CoordSends(p, c, d, e)
       \/ Step(p)

\* A packet on the air arrives or is lost, and a handshake ends: the timers
\* of the link layer see to it.
Fairness ==
  /\ WF_vars(\E m \in tables : NET_process_routing_table(m) \/ LoseTable(m))
  /\ \A p \in Packets : WF_vars(Step(p))

Spec == Init /\ [][Next]_vars /\ Fairness

-----------------------------------------------------------------------------
\* What a coordinator knows, and all that it should know.
Knows(c) == \A x \in Cids : tree[c][x] = top[x] \/ ~IsBelow(x, c)

AllKnown == tree[0][0] = 0 /\ \A c \in Cids : Knows(c)

\* Every variable has its type; nodes are only next to nodes that exist, and
\* the gateway never looks for a parent.
TypeOK ==
  /\ top \in [Device -> Node]
  /\ tree \in [Node -> [Node -> Node \cup {INVALID}]]
  /\ rebuilding \subseteq Cids
  /\ tables \subseteq Table
  /\ packet \in [Packets -> Packet]
  /\ boots \in 0..MaxBoots /\ losses \in 0..MaxLosses

\* No coordinator believes in a parent that the gateway's table does not
\* give (the tables are passed on by coordinators: coord net.c:735-760).
TreesSound == \A c, x \in Cids : tree[c][x] \in {INVALID, top[x]}

\* Once all tables have arrived and none was lost, every coordinator knows
\* all that is below it (coord net.h:71).
TablesComplete == boots > 0 /\ tables = {} /\ losses = 0 => AllKnown

\* No packet is sent to and fro for ever: it arrives or it is dropped
\* (coord net.c:519, LINK_route; the timers of the link layer).
Settles == \A p \in Packets : p \in Moving ~> p \notin Moving

\* In a network where every table has arrived and nothing is lost any more,
\* a packet reaches its destination, from wherever it is.
CalmDelivers ==
  \A p \in Packets :
    (losses = MaxLosses /\ p \in Moving /\ rebuilding = {} /\ AllKnown)
      ~> packet[p].place = "received"
=============================================================================
