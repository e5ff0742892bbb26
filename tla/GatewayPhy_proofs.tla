------------------------- MODULE GatewayPhy_proofs --------------------------
(***************************************************************************)
(* Proofs about the gateway's physical layer, with the one xfer all        *)
(* threads share, for any number of threads that send, of packets that     *)
(* the radio's thread sends for one it got, any size of the FIFO from a    *)
(* frame on, and any number of polls.                                      *)
(***************************************************************************)
EXTENDS GatewayPhy, TLAPS

-----------------------------------------------------------------------------
(* The programs.                                                           *)

Steps == SpiSteps \cup [do : {"store_mode"}, arg : Modes]
           \cup [do : {"irq"}, arg : {"on", "off"}]
           \cup [do : {"lock", "unlock", "cca", "poll", "test_mode", "drain",
                       "deliver"}, arg : {NoArg}]

LEMMA Threads ==
  /\ Radio \in Thread /\ Sender \subseteq Thread
  /\ Nobody \notin Thread
  /\ MaxPolls \in Nat /\ FifoSize \in Nat /\ FifoSize >= 2 /\ MaxAnswers \in Nat
BY GatewayPhyAssumption DEF Thread

(* The steps of the programs are steps.                                    *)
LEMMA StepTypes ==
  /\ \A m \in Modes : Writes(m) \in SpiSteps /\ Step("store_mode", m) \in Steps
  /\ \A r \in Registers : Reads(r) \in SpiSteps
  /\ Clears \in SpiSteps /\ Pushes \in SpiSteps
  /\ SpiSteps \subseteq Steps
  /\ Step("irq", "on") \in Steps /\ Step("irq", "off") \in Steps
  /\ \A op \in {"lock", "unlock", "cca", "poll", "test_mode", "drain", "deliver"} :
       Step(op, NoArg) \in Steps
BY DEF SpiSteps, Steps, Step

LEMMA DoAndArg ==
  /\ \A op, arg : Step(op, arg).do = op /\ Step(op, arg).arg = arg
  /\ \A r : Reads(r).do = "get_register" /\ Reads(r).arg = r
  /\ Clears.do = "clear_fifo" /\ Pushes.do = "write_fifo"
  /\ \A m : Writes(m).do = "set_mode" /\ Writes(m).arg = m
BY DEF Step, Reads, Clears, Writes, Pushes

LEMMA SpiKinds ==
  \A s \in SpiSteps :
    /\ s.do \in {"set_mode", "clear_fifo", "write_fifo", "get_register"}
    /\ s.do = "set_mode" => s.arg \in Modes
BY DoAndArg DEF SpiSteps

LEMMA ModesAre ==
  /\ RF_SLEEP \in Modes /\ RF_STANDBY \in Modes /\ RF_RECEIVER \in Modes
  /\ RF_TRANSMITTER \in Modes
  /\ RF_STANDBY # RF_RECEIVER /\ RF_STANDBY # RF_TRANSMITTER /\ RF_RECEIVER # RF_TRANSMITTER
BY DEF Modes, RF_SLEEP, RF_STANDBY, RF_RECEIVER, RF_TRANSMITTER

LEMMA Tuples ==
  ASSUME NEW S
  PROVE  /\ <<>> \in Seq(S)
         /\ \A a \in S : <<a>> \in Seq(S)
         /\ \A a, b \in S : <<a, b>> \in Seq(S)
         /\ \A a, b, c \in S : <<a, b, c>> \in Seq(S)
         /\ \A p, q \in Seq(S) : p \o q \in Seq(S)
OBVIOUS

LEMMA SetModeProgram ==
  ASSUME NEW m \in Modes
  PROVE  /\ set_rf_mode(m) \in Seq(Steps) /\ Len(set_rf_mode(m)) = 2
         /\ set_rf_mode(m)[1] = Writes(m)
         /\ set_rf_mode(m)[2] = Step("store_mode", m)
<1>1. Writes(m) \in Steps /\ Step("store_mode", m) \in Steps
  BY StepTypes
<1> QED BY <1>1, Tuples DEF set_rf_mode

(* r is p with q behind it.                                                *)
Joins(p, q, r, n, m) ==
  /\ Len(r) = n + m
  /\ \A i \in 1..n : r[i] = p[i]
  /\ \A i \in 1..m : r[n + i] = q[i]

LEMMA JoinAny ==
  ASSUME NEW S, NEW p \in Seq(S), NEW q \in Seq(S)
  PROVE  p \o q \in Seq(S) /\ Joins(p, q, p \o q, Len(p), Len(q))
BY DEF Joins

LEMMA Join ==
  ASSUME NEW p \in Seq(Steps), NEW q \in Seq(Steps)
  PROVE  p \o q \in Seq(Steps) /\ Joins(p, q, p \o q, Len(p), Len(q))
BY JoinAny, Zenon

(* A sequence of two elements.                                             *)
LEMMA Pair ==
  ASSUME NEW S, NEW r \in Seq(S), Len(r) = 2, NEW a, NEW b, r[1] = a, r[2] = b
  PROVE  r = <<a, b>>
<1>1. DOMAIN r = 1..2
  OBVIOUS
<1>2. 1..2 = {1, 2}
  OBVIOUS
<1> QED BY <1>1, <1>2

LEMMA JoinLens ==
  ASSUME NEW p \in Seq(Steps), NEW q \in Seq(Steps), NEW n, NEW m,
         Len(p) = n, Len(q) = m
  PROVE  p \o q \in Seq(Steps) /\ Joins(p, q, p \o q, n, m)
BY Join, Zenon

LEMMA AppendAny ==
  ASSUME NEW S, NEW q \in Seq(S), NEW a \in S
  PROVE  /\ Append(q, a) \in Seq(S) /\ Len(Append(q, a)) = Len(q) + 1
         /\ Append(q, a)[Len(q) + 1] = a
         /\ \A i \in 1..Len(q) : Append(q, a)[i] = q[i]
OBVIOUS

LEMMA AppendToOne ==
  ASSUME NEW S, NEW q \in Seq(S), NEW a \in S, NEW b, Len(q) = 1, q[1] = b
  PROVE  Append(q, a) = <<b, a>>
<1>1. /\ Append(q, a) \in Seq(S) /\ Len(Append(q, a)) = Len(q) + 1 /\ Append(q, a)[Len(q) + 1] = a
      /\ \A i \in 1..Len(q) : Append(q, a)[i] = q[i]
  BY AppendAny
<1>2. PICK r : r = Append(q, a)
  OBVIOUS
<1>3. r \in Seq(S) /\ Len(r) = 2 /\ r[2] = a /\ r[1] = b
  <2>1. /\ r \in Seq(S) /\ Len(r) = Len(q) + 1 /\ r[Len(q) + 1] = a
        /\ \A i \in 1..Len(q) : r[i] = q[i]
    BY <1>1, <1>2, Zenon
  <2> QED BY <2>1
<1>4. r = <<b, a>>
  BY <1>3, Pair
<1> QED BY <1>2, <1>4, Zenon

(* The nineteen steps of PHY_send_with_cca.                                *)
LEMMA SendProgram ==
    /\ Len(PHY_send_with_cca) = 19
    /\ PHY_send_with_cca[1] = Step("lock", NoArg)
    /\ PHY_send_with_cca[2] = Reads("RSTSREG")
    /\ PHY_send_with_cca[3] = Step("cca", NoArg)
    /\ PHY_send_with_cca[4] = Step("irq", "off")
    /\ PHY_send_with_cca[5] = Writes(RF_STANDBY)
    /\ PHY_send_with_cca[6] = Step("store_mode", RF_STANDBY)
    /\ PHY_send_with_cca[7] = Clears
    /\ PHY_send_with_cca[8] = Pushes
    /\ PHY_send_with_cca[9] = Pushes
    /\ PHY_send_with_cca[10] = Writes(RF_TRANSMITTER)
    /\ PHY_send_with_cca[11] = Step("store_mode", RF_TRANSMITTER)
    /\ PHY_send_with_cca[12] = Step("irq", "on")
    /\ PHY_send_with_cca[13] = Reads("FTPRIREG")
    /\ PHY_send_with_cca[14] = Step("poll", NoArg)
    /\ PHY_send_with_cca[15] = Writes(RF_STANDBY)
    /\ PHY_send_with_cca[16] = Step("store_mode", RF_STANDBY)
    /\ PHY_send_with_cca[17] = Writes(RF_RECEIVER)
    /\ PHY_send_with_cca[18] = Step("store_mode", RF_RECEIVER)
    /\ PHY_send_with_cca[19] = Step("unlock", NoArg)
<1> DEFINE standby  == set_rf_mode(RF_STANDBY)
           transmit == set_rf_mode(RF_TRANSMITTER)
           receive  == set_rf_mode(RF_RECEIVER)
           begin    == <<Step("lock", NoArg), Reads("RSTSREG"), Step("cca", NoArg)>>
           off      == <<Step("irq", "off")>>
           load     == <<Clears, Pushes, Pushes>>
           await    == <<Step("irq", "on"), Reads("FTPRIREG"), Step("poll", NoArg)>>
           end      == <<Step("unlock", NoArg)>>
           p1 == off \o standby
           p2 == p1 \o load
           p3 == p2 \o transmit
           p4 == p3 \o await
           p5 == p4 \o standby
           p6 == p5 \o receive
           p7 == begin \o p6
           p8 == p7 \o end
<1>1. RF_STANDBY \in Modes /\ RF_TRANSMITTER \in Modes /\ RF_RECEIVER \in Modes
  BY DEF Modes
<1>2. /\ Reads("RSTSREG") \in Steps /\ Reads("FTPRIREG") \in Steps /\ Clears \in Steps /\ Pushes \in Steps
      /\ Step("lock", NoArg) \in Steps /\ Step("cca", NoArg) \in Steps
      /\ Step("irq", "off") \in Steps /\ Step("irq", "on") \in Steps
      /\ Step("poll", NoArg) \in Steps /\ Step("unlock", NoArg) \in Steps
  BY StepTypes DEF Registers
<1>3. /\ begin \in Seq(Steps)
      /\ Len(begin) = 3 /\ begin[1] = Step("lock", NoArg) /\ begin[2] = Reads("RSTSREG")
      /\ begin[3] = Step("cca", NoArg)
  BY <1>2, Tuples
<1>4. /\ off \in Seq(Steps)
      /\ Len(off) = 1 /\ off[1] = Step("irq", "off")
  BY <1>2, Tuples
<1>5. /\ load \in Seq(Steps)
      /\ Len(load) = 3 /\ load[1] = Clears /\ load[2] = Pushes
      /\ load[3] = Pushes
  BY <1>2, Tuples
<1>6. /\ await \in Seq(Steps)
      /\ Len(await) = 3 /\ await[1] = Step("irq", "on") /\ await[2] = Reads("FTPRIREG")
      /\ await[3] = Step("poll", NoArg)
  BY <1>2, Tuples
<1>7. /\ end \in Seq(Steps)
      /\ Len(end) = 1 /\ end[1] = Step("unlock", NoArg)
  BY <1>2, Tuples
<1>8. /\ standby \in Seq(Steps)
      /\ Len(standby) = 2 /\ standby[1] = Writes(RF_STANDBY)
      /\ standby[2] = Step("store_mode", RF_STANDBY)
      /\ transmit \in Seq(Steps)
      /\ Len(transmit) = 2 /\ transmit[1] = Writes(RF_TRANSMITTER)
      /\ transmit[2] = Step("store_mode", RF_TRANSMITTER)
      /\ receive \in Seq(Steps)
      /\ Len(receive) = 2 /\ receive[1] = Writes(RF_RECEIVER)
      /\ receive[2] = Step("store_mode", RF_RECEIVER)
  BY <1>1, SetModeProgram
<1>9. PHY_send_with_cca = p8
  BY Zenon DEF PHY_send_with_cca, PHY_send
<1> HIDE DEF standby, transmit, receive, begin, off, load, await, end
<1>10. /\ p1 \in Seq(Steps)
       /\ Len(p1) = 3 /\ p1[1] = Step("irq", "off")
       /\ p1[2] = Writes(RF_STANDBY)
       /\ p1[3] = Step("store_mode", RF_STANDBY)
  <2>1. p1 \in Seq(Steps) /\ Joins(off, standby, p1, 1, 2)
    BY <1>4, <1>8, JoinLens, Zenon
  <2> HIDE DEF p1
  <2>2. \A i \in 1..1 : p1[i] = off[i]
    BY <2>1 DEF Joins
  <2>3.
        /\ p1[1] = off[1]
    BY <2>2
  <2>4.
        /\ p1[2] = standby[1] /\ p1[3] = standby[2]
    BY <2>1 DEF Joins
  <2>5. Len(p1) = 3
    BY <2>1 DEF Joins
  <2> QED BY <1>4, <1>8, <2>1, <2>3, <2>4, <2>5
<1> HIDE DEF p1
<1>11. /\ p2 \in Seq(Steps)
       /\ Len(p2) = 6 /\ p2[1] = Step("irq", "off")
       /\ p2[2] = Writes(RF_STANDBY)
       /\ p2[3] = Step("store_mode", RF_STANDBY) /\ p2[4] = Clears
       /\ p2[5] = Pushes /\ p2[6] = Pushes
  <2>1. p2 \in Seq(Steps) /\ Joins(p1, load, p2, 3, 3)
    BY <1>10, <1>5, JoinLens, Zenon
  <2> HIDE DEF p2
  <2>2. \A i \in 1..3 : p2[i] = p1[i]
    BY <2>1 DEF Joins
  <2>3.
        /\ p2[1] = p1[1] /\ p2[2] = p1[2] /\ p2[3] = p1[3]
    BY <2>2
  <2>4.
        /\ p2[4] = load[1] /\ p2[5] = load[2] /\ p2[6] = load[3]
    BY <2>1 DEF Joins
  <2>5. Len(p2) = 6
    BY <2>1 DEF Joins
  <2> QED BY <1>10, <1>5, <2>1, <2>3, <2>4, <2>5
<1> HIDE DEF p2
<1>12. /\ p3 \in Seq(Steps)
       /\ Len(p3) = 8 /\ p3[1] = Step("irq", "off")
       /\ p3[2] = Writes(RF_STANDBY)
       /\ p3[3] = Step("store_mode", RF_STANDBY) /\ p3[4] = Clears
       /\ p3[5] = Pushes /\ p3[6] = Pushes
       /\ p3[7] = Writes(RF_TRANSMITTER)
       /\ p3[8] = Step("store_mode", RF_TRANSMITTER)
  <2>1. p3 \in Seq(Steps) /\ Joins(p2, transmit, p3, 6, 2)
    BY <1>11, <1>8, JoinLens, Zenon
  <2> HIDE DEF p3
  <2>2. \A i \in 1..6 : p3[i] = p2[i]
    BY <2>1 DEF Joins
  <2>3.
        /\ p3[1] = p2[1] /\ p3[2] = p2[2] /\ p3[3] = p2[3] /\ p3[4] = p2[4]
        /\ p3[5] = p2[5] /\ p3[6] = p2[6]
    BY <2>2
  <2>4.
        /\ p3[7] = transmit[1] /\ p3[8] = transmit[2]
    BY <2>1 DEF Joins
  <2>5. Len(p3) = 8
    BY <2>1 DEF Joins
  <2> QED BY <1>11, <1>8, <2>1, <2>3, <2>4, <2>5
<1> HIDE DEF p3
<1>13. /\ p4 \in Seq(Steps)
       /\ Len(p4) = 11 /\ p4[1] = Step("irq", "off")
       /\ p4[2] = Writes(RF_STANDBY)
       /\ p4[3] = Step("store_mode", RF_STANDBY) /\ p4[4] = Clears
       /\ p4[5] = Pushes /\ p4[6] = Pushes
       /\ p4[7] = Writes(RF_TRANSMITTER)
       /\ p4[8] = Step("store_mode", RF_TRANSMITTER)
       /\ p4[9] = Step("irq", "on") /\ p4[10] = Reads("FTPRIREG")
       /\ p4[11] = Step("poll", NoArg)
  <2>1. p4 \in Seq(Steps) /\ Joins(p3, await, p4, 8, 3)
    BY <1>12, <1>6, JoinLens, Zenon
  <2> HIDE DEF p4
  <2>2. \A i \in 1..8 : p4[i] = p3[i]
    BY <2>1 DEF Joins
  <2>3.
        /\ p4[1] = p3[1] /\ p4[2] = p3[2] /\ p4[3] = p3[3] /\ p4[4] = p3[4]
        /\ p4[5] = p3[5] /\ p4[6] = p3[6] /\ p4[7] = p3[7] /\ p4[8] = p3[8]
    BY <2>2
  <2>4.
        /\ p4[9] = await[1] /\ p4[10] = await[2] /\ p4[11] = await[3]
    BY <2>1 DEF Joins
  <2>5. Len(p4) = 11
    BY <2>1 DEF Joins
  <2> QED BY <1>12, <1>6, <2>1, <2>3, <2>4, <2>5
<1> HIDE DEF p4
<1>14. /\ p5 \in Seq(Steps)
       /\ Len(p5) = 13 /\ p5[1] = Step("irq", "off")
       /\ p5[2] = Writes(RF_STANDBY)
       /\ p5[3] = Step("store_mode", RF_STANDBY) /\ p5[4] = Clears
       /\ p5[5] = Pushes /\ p5[6] = Pushes
       /\ p5[7] = Writes(RF_TRANSMITTER)
       /\ p5[8] = Step("store_mode", RF_TRANSMITTER)
       /\ p5[9] = Step("irq", "on") /\ p5[10] = Reads("FTPRIREG")
       /\ p5[11] = Step("poll", NoArg) /\ p5[12] = Writes(RF_STANDBY)
       /\ p5[13] = Step("store_mode", RF_STANDBY)
  <2>1. p5 \in Seq(Steps) /\ Joins(p4, standby, p5, 11, 2)
    BY <1>13, <1>8, JoinLens, Zenon
  <2> HIDE DEF p5
  <2>2. \A i \in 1..11 : p5[i] = p4[i]
    BY <2>1 DEF Joins
  <2>3.
        /\ p5[1] = p4[1] /\ p5[2] = p4[2] /\ p5[3] = p4[3] /\ p5[4] = p4[4]
        /\ p5[5] = p4[5] /\ p5[6] = p4[6] /\ p5[7] = p4[7] /\ p5[8] = p4[8]
        /\ p5[9] = p4[9] /\ p5[10] = p4[10] /\ p5[11] = p4[11]
    BY <2>2
  <2>4.
        /\ p5[12] = standby[1] /\ p5[13] = standby[2]
    BY <2>1 DEF Joins
  <2>5. Len(p5) = 13
    BY <2>1 DEF Joins
  <2> QED BY <1>13, <1>8, <2>1, <2>3, <2>4, <2>5
<1> HIDE DEF p5
<1>15. /\ p6 \in Seq(Steps)
       /\ Len(p6) = 15 /\ p6[1] = Step("irq", "off")
       /\ p6[2] = Writes(RF_STANDBY)
       /\ p6[3] = Step("store_mode", RF_STANDBY) /\ p6[4] = Clears
       /\ p6[5] = Pushes /\ p6[6] = Pushes
       /\ p6[7] = Writes(RF_TRANSMITTER)
       /\ p6[8] = Step("store_mode", RF_TRANSMITTER)
       /\ p6[9] = Step("irq", "on") /\ p6[10] = Reads("FTPRIREG")
       /\ p6[11] = Step("poll", NoArg) /\ p6[12] = Writes(RF_STANDBY)
       /\ p6[13] = Step("store_mode", RF_STANDBY)
       /\ p6[14] = Writes(RF_RECEIVER)
       /\ p6[15] = Step("store_mode", RF_RECEIVER)
  <2>1. p6 \in Seq(Steps) /\ Joins(p5, receive, p6, 13, 2)
    BY <1>14, <1>8, JoinLens, Zenon
  <2> HIDE DEF p6
  <2>2. \A i \in 1..13 : p6[i] = p5[i]
    BY <2>1 DEF Joins
  <2>3.
        /\ p6[1] = p5[1] /\ p6[2] = p5[2] /\ p6[3] = p5[3] /\ p6[4] = p5[4]
        /\ p6[5] = p5[5] /\ p6[6] = p5[6] /\ p6[7] = p5[7] /\ p6[8] = p5[8]
        /\ p6[9] = p5[9] /\ p6[10] = p5[10] /\ p6[11] = p5[11]
        /\ p6[12] = p5[12] /\ p6[13] = p5[13]
    BY <2>2
  <2>4.
        /\ p6[14] = receive[1] /\ p6[15] = receive[2]
    BY <2>1 DEF Joins
  <2>5. Len(p6) = 15
    BY <2>1 DEF Joins
  <2> QED BY <1>14, <1>8, <2>1, <2>3, <2>4, <2>5
<1> HIDE DEF p6
<1>16. /\ p7 \in Seq(Steps)
       /\ Len(p7) = 18 /\ p7[1] = Step("lock", NoArg) /\ p7[2] = Reads("RSTSREG")
       /\ p7[3] = Step("cca", NoArg) /\ p7[4] = Step("irq", "off")
       /\ p7[5] = Writes(RF_STANDBY)
       /\ p7[6] = Step("store_mode", RF_STANDBY) /\ p7[7] = Clears
       /\ p7[8] = Pushes /\ p7[9] = Pushes
       /\ p7[10] = Writes(RF_TRANSMITTER)
       /\ p7[11] = Step("store_mode", RF_TRANSMITTER)
       /\ p7[12] = Step("irq", "on") /\ p7[13] = Reads("FTPRIREG")
       /\ p7[14] = Step("poll", NoArg) /\ p7[15] = Writes(RF_STANDBY)
       /\ p7[16] = Step("store_mode", RF_STANDBY)
       /\ p7[17] = Writes(RF_RECEIVER)
       /\ p7[18] = Step("store_mode", RF_RECEIVER)
  <2>1. p7 \in Seq(Steps) /\ Joins(begin, p6, p7, 3, 15)
    BY <1>3, <1>15, JoinLens, Zenon
  <2> HIDE DEF p7
  <2>2. \A i \in 1..3 : p7[i] = begin[i]
    BY <2>1 DEF Joins
  <2>3.
        /\ p7[1] = begin[1] /\ p7[2] = begin[2] /\ p7[3] = begin[3]
    BY <2>2
  <2>4.
        /\ p7[4] = p6[1] /\ p7[5] = p6[2] /\ p7[6] = p6[3] /\ p7[7] = p6[4]
        /\ p7[8] = p6[5] /\ p7[9] = p6[6] /\ p7[10] = p6[7]
        /\ p7[11] = p6[8] /\ p7[12] = p6[9] /\ p7[13] = p6[10]
        /\ p7[14] = p6[11] /\ p7[15] = p6[12] /\ p7[16] = p6[13]
        /\ p7[17] = p6[14] /\ p7[18] = p6[15]
    BY <2>1 DEF Joins
  <2>5. Len(p7) = 18
    BY <2>1 DEF Joins
  <2> QED BY <1>3, <1>15, <2>1, <2>3, <2>4, <2>5
<1> HIDE DEF p7
<1>17. /\ p8 \in Seq(Steps)
       /\ Len(p8) = 19 /\ p8[1] = Step("lock", NoArg) /\ p8[2] = Reads("RSTSREG")
       /\ p8[3] = Step("cca", NoArg) /\ p8[4] = Step("irq", "off")
       /\ p8[5] = Writes(RF_STANDBY)
       /\ p8[6] = Step("store_mode", RF_STANDBY) /\ p8[7] = Clears
       /\ p8[8] = Pushes /\ p8[9] = Pushes
       /\ p8[10] = Writes(RF_TRANSMITTER)
       /\ p8[11] = Step("store_mode", RF_TRANSMITTER)
       /\ p8[12] = Step("irq", "on") /\ p8[13] = Reads("FTPRIREG")
       /\ p8[14] = Step("poll", NoArg) /\ p8[15] = Writes(RF_STANDBY)
       /\ p8[16] = Step("store_mode", RF_STANDBY)
       /\ p8[17] = Writes(RF_RECEIVER)
       /\ p8[18] = Step("store_mode", RF_RECEIVER)
       /\ p8[19] = Step("unlock", NoArg)
  <2>1. p8 \in Seq(Steps) /\ Joins(p7, end, p8, 18, 1)
    BY <1>16, <1>7, JoinLens, Zenon
  <2> HIDE DEF p8
  <2>2. \A i \in 1..18 : p8[i] = p7[i]
    BY <2>1 DEF Joins
  <2>3.
        /\ p8[1] = p7[1] /\ p8[2] = p7[2] /\ p8[3] = p7[3] /\ p8[4] = p7[4]
        /\ p8[5] = p7[5] /\ p8[6] = p7[6] /\ p8[7] = p7[7] /\ p8[8] = p7[8]
        /\ p8[9] = p7[9] /\ p8[10] = p7[10] /\ p8[11] = p7[11]
        /\ p8[12] = p7[12] /\ p8[13] = p7[13] /\ p8[14] = p7[14]
        /\ p8[15] = p7[15] /\ p8[16] = p7[16] /\ p8[17] = p7[17]
        /\ p8[18] = p7[18]
    BY <2>2
  <2>4.
        /\ p8[19] = end[1]
    BY <2>1 DEF Joins
  <2>5. Len(p8) = 19
    BY <2>1 DEF Joins
  <2> QED BY <1>16, <1>7, <2>1, <2>3, <2>4, <2>5
<1> QED BY <1>9, <1>17, Zenon

(* The nine steps of HW_irq1_occurred.                                     *)
LEMMA IrqProgram ==
  /\ Len(HW_irq1_occurred) = 9
  /\ HW_irq1_occurred[1] = Step("test_mode", NoArg)
  /\ HW_irq1_occurred[2] = Reads("RSTSREG")
  /\ HW_irq1_occurred[3] = Step("lock", NoArg)
  /\ HW_irq1_occurred[4] = Step("irq", "off")
  /\ HW_irq1_occurred[5] = Reads("FTXRXIREG")
  /\ HW_irq1_occurred[6] = Step("drain", NoArg)
  /\ HW_irq1_occurred[7] = Step("irq", "on")
  /\ HW_irq1_occurred[8] = Step("unlock", NoArg)
  /\ HW_irq1_occurred[9] = Step("deliver", NoArg)
BY DEF HW_irq1_occurred

-----------------------------------------------------------------------------
(* From the number of a step to the step itself, and back.                 *)

(* A thread that is not idle is at a step of its program.                  *)
Placed ==
  /\ at \in [Thread -> 0..19]
  /\ handling \in BOOLEAN
  /\ handling => at[Radio] \in 1..9

LEMMA Places ==
  ASSUME Placed, NEW t \in Thread
  PROVE  /\ at[t] \in 0..19
         /\ Handles(t) => at[t] \in 1..9 /\ Len(Program(t)) = 9
         /\ ~Handles(t) => Len(Program(t)) = 19
BY SendProgram, IrqProgram DEF Placed, Handles, Program

(* The steps of a thread that sends.                                       *)
LEMMA SendStep ==
  ASSUME NEW t, ~Handles(t)
  PROVE  /\ at[t] = 1 => NextStep(t) = Step("lock", NoArg)
         /\ at[t] = 2 => NextStep(t) = Reads("RSTSREG")
         /\ at[t] = 3 => NextStep(t) = Step("cca", NoArg)
         /\ at[t] = 4 => NextStep(t) = Step("irq", "off")
         /\ at[t] \in {5, 15} => NextStep(t) = Writes(RF_STANDBY)
         /\ at[t] \in {6, 16} => NextStep(t) = Step("store_mode", RF_STANDBY)
         /\ at[t] = 7 => NextStep(t) = Clears
         /\ at[t] \in {8, 9} => NextStep(t) = Pushes
         /\ at[t] = 10 => NextStep(t) = Writes(RF_TRANSMITTER)
         /\ at[t] = 11 => NextStep(t) = Step("store_mode", RF_TRANSMITTER)
         /\ at[t] = 12 => NextStep(t) = Step("irq", "on")
         /\ at[t] = 13 => NextStep(t) = Reads("FTPRIREG")
         /\ at[t] = 14 => NextStep(t) = Step("poll", NoArg)
         /\ at[t] = 17 => NextStep(t) = Writes(RF_RECEIVER)
         /\ at[t] = 18 => NextStep(t) = Step("store_mode", RF_RECEIVER)
         /\ at[t] = 19 => NextStep(t) = Step("unlock", NoArg)
<1> DEFINE p == PHY_send_with_cca  s == NextStep(t)  n == at[t]
<1>1. s = p[n]
  BY DEF NextStep, Program
<1>2. /\ p[1] = Step("lock", NoArg) /\ p[2] = Reads("RSTSREG")
      /\ p[3] = Step("cca", NoArg) /\ p[4] = Step("irq", "off")
      /\ p[5] = Writes(RF_STANDBY) /\ p[15] = Writes(RF_STANDBY)
      /\ p[6] = Step("store_mode", RF_STANDBY) /\ p[16] = Step("store_mode", RF_STANDBY)
      /\ p[7] = Clears /\ p[8] = Pushes /\ p[9] = Pushes
  BY SendProgram, Zenon
<1>3. /\ p[10] = Writes(RF_TRANSMITTER) /\ p[11] = Step("store_mode", RF_TRANSMITTER)
      /\ p[12] = Step("irq", "on") /\ p[13] = Reads("FTPRIREG")
      /\ p[14] = Step("poll", NoArg) /\ p[17] = Writes(RF_RECEIVER)
      /\ p[18] = Step("store_mode", RF_RECEIVER) /\ p[19] = Step("unlock", NoArg)
  BY SendProgram, Zenon
<1> HIDE DEF p, s, n
<1>4. /\ n = 1 => s = Step("lock", NoArg)
      /\ n = 2 => s = Reads("RSTSREG")
      /\ n = 3 => s = Step("cca", NoArg)
      /\ n = 4 => s = Step("irq", "off")
      /\ n \in {5, 15} => s = Writes(RF_STANDBY)
      /\ n \in {6, 16} => s = Step("store_mode", RF_STANDBY)
      /\ n = 7 => s = Clears
      /\ n \in {8, 9} => s = Pushes
  BY <1>1, <1>2
<1>5. /\ n = 10 => s = Writes(RF_TRANSMITTER)
      /\ n = 11 => s = Step("store_mode", RF_TRANSMITTER)
      /\ n = 12 => s = Step("irq", "on")
      /\ n = 13 => s = Reads("FTPRIREG")
      /\ n = 14 => s = Step("poll", NoArg)
      /\ n = 17 => s = Writes(RF_RECEIVER)
      /\ n = 18 => s = Step("store_mode", RF_RECEIVER)
      /\ n = 19 => s = Step("unlock", NoArg)
  BY <1>1, <1>3
<1> QED BY <1>4, <1>5, Zenon DEF s, n

(* The steps of the radio's thread in HW_irq1_occurred.                    *)
LEMMA IrqStep ==
  ASSUME NEW t, Handles(t)
  PROVE  /\ at[t] = 1 => NextStep(t) = Step("test_mode", NoArg)
         /\ at[t] = 2 => NextStep(t) = Reads("RSTSREG")
         /\ at[t] = 3 => NextStep(t) = Step("lock", NoArg)
         /\ at[t] = 4 => NextStep(t) = Step("irq", "off")
         /\ at[t] = 5 => NextStep(t) = Reads("FTXRXIREG")
         /\ at[t] = 6 => NextStep(t) = Step("drain", NoArg)
         /\ at[t] = 7 => NextStep(t) = Step("irq", "on")
         /\ at[t] = 8 => NextStep(t) = Step("unlock", NoArg)
         /\ at[t] = 9 => NextStep(t) = Step("deliver", NoArg)
<1>1. NextStep(t) = HW_irq1_occurred[at[t]]
  BY DEF NextStep, Program
<1> QED BY <1>1, IrqProgram

(* Where a thread can be, by what it is about to do.                       *)
LEMMA SendAt ==
  ASSUME Placed, NEW t \in Thread, ~Handles(t)
  PROVE  /\ At(t, "lock") => at[t] = 1
         /\ At(t, "cca") => at[t] = 3
         /\ At(t, "irq") => \/ at[t] = 4 /\ NextStep(t).arg = "off"
                            \/ at[t] = 12 /\ NextStep(t).arg = "on"
         /\ At(t, "store_mode") =>
              \/ at[t] \in {6, 16} /\ NextStep(t).arg = RF_STANDBY
              \/ at[t] = 11 /\ NextStep(t).arg = RF_TRANSMITTER
              \/ at[t] = 18 /\ NextStep(t).arg = RF_RECEIVER
         /\ At(t, "poll") => at[t] = 14
         /\ At(t, "unlock") => at[t] = 19
         /\ ~At(t, "drain") /\ ~At(t, "deliver") /\ ~At(t, "test_mode")
         /\ at[t] # 0 /\ NextStep(t) \in SpiSteps =>
              at[t] \in {2, 5, 7, 8, 9, 10, 13, 15, 17}
<1> DEFINE s == NextStep(t)  n == at[t]
<1>1. /\ n = 1 => s.do = "lock"
      /\ n \in {2, 13} => s.do = "get_register"
      /\ n = 3 => s.do = "cca"
      /\ n = 4 => s.do = "irq" /\ s.arg = "off"
      /\ n \in {5, 10, 15, 17} => s.do = "set_mode"
      /\ n \in {6, 16} => s.do = "store_mode" /\ s.arg = RF_STANDBY
  BY SendStep, DoAndArg
<1>2. /\ n = 7 => s.do = "clear_fifo"
      /\ n \in {8, 9} => s.do = "write_fifo"
      /\ n = 11 => s.do = "store_mode" /\ s.arg = RF_TRANSMITTER
      /\ n = 12 => s.do = "irq" /\ s.arg = "on"
      /\ n = 14 => s.do = "poll"
      /\ n = 18 => s.do = "store_mode" /\ s.arg = RF_RECEIVER
      /\ n = 19 => s.do = "unlock"
  BY SendStep, DoAndArg
<1>3. n \in 0..19
  BY DEF Placed
<1> HIDE DEF s, n
<1>4. n # 0 =>
        /\ s.do = "lock" => n = 1
        /\ s.do = "cca" => n = 3
        /\ s.do = "irq" => n = 4 \/ n = 12
        /\ s.do = "poll" => n = 14
        /\ s.do = "unlock" => n = 19
  BY <1>1, <1>2, <1>3
<1>5. n # 0 /\ s.do = "store_mode" =>
        \/ n \in {6, 16} /\ s.arg = RF_STANDBY
        \/ n = 11 /\ s.arg = RF_TRANSMITTER
        \/ n = 18 /\ s.arg = RF_RECEIVER
  BY <1>1, <1>2, <1>3
<1>6. n # 0 => s.do \notin {"drain", "deliver", "test_mode"}
  BY <1>1, <1>2, <1>3
<1>7. n # 0 /\ s \in SpiSteps => n \in {2, 5, 7, 8, 9, 10, 13, 15, 17}
  <2>1. s \in SpiSteps => s.do \in {"set_mode", "clear_fifo", "write_fifo", "get_register"}
    BY SpiKinds
  <2> QED BY <1>1, <1>2, <1>3, <2>1
<1>8. n # 0 /\ s.do = "irq" => (n = 4 /\ s.arg = "off") \/ (n = 12 /\ s.arg = "on")
  BY <1>1, <1>2, <1>4, Zenon
<1> QED BY <1>4, <1>5, <1>6, <1>7, <1>8 DEF At, s, n

LEMMA IrqAt ==
  ASSUME Placed, NEW t \in Thread, Handles(t)
  PROVE  /\ At(t, "test_mode") => at[t] = 1
         /\ At(t, "lock") => at[t] = 3
         /\ At(t, "irq") => \/ at[t] = 4 /\ NextStep(t).arg = "off"
                            \/ at[t] = 7 /\ NextStep(t).arg = "on"
         /\ At(t, "drain") => at[t] = 6
         /\ At(t, "unlock") => at[t] = 8
         /\ At(t, "deliver") => at[t] = 9
         /\ ~At(t, "cca") /\ ~At(t, "poll") /\ ~At(t, "store_mode")
         /\ NextStep(t) \in SpiSteps => at[t] \in {2, 5}
<1> DEFINE s == NextStep(t)  n == at[t]
<1>1. /\ n = 1 => s.do = "test_mode"
      /\ n \in {2, 5} => s.do = "get_register"
      /\ n = 3 => s.do = "lock"
      /\ n = 4 => s.do = "irq" /\ s.arg = "off"
      /\ n = 6 => s.do = "drain"
      /\ n = 7 => s.do = "irq" /\ s.arg = "on"
      /\ n = 8 => s.do = "unlock"
      /\ n = 9 => s.do = "deliver"
  BY IrqStep, DoAndArg
<1>2. n \in 1..9
  BY Places
<1> HIDE DEF s, n
<1>3. s \in SpiSteps => s.do \in {"set_mode", "clear_fifo", "write_fifo", "get_register"}
  BY SpiKinds
<1>4. /\ s.do = "test_mode" => n = 1
      /\ s.do = "lock" => n = 3
      /\ s.do = "irq" => n = 4 \/ n = 7
      /\ s.do = "drain" => n = 6
      /\ s.do = "unlock" => n = 8
      /\ s.do = "deliver" => n = 9
      /\ s.do \notin {"cca", "poll", "store_mode"}
      /\ s \in SpiSteps => n \in {2, 5}
  BY <1>1, <1>2, <1>3
<1>5. s.do = "irq" => (n = 4 /\ s.arg = "off") \/ (n = 7 /\ s.arg = "on")
  BY <1>1, <1>4, Zenon
<1> QED BY <1>4, <1>5 DEF At, s, n

-----------------------------------------------------------------------------
(* What a step does to the places of the threads.                          *)

(* A thread that has described a transfer in xfer is about to make one.    *)
FilledAtSpi == \A t \in filled : at[t] # 0 /\ NextStep(t) \in SpiSteps

SpiType == filled \subseteq Thread /\ xfer \in SpiSteps /\ mixed \in BOOLEAN

CallType == answers \in 0..MaxAnswers /\ reg \in [Thread -> BOOLEAN] /\ polls \in 0..MaxPolls

LayerType ==
  /\ mm \in Thread \cup {Nobody}
  /\ mode \in Modes /\ irq \in BOOLEAN
  /\ received \in Seq(Bytes)

ChipType ==
  /\ hw_mode \in Modes
  /\ fifo \in Seq(Bytes) /\ Len(fifo) <= FifoSize
  /\ tx_done \in BOOLEAN /\ edge \in BOOLEAN

TypeInv == Placed /\ FilledAtSpi /\ SpiType /\ CallType /\ LayerType /\ ChipType

LEMMA TypeParts ==
  TypeOK <=> /\ at \in [Thread -> 0..19] /\ handling \in BOOLEAN
             /\ SpiType /\ CallType /\ LayerType /\ ChipType
BY SendProgram, Zenon DEF TypeOK, SpiType, CallType, LayerType, ChipType

Goes(t, a, b) == at[t] = a /\ at' = [at EXCEPT ![t] = b]

SendMove(t) ==
  \/ Send(t) /\ Goes(t, 0, 1)
  \/ Lock(t) /\ Goes(t, 1, 2)
  \/ QuietAir(t) /\ Goes(t, 3, 4)
  \/ NoisyAir(t) /\ Goes(t, 3, 2)
  \/ SetIrq(t) /\ irq' = FALSE /\ Goes(t, 4, 5)
  \/ SetIrq(t) /\ irq' = TRUE /\ Goes(t, 12, 13)
  \/ StoreMode(t) /\ mode' = RF_STANDBY /\ Goes(t, 6, 7)
  \/ StoreMode(t) /\ mode' = RF_STANDBY /\ Goes(t, 16, 17)
  \/ StoreMode(t) /\ mode' = RF_TRANSMITTER /\ Goes(t, 11, 12)
  \/ StoreMode(t) /\ mode' = RF_RECEIVER /\ Goes(t, 18, 19)
  \/ Poll(t) /\ Goes(t, 14, 15)
  \/ Poll(t) /\ Goes(t, 14, 13)
  \/ \E n \in {2, 5, 7, 8, 9, 10, 13, 15, 17} : ioctl(t) /\ Goes(t, n, n + 1)
  \/ Unlock(t) /\ Goes(t, 19, 0)

IrqMove ==
  \/ TestMode /\ handling' = TRUE /\ Goes(Radio, 1, 2)
  \/ TestMode /\ handling' = FALSE /\ Goes(Radio, 1, 0)
  \/ ioctl(Radio) /\ handling' = TRUE /\ Goes(Radio, 2, 3)
  \/ Lock(Radio) /\ handling' = TRUE /\ Goes(Radio, 3, 4)
  \/ SetIrq(Radio) /\ irq' = FALSE /\ handling' = TRUE /\ Goes(Radio, 4, 5)
  \/ ioctl(Radio) /\ handling' = TRUE /\ Goes(Radio, 5, 6)
  \/ Drain /\ handling' = TRUE /\ reg[Radio] /\ Goes(Radio, 6, 5)
  \/ Drain /\ handling' = TRUE /\ ~reg[Radio] /\ Goes(Radio, 6, 7)
  \/ SetIrq(Radio) /\ irq' = TRUE /\ handling' = TRUE /\ Goes(Radio, 7, 8)
  \/ Unlock(Radio) /\ handling' = TRUE /\ Goes(Radio, 8, 9)
  \/ Deliver /\ handling' = FALSE /\ Goes(Radio, 9, 0)

(* No thread gets on in its program.                                       *)
Stays ==
  /\ UNCHANGED <<at, handling, mm, mode, irq, received>>
  /\ \/ on_irq1_event \/ PacketArrives \/ Transmits \/ UNCHANGED vars
     \/ \E t \in Thread : Fill(t)

Moves ==
  \/ Stays
  \/ /\ on_irq1_event /\ ~handling /\ handling' = TRUE /\ Goes(Radio, 0, 1)
     /\ UNCHANGED <<mm, mode, irq, received>>
  \/ \E t \in Thread : ~Handles(t) /\ handling' = handling /\ SendMove(t)
  \/ handling /\ IrqMove

LEMMA AdvanceGoes ==
  ASSUME Placed, NEW t \in Thread, at[t] # 0, Advance(t)
  PROVE  /\ ~Handles(t) => Goes(t, at[t], IF at[t] = 19 THEN 0 ELSE at[t] + 1)
         /\ Handles(t) => Goes(t, at[t], IF at[t] = 9 THEN 0 ELSE at[t] + 1)
BY Places DEF Advance, Goes

LEMMA SendMoves ==
  ASSUME Placed, FilledAtSpi, NEW t \in Thread, ~Handles(t),
         \/ Send(t) \/ Lock(t) \/ Unlock(t) \/ SetIrq(t) \/ StoreMode(t) \/ Poll(t)
         \/ QuietAir(t) \/ NoisyAir(t) \/ ioctl(t)
  PROVE  handling' = handling /\ SendMove(t)
<1> DEFINE n == at[t]
<1>a. n \in 0..19
  BY Places
<1>b. ASSUME n # 0, Advance(t)
      PROVE  (n # 19 => Goes(t, n, n + 1)) /\ (n = 19 => Goes(t, 19, 0))
  BY <1>b, AdvanceGoes DEF Goes
<1>c. Again(t) => Goes(t, n, n - 1)
  BY DEF Again, Goes
<1>1. CASE Send(t)
  BY <1>1 DEF Send, Goes, SendMove
<1>2. CASE Lock(t)
  <2>1. n = 1 /\ Advance(t) /\ handling' = handling
    BY <1>2, SendAt DEF Lock
  <2> QED BY <1>2, <1>b, <2>1 DEF SendMove
<1>3. CASE Unlock(t)
  <2>1. n = 19 /\ Advance(t) /\ handling' = handling
    BY <1>3, SendAt DEF Unlock
  <2> QED BY <1>3, <1>b, <2>1 DEF SendMove
<1>4. CASE SetIrq(t)
  <2>1. Advance(t) /\ handling' = handling /\ irq' = (NextStep(t).arg = "on")
    BY <1>4 DEF SetIrq
  <2>2. \/ n = 4 /\ NextStep(t).arg = "off"
        \/ n = 12 /\ NextStep(t).arg = "on"
    BY <1>4, SendAt DEF SetIrq
  <2>3. CASE n = 4 /\ NextStep(t).arg = "off"
    <3>1. irq' = FALSE
      <4>1. "off" # "on"
        OBVIOUS
      <4> QED BY <2>1, <2>3, <4>1, Zenon
    <3>2. Goes(t, 4, 5)
      BY <1>b, <2>1, <2>3
    <3> QED BY <1>4, <2>1, <3>1, <3>2, Zenon DEF SendMove
  <2>4. CASE n = 12 /\ NextStep(t).arg = "on"
    <3>1. irq' = TRUE
      BY <2>1, <2>4, Zenon
    <3>2. Goes(t, 12, 13)
      BY <1>b, <2>1, <2>4
    <3> QED BY <1>4, <2>1, <3>1, <3>2, Zenon DEF SendMove
  <2> QED BY <2>2, <2>3, <2>4
<1>5. CASE StoreMode(t)
  <2>1. Advance(t) /\ handling' = handling /\ mode' = NextStep(t).arg
    BY <1>5 DEF StoreMode
  <2>2. \/ n \in {6, 16} /\ mode' = RF_STANDBY
        \/ n = 11 /\ mode' = RF_TRANSMITTER
        \/ n = 18 /\ mode' = RF_RECEIVER
    BY <1>5, <2>1, SendAt DEF StoreMode
  <2>3. CASE n \in {6, 16} /\ mode' = RF_STANDBY
    <3>1. (n = 6 /\ Goes(t, 6, 7)) \/ (n = 16 /\ Goes(t, 16, 17))
      BY <1>b, <2>1, <2>3
    <3> QED BY <1>5, <2>1, <2>3, <3>1, Zenon DEF SendMove
  <2>4. CASE n = 11 /\ mode' = RF_TRANSMITTER
    <3>1. Goes(t, 11, 12)
      BY <1>b, <2>1, <2>4
    <3> QED BY <1>5, <2>1, <2>4, <3>1, Zenon DEF SendMove
  <2>5. CASE n = 18 /\ mode' = RF_RECEIVER
    <3>1. Goes(t, 18, 19)
      BY <1>b, <2>1, <2>5
    <3> QED BY <1>5, <2>1, <2>5, <3>1, Zenon DEF SendMove
  <2> QED BY <2>2, <2>3, <2>4, <2>5
<1>6. CASE Poll(t)
  <2>1. n = 14 /\ (Advance(t) \/ Again(t)) /\ handling' = handling
    BY <1>6, SendAt DEF Poll
  <2>2. Goes(t, 14, 15) \/ Goes(t, 14, 13)
    BY <1>b, <1>c, <2>1
  <2> QED BY <1>6, <2>1, <2>2, Zenon DEF SendMove
<1>7. CASE QuietAir(t)
  <2>1. n = 3 /\ Advance(t) /\ handling' = handling
    BY <1>7, SendAt DEF QuietAir
  <2> QED BY <1>7, <1>b, <2>1 DEF SendMove
<1>8. CASE NoisyAir(t)
  <2>1. n = 3 /\ Again(t) /\ handling' = handling
    BY <1>8, SendAt DEF NoisyAir
  <2> QED BY <1>8, <1>c, <2>1 DEF SendMove
<1>9. CASE ioctl(t)
  <2>1. Advance(t) /\ handling' = handling /\ n # 0 /\ NextStep(t) \in SpiSteps
    BY <1>9 DEF ioctl, FilledAtSpi
  <2>2. n \in {2, 5, 7, 8, 9, 10, 13, 15, 17}
    BY <2>1, SendAt
  <2>3. Goes(t, n, n + 1)
    BY <1>b, <2>1, <2>2
  <2> QED BY <1>9, <2>1, <2>2, <2>3, Zenon DEF SendMove
<1> QED BY <1>1, <1>2, <1>3, <1>4, <1>5, <1>6, <1>7, <1>8, <1>9

LEMMA IrqMoves ==
  ASSUME Placed, FilledAtSpi, handling,
         LET t == Radio IN
         \/ Send(t) \/ Lock(t) \/ Unlock(t) \/ SetIrq(t) \/ StoreMode(t) \/ Poll(t)
         \/ QuietAir(t) \/ NoisyAir(t) \/ ioctl(t) \/ TestMode \/ Drain \/ Deliver
  PROVE  IrqMove
<1> DEFINE n == at[Radio]
<1>a. n \in 1..9 /\ Radio \in Thread /\ Handles(Radio) /\ handling = TRUE
  BY Threads DEF Placed, Handles
<1>b. ASSUME Advance(Radio)
      PROVE  (n # 9 => Goes(Radio, n, n + 1)) /\ (n = 9 => Goes(Radio, 9, 0))
  BY <1>a, <1>b, AdvanceGoes DEF Goes
<1>1. ~Send(Radio) /\ ~StoreMode(Radio) /\ ~Poll(Radio) /\ ~QuietAir(Radio) /\ ~NoisyAir(Radio)
  <2>1. ~Send(Radio)
    <3>1. Send(Radio) => at[Radio] = 0
      BY DEF Send
    <3> QED BY <1>a, <3>1
  <2>2. ~At(Radio, "cca") /\ ~At(Radio, "poll") /\ ~At(Radio, "store_mode")
    BY <1>a, IrqAt, Zenon
  <2> QED BY <2>1, <2>2 DEF StoreMode, Poll, QuietAir, NoisyAir
<1>2. CASE Lock(Radio)
  <2>1. n = 3 /\ Advance(Radio) /\ handling' = TRUE
    BY <1>2, <1>a, IrqAt DEF Lock
  <2> QED BY <1>2, <1>b, <2>1 DEF IrqMove
<1>3. CASE Unlock(Radio)
  <2>1. n = 8 /\ Advance(Radio) /\ handling' = TRUE
    BY <1>3, <1>a, IrqAt DEF Unlock
  <2> QED BY <1>3, <1>b, <2>1 DEF IrqMove
<1>4. CASE SetIrq(Radio)
  <2>1. Advance(Radio) /\ handling' = TRUE /\ irq' = (NextStep(Radio).arg = "on")
    BY <1>4, <1>a DEF SetIrq
  <2>2. \/ n = 4 /\ NextStep(Radio).arg = "off"
        \/ n = 7 /\ NextStep(Radio).arg = "on"
    BY <1>4, <1>a, IrqAt DEF SetIrq
  <2>3. CASE n = 4 /\ NextStep(Radio).arg = "off"
    <3>1. irq' = FALSE
      <4>1. "off" # "on"
        OBVIOUS
      <4> QED BY <2>1, <2>3, <4>1, Zenon
    <3>2. Goes(Radio, 4, 5)
      BY <1>b, <2>1, <2>3
    <3> QED BY <1>4, <2>1, <3>1, <3>2, Zenon DEF IrqMove
  <2>4. CASE n = 7 /\ NextStep(Radio).arg = "on"
    <3>1. irq' = TRUE
      BY <2>1, <2>4, Zenon
    <3>2. Goes(Radio, 7, 8)
      BY <1>b, <2>1, <2>4
    <3> QED BY <1>4, <2>1, <3>1, <3>2, Zenon DEF IrqMove
  <2> QED BY <2>2, <2>3, <2>4
<1>5. CASE ioctl(Radio)
  <2>1. Advance(Radio) /\ handling' = TRUE /\ NextStep(Radio) \in SpiSteps
    BY <1>5, <1>a DEF ioctl, FilledAtSpi
  <2>2. n \in {2, 5}
    BY <1>a, <2>1, IrqAt
  <2>3. (n = 2 /\ Goes(Radio, 2, 3)) \/ (n = 5 /\ Goes(Radio, 5, 6))
    BY <1>b, <2>1, <2>2
  <2> QED BY <1>5, <2>1, <2>3, Zenon DEF IrqMove
<1>6. CASE TestMode
  <2>1. n = 1
    BY <1>6, <1>a, IrqAt DEF TestMode
  <2>2. CASE mode = RF_RECEIVER
    <3>1. Advance(Radio) /\ handling' = TRUE
      BY <1>6, <1>a, <2>2 DEF TestMode
    <3> QED BY <1>6, <1>b, <2>1, <3>1 DEF IrqMove
  <2>3. CASE mode # RF_RECEIVER
    <3>1. at' = [at EXCEPT ![Radio] = 0] /\ handling' = FALSE
      BY <1>6, <2>3 DEF TestMode
    <3> QED BY <1>6, <2>1, <3>1 DEF IrqMove, Goes
  <2> QED BY <2>2, <2>3
<1>7. CASE Drain
  <2>1. n = 6 /\ handling' = TRUE
    BY <1>7, <1>a, IrqAt DEF Drain
  <2>2. CASE reg[Radio]
    <3>1. Goes(Radio, 6, 5)
      BY <1>7, <2>1, <2>2 DEF Drain, Again, Goes
    <3> QED BY <1>7, <2>1, <2>2, <3>1 DEF IrqMove
  <2>3. CASE ~reg[Radio]
    <3>1. Goes(Radio, 6, 7)
      BY <1>7, <1>b, <2>1, <2>3 DEF Drain
    <3> QED BY <1>7, <2>1, <2>3, <3>1 DEF IrqMove
  <2> QED BY <2>2, <2>3
<1>8. CASE Deliver
  <2>1. n = 9 /\ handling' = FALSE /\ Advance(Radio)
    BY <1>8, <1>a, IrqAt DEF Deliver
  <2> QED BY <1>8, <1>b, <2>1 DEF IrqMove
<1> QED BY <1>1, <1>2, <1>3, <1>4, <1>5, <1>6, <1>7, <1>8

LEMMA NextMoves ==
  ASSUME TypeInv, [Next]_vars
  PROVE  Moves
<1> USE Threads
<1> Placed /\ FilledAtSpi /\ irq \in BOOLEAN
  BY DEF TypeInv, LayerType
<1>1. ASSUME NEW t \in Thread,
             \/ Send(t) \/ Lock(t) \/ Unlock(t) \/ SetIrq(t) \/ StoreMode(t) \/ Poll(t)
             \/ QuietAir(t) \/ NoisyAir(t) \/ ioctl(t)
      PROVE  Moves
  <2>1. CASE ~Handles(t)
    BY <1>1, <2>1, SendMoves DEF Moves
  <2>2. CASE Handles(t)
    <3>1. t = Radio /\ handling
      BY <2>2 DEF Handles
    <3> QED BY <1>1, <3>1, IrqMoves DEF Moves
  <2> QED BY <2>1, <2>2
<1>2. ASSUME TestMode \/ Drain \/ Deliver
      PROVE  Moves
  <2>1. handling
    <3>1. SUFFICES ASSUME ~handling PROVE FALSE
      OBVIOUS
    <3>2. ~Handles(Radio)
      BY <3>1 DEF Handles
    <3>3. At(Radio, "test_mode") \/ At(Radio, "drain") \/ At(Radio, "deliver")
      BY <1>2 DEF TestMode, Drain, Deliver
    <3> QED BY <3>2, <3>3, SendAt
  <2> QED BY <1>2, <2>1, IrqMoves DEF Moves
<1>3. CASE on_irq1_event
  <2>1. at[Radio] = 0 /\ ~handling /\ UNCHANGED <<mm, mode, irq, received>>
    BY <1>3 DEF on_irq1_event, Placed, layer
  <2>2. CASE irq = TRUE
    <3>1. handling' = TRUE /\ Goes(Radio, 0, 1)
      BY <1>3, <2>2 DEF on_irq1_event, Goes
    <3> QED BY <1>3, <2>1, <3>1 DEF Moves
  <2>3. CASE irq = FALSE
    <3>1. at' = at /\ handling' = FALSE
      BY <1>3, <2>3, Zenon DEF on_irq1_event
    <3>2. handling' = handling
      BY <2>1, <3>1 DEF Placed
    <3> QED BY <1>3, <2>1, <3>1, <3>2 DEF Moves, Stays
  <2> QED BY <2>2, <2>3
<1>4. CASE \/ PacketArrives \/ Transmits \/ UNCHANGED vars
           \/ \E t \in Thread : Fill(t)
  <2>1. UNCHANGED <<at, handling, mm, mode, irq, received>>
    BY <1>4 DEF PacketArrives, Transmits, vars, Fill, calls, layer, spi, chip
  <2> QED BY <1>4, <2>1 DEF Moves, Stays
<1> QED BY <1>1, <1>2, <1>3, <1>4 DEF Next, ThreadStep

(* A thread whose place is the same has the same step before it, and the   *)
(* places change one at a time.                                            *)
LEMMA SamePlace ==
  ASSUME Placed, Moves, NEW t \in Thread, at'[t] = at[t]
  PROVE  at[t] # 0 => (Handles(t)' <=> Handles(t)) /\ NextStep(t)' = NextStep(t)
<1> USE Threads
<1>1. ASSUME NEW u \in Thread, NEW a, NEW b, Goes(u, a, b), a # b
      PROVE  u # t
  BY <1>1 DEF Goes, Placed
<1>2. handling' = handling \/ t # Radio
  <2>1. CASE Stays
    BY <2>1 DEF Stays
  <2>2. CASE IrqMove
    <3>1. \E a, b : a # b /\ Goes(Radio, a, b)
      BY <2>2 DEF IrqMove
    <3> QED BY <1>1, <3>1
  <2>3. CASE Goes(Radio, 0, 1)
    BY <1>1, <2>3
  <2> QED BY <2>1, <2>2, <2>3 DEF Moves
<1>3. Handles(t)' <=> Handles(t)
  BY <1>2 DEF Handles
<1> QED BY <1>3 DEF NextStep, Program, Handles

-----------------------------------------------------------------------------
(* Type correctness.                                                       *)

LEMMA TypeInit == Init => TypeInv
<1> SUFFICES ASSUME Init PROVE TypeInv
  OBVIOUS
<1> USE Threads, ModesAre
<1>a. /\ at = [t \in Thread |-> 0] /\ handling = FALSE /\ answers = 0
      /\ filled = {} /\ xfer = Writes(RF_RECEIVER) /\ mixed = FALSE
      /\ reg = [t \in Thread |-> FALSE]
      /\ mm = Nobody /\ mode = RF_RECEIVER /\ irq = TRUE /\ polls = 0
      /\ received = <<>>
      /\ hw_mode = RF_RECEIVER /\ fifo = <<>> /\ tx_done = FALSE /\ edge = FALSE
  BY Zenon DEF Init
<1>b. 0 \in 0..19 /\ 0 \in 0..MaxAnswers /\ 0 \in 0..MaxPolls
  OBVIOUS
<1>1. Placed
  <2>1. at \in [Thread -> 0..19]
    BY <1>a, <1>b
  <2> QED BY <1>a, <2>1 DEF Placed
<1>2. FilledAtSpi
  BY <1>a DEF FilledAtSpi
<1>c. SpiType
  BY <1>a, StepTypes DEF SpiType
<1>d. CallType
  BY <1>a, <1>b DEF CallType
<1>3. <<>> \in Seq(Bytes) /\ Len(<<>>) = 0
  OBVIOUS
<1>f. hw_mode \in Modes /\ tx_done \in BOOLEAN /\ edge \in BOOLEAN
  BY <1>a
<1>4. LayerType
  BY <1>a, <1>3 DEF LayerType
<1>e. ChipType
  <2>1. fifo \in Seq(Bytes) /\ Len(fifo) = 0
    BY <1>a, <1>3, Zenon
  <2>2. Len(fifo) <= FifoSize
    BY <2>1
  <2> QED BY <1>f, <2>1, <2>2, Zenon DEF ChipType
<1> QED BY <1>1, <1>2, <1>4, <1>c, <1>d, <1>e DEF TypeInv

LEMMA PlacedNext ==
  ASSUME Placed, Moves
  PROVE  Placed'
<1> USE Threads DEF Placed
<1>1. ASSUME NEW t \in Thread, NEW a, NEW b \in 0..19, Goes(t, a, b)
      PROVE  at' \in [Thread -> 0..19] /\ at'[t] = b /\ \A u \in Thread \ {t} : at'[u] = at[u]
  BY <1>1 DEF Goes
<1>2. CASE Stays
  BY <1>2 DEF Stays
<1>3. CASE handling' = TRUE /\ Goes(Radio, 0, 1)
  BY <1>1, <1>3
<1>4. ASSUME NEW t \in Thread, ~Handles(t), handling' = handling, SendMove(t)
      PROVE  Placed'
  <2>1. \E a, b \in 0..19 : Goes(t, a, b)
    <3>1. ASSUME NEW n \in {2, 5, 7, 8, 9, 10, 13, 15, 17}, Goes(t, n, n + 1)
          PROVE  \E a, b \in 0..19 : Goes(t, a, b)
      BY <3>1
    <3> QED BY <1>4, <3>1 DEF SendMove
  <2>2. handling => t # Radio
    BY <1>4 DEF Handles
  <2> QED BY <1>1, <1>4, <2>1, <2>2
<1>5. CASE handling /\ IrqMove
  <2>1. \/ handling' = FALSE /\ \E a \in 0..19 : Goes(Radio, a, 0)
        \/ handling' = TRUE /\ \E a \in 0..19, b \in 1..9 : Goes(Radio, a, b)
    BY <1>5 DEF IrqMove
  <2>2. CASE handling' = FALSE /\ \E a \in 0..19 : Goes(Radio, a, 0)
    <3>1. PICK a \in 0..19 : Goes(Radio, a, 0)
      BY <2>2
    <3>2. 0 \in 0..19
      OBVIOUS
    <3> QED BY <1>1, <2>2, <3>1, <3>2
  <2>3. CASE handling' = TRUE /\ \E a \in 0..19, b \in 1..9 : Goes(Radio, a, b)
    <3>1. PICK a \in 0..19, b \in 1..9 : Goes(Radio, a, b)
      BY <2>3
    <3>2. b \in 0..19
      OBVIOUS
    <3> QED BY <1>1, <2>3, <3>1, <3>2
  <2> QED BY <2>1, <2>2, <2>3
<1> QED BY <1>2, <1>3, <1>4, <1>5 DEF Moves

LEMMA FilledNext ==
  ASSUME TypeInv, [Next]_vars
  PROVE  FilledAtSpi' /\ SpiType'
<1> USE Threads
<1>a. Placed /\ FilledAtSpi /\ SpiType /\ Moves
  BY NextMoves DEF TypeInv
<1>b. ASSUME NEW t \in Thread, NEW op, At(t, op),
             op \in {"lock", "unlock", "irq", "store_mode", "cca", "poll", "test_mode",
                     "drain", "deliver"}
      PROVE  t \notin filled
  <2>1. NextStep(t) \notin SpiSteps
    BY <1>b, SpiKinds DEF At
  <2> QED BY <1>a, <2>1 DEF FilledAtSpi
(* The step of a thread that is not in filled leaves the others in place.  *)
<1>c. ASSUME NEW t \in Thread, NEW a, NEW b, Goes(t, a, b), t \notin filled',
             filled' \subseteq filled
      PROVE  FilledAtSpi'
  <2>1. ASSUME NEW u \in filled'
        PROVE  at'[u] # 0 /\ NextStep(u)' \in SpiSteps'
    <3>1. u \in Thread /\ u # t /\ u \in filled
      BY <1>a, <1>c, <2>1 DEF SpiType
    <3>2. at'[u] = at[u] /\ at[u] # 0 /\ NextStep(u) \in SpiSteps
      BY <1>a, <1>c, <3>1 DEF Goes, Placed, FilledAtSpi
    <3>3. NextStep(u)' = NextStep(u)
      BY <1>a, <3>1, <3>2, SamePlace
    <3> QED BY <3>2, <3>3
  <2> QED BY <2>1 DEF FilledAtSpi
<1>1. ASSUME NEW t \in Thread, ioctl(t)
      PROVE  FilledAtSpi' /\ SpiType'
  <2>1. SpiType'
    BY <1>1, <1>a DEF ioctl, SpiType
  <2>2. t \notin filled' /\ filled' \subseteq filled /\ Advance(t) /\ at[t] # 0
    BY <1>1, <1>a DEF ioctl, FilledAtSpi
  <2>3. \E b : Goes(t, at[t], b)
    BY <1>a, <2>2, AdvanceGoes, Zenon
  <2> QED BY <1>c, <2>1, <2>2, <2>3
<1>2. ASSUME NEW t \in Thread, Fill(t)
      PROVE  FilledAtSpi' /\ SpiType'
  <2>1. SpiType'
    BY <1>2, <1>a DEF Fill, SpiType
  <2>2. UNCHANGED <<at, handling>> /\ filled' = filled \cup {t}
    BY <1>2 DEF Fill, calls
  <2>3. ASSUME NEW u \in filled'
        PROVE  at'[u] # 0 /\ NextStep(u)' \in SpiSteps'
    <3>1. at[u] # 0 /\ NextStep(u) \in SpiSteps
      BY <1>2, <1>a, <2>2, <2>3 DEF Fill, FilledAtSpi
    <3> QED BY <2>2, <3>1 DEF NextStep, Program, Handles
  <2> QED BY <2>1, <2>3 DEF FilledAtSpi
<1>3. CASE UNCHANGED <<spi, at, handling>>
  <2>1. UNCHANGED <<filled, xfer, mixed, at, handling>>
    BY <1>3 DEF spi
  <2>2. ASSUME NEW u \in filled'
        PROVE  at'[u] # 0 /\ NextStep(u)' \in SpiSteps'
    <3>1. at[u] # 0 /\ NextStep(u) \in SpiSteps
      BY <1>a, <2>1, <2>2 DEF FilledAtSpi
    <3> QED BY <2>1, <3>1 DEF NextStep, Program, Handles
  <2> QED BY <1>a, <2>1, <2>2 DEF SpiType, FilledAtSpi
<1>4. ASSUME NEW t \in Thread, t \notin filled, NEW a, NEW b, Goes(t, a, b), UNCHANGED spi
      PROVE  FilledAtSpi' /\ SpiType'
  <2>1. UNCHANGED <<filled, xfer, mixed>>
    BY <1>4 DEF spi
  <2> QED BY <1>4, <1>a, <1>c, <2>1 DEF SpiType
<1>5. ASSUME NEW t \in Thread, SendMove(t)
      PROVE  FilledAtSpi' /\ SpiType'
  <2>1. CASE \/ Lock(t) \/ Unlock(t) \/ SetIrq(t) \/ StoreMode(t) \/ Poll(t)
             \/ QuietAir(t) \/ NoisyAir(t)
    <3>1. t \notin filled /\ UNCHANGED spi
      BY <2>1, <1>b DEF Lock, Unlock, SetIrq, StoreMode, Poll, QuietAir, NoisyAir
    <3>2. ioctl(t) => t \in filled
      BY DEF ioctl
    <3>3. \E a, b : Goes(t, a, b)
      BY <1>5, Zenon DEF SendMove
    <3> QED BY <1>4, <3>1, <3>3
  <2>2. CASE Send(t)
    <3>1. t \notin filled /\ UNCHANGED spi /\ Goes(t, 0, 1)
      BY <2>2, <1>a DEF Send, FilledAtSpi, Goes
    <3> QED BY <1>4, <3>1
  <2> QED BY <1>1, <1>5, <2>1, <2>2, Zenon DEF SendMove
<1>6. CASE IrqMove
  <2>1. CASE \/ TestMode \/ Lock(Radio) \/ SetIrq(Radio) \/ Drain \/ Unlock(Radio)
             \/ Deliver
    <3>1. Radio \notin filled /\ UNCHANGED spi
      BY <2>1, <1>b DEF TestMode, Lock, SetIrq, Drain, Unlock, Deliver
    <3>2. \E a, b : Goes(Radio, a, b)
      BY <1>6, Zenon DEF IrqMove
    <3> QED BY <1>4, <3>1, <3>2
  <2> QED BY <1>1, <1>6, <2>1, Zenon DEF IrqMove
<1>7. CASE on_irq1_event /\ Goes(Radio, 0, 1)
  <2>1. Radio \notin filled /\ UNCHANGED spi
    BY <1>7, <1>a DEF on_irq1_event, FilledAtSpi
  <2> QED BY <1>4, <1>7, <2>1
<1>8. CASE Stays
  <2>1. CASE \E t \in Thread : Fill(t)
    BY <1>2, <2>1
  <2>2. CASE on_irq1_event \/ PacketArrives \/ Transmits \/ UNCHANGED vars
    <3>1. UNCHANGED <<spi, at, handling>>
      BY <1>8, <2>2 DEF Stays, on_irq1_event, PacketArrives, Transmits, vars
    <3> QED BY <1>3, <3>1
  <2> QED BY <1>8, <2>1, <2>2 DEF Stays
<1> QED BY <1>a, <1>5, <1>6, <1>7, <1>8 DEF Moves

(* Every step is one of these.                                             *)
LEMMA NextCases ==
  ASSUME [Next]_vars
  PROVE  \/ \E t \in Thread :
              \/ Send(t) \/ Lock(t) \/ Unlock(t) \/ SetIrq(t) \/ StoreMode(t) \/ Poll(t)
              \/ QuietAir(t) \/ NoisyAir(t) \/ Fill(t) \/ ioctl(t)
         \/ on_irq1_event \/ TestMode \/ Drain \/ Deliver
         \/ PacketArrives \/ Transmits \/ UNCHANGED vars
BY DEF Next, ThreadStep

LEMMA CallNext ==
  ASSUME TypeInv, [Next]_vars
  PROVE  CallType'
<1> USE Threads DEF CallType
<1> CallType
  BY DEF TypeInv
<1>1. ASSUME NEW t \in Thread, Send(t)
      PROVE  CallType'
  <2>1. answers' \in 0..MaxAnswers
    BY <1>1 DEF Send
  <2> QED BY <1>1, <2>1 DEF Send
<1>2. ASSUME NEW t \in Thread, StoreMode(t)
      PROVE  CallType'
  BY <1>2 DEF StoreMode
<1>3. ASSUME NEW t \in Thread, Poll(t)
      PROVE  CallType'
  BY <1>3 DEF Poll
<1>4. CASE Deliver
  <2>1. answers' \in 0..MaxAnswers
    BY <1>4 DEF Deliver
  <2> QED BY <1>4, <2>1 DEF Deliver
<1>5. ASSUME NEW t \in Thread, ioctl(t)
      PROVE  CallType'
  <2>1. ASSUME NEW r
        PROVE  BitOf(r) \in BOOLEAN
    BY DEF BitOf, TypeInv, ChipType
  <2>2. \/ reg' = reg
        \/ \E b \in BOOLEAN : reg' = [reg EXCEPT ![t] = b]
    BY <1>5, <2>1 DEF ioctl
  <2> QED BY <1>5, <2>2 DEF ioctl
<1>6. CASE UNCHANGED <<answers, reg, polls>>
  BY <1>6
<1> QED
  BY <1>1, <1>2, <1>3, <1>4, <1>5, <1>6, NextCases
     DEF Lock, Unlock, SetIrq, QuietAir, NoisyAir, Fill, on_irq1_event, TestMode, Drain,
         PacketArrives, Transmits, vars, calls

LEMMA LayerNext ==
  ASSUME TypeInv, [Next]_vars
  PROVE  LayerType'
<1> USE Threads
<1>a. Placed /\ LayerType /\ ChipType /\ Moves
  BY NextMoves DEF TypeInv
<1>1. mode' \in Modes
  <2>1. ASSUME NEW t \in Thread, StoreMode(t)
        PROVE  mode' \in Modes
    <3>1. mode' = NextStep(t).arg /\ At(t, "store_mode")
      BY <2>1 DEF StoreMode
    <3>2. CASE Handles(t)
      BY <1>a, <3>1, <3>2, IrqAt
    <3>3. CASE ~Handles(t)
      BY <1>a, <3>1, <3>3, SendAt, ModesAre
    <3> QED BY <3>2, <3>3
  <2>2. CASE mode' = mode
    BY <1>a, <2>2 DEF LayerType
  <2> QED
    BY <2>1, <2>2, NextCases
       DEF Send, Lock, Unlock, SetIrq, Poll, QuietAir, NoisyAir, Fill, ioctl, Deliver,
           on_irq1_event, TestMode, Drain, PacketArrives, Transmits, vars, layer
<1>2. mm' \in Thread \cup {Nobody} /\ irq' \in BOOLEAN
  <2>1. CASE UNCHANGED <<mm, irq>>
    BY <1>a, <2>1 DEF LayerType
  <2>2. ASSUME NEW t \in Thread, Lock(t) \/ Unlock(t) \/ SetIrq(t)
        PROVE  mm' \in Thread \cup {Nobody} /\ irq' \in BOOLEAN
    BY <1>a, <2>2 DEF Lock, Unlock, SetIrq, LayerType
  <2> QED
    BY <2>1, <2>2, NextCases
       DEF Send, StoreMode, Poll, QuietAir, NoisyAir, Fill, ioctl, Deliver,
           on_irq1_event, TestMode, Drain, PacketArrives, Transmits, vars, layer
<1>3. received' \in Seq(Bytes)
  <2>1. CASE Drain
    <3>1. Garbage \in Bytes /\ received \in Seq(Bytes) /\ fifo \in Seq(Bytes)
      BY <1>a DEF Bytes, LayerType, ChipType
    <3>2. \/ received' = received
          \/ \E b \in Bytes : received' = Append(received, b)
      BY <2>1, <3>1 DEF Drain, read_fifo
    <3> QED BY <3>1, <3>2
  <2>2. CASE Deliver
    BY <2>2 DEF Deliver
  <2>3. CASE received' = received
    BY <1>a, <2>3 DEF LayerType
  <2> QED
    BY <2>1, <2>2, <2>3, NextCases
       DEF Send, Lock, Unlock, SetIrq, StoreMode, Poll, QuietAir, NoisyAir, Fill, ioctl,
           on_irq1_event, TestMode, PacketArrives, Transmits, vars, layer
<1> QED BY <1>1, <1>2, <1>3 DEF LayerType

(* What ioctl transfers is a step for the SPI.                             *)
LEMMA TransferredType ==
  ASSUME NEW s \in SpiSteps, NEW x \in SpiSteps
  PROVE  Transferred(s, x) \subseteq SpiSteps
BY StepTypes, ModesAre DEF Transferred, Registers

LEMMA ChipNext ==
  ASSUME TypeInv, [Next]_vars
  PROVE  ChipType'
<1> USE Threads DEF ChipType
<1> ChipType /\ LayerType
  BY DEF TypeInv
<1>1. CASE on_irq1_event
  BY <1>1 DEF on_irq1_event
<1>2. CASE Drain
  <2>1. CASE fifo' = fifo
    BY <1>2, <2>1 DEF Drain
  <2>2. CASE fifo' # fifo
    <3>1. fifo # <<>> /\ fifo' = Tail(fifo)
      BY <1>2, <2>2 DEF Drain, read_fifo
    <3>2. Tail(fifo) \in Seq(Bytes) /\ Len(Tail(fifo)) = Len(fifo) - 1
      BY <3>1
    <3>3. Len(fifo) \in Nat
      OBVIOUS
    <3>4. fifo' \in Seq(Bytes) /\ Len(fifo') <= FifoSize
      <4>1. PICK q : q = Tail(fifo)
        OBVIOUS
      <4>2. q \in Seq(Bytes) /\ Len(q) = Len(fifo) - 1
        BY <3>2, <4>1, Zenon
      <4>3. Len(q) <= FifoSize
        BY <3>3, <4>2
      <4>4. fifo' = q
        BY <3>1, <4>1, Zenon
      <4> QED BY <4>2, <4>3, <4>4, Zenon
    <3>5. UNCHANGED <<hw_mode, tx_done, edge>>
      BY <1>2 DEF Drain
    <3> QED BY <3>4, <3>5
  <2> QED BY <2>1, <2>2
<1>3. ASSUME NEW t \in Thread, ioctl(t)
      PROVE  ChipType'
  <2>1. PICK x \in SpiSteps, b \in Bytes : Transfers(x, b)
    <3>1. PICK x \in Transferred(NextStep(t), xfer) :
            Transfers(x, IF NextStep(t) = xfer THEN t ELSE Garbage)
      BY <1>3 DEF ioctl
    <3>2. NextStep(t) \in SpiSteps /\ xfer \in SpiSteps
      BY <1>3 DEF ioctl, TypeInv, FilledAtSpi, SpiType
    <3>3. x \in SpiSteps
      BY <3>1, <3>2, TransferredType
    <3>4. t \in Bytes /\ Garbage \in Bytes
      BY DEF Bytes
    <3> QED BY <3>1, <3>3, <3>4
  <2>2. x.do = "set_mode" => x.arg \in Modes
    BY SpiKinds
  <2>3. hw_mode' \in Modes /\ tx_done' \in BOOLEAN
    BY <2>1, <2>2 DEF Transfers
  <2>4. \/ fifo' \in {<<>>, fifo}
        \/ fifo' = Append(fifo, b) /\ Len(fifo) < FifoSize
    BY <2>1 DEF Transfers
  <2>5. fifo' \in Seq(Bytes) /\ Len(fifo') <= FifoSize
    <3>1. CASE fifo' = <<>>
      BY <3>1
    <3>2. CASE fifo' = fifo
      BY <3>2
    <3>3. CASE fifo' = Append(fifo, b) /\ Len(fifo) < FifoSize
      <4>1. Len(Append(fifo, b)) = Len(fifo) + 1 /\ Append(fifo, b) \in Seq(Bytes)
        BY AppendAny
      <4>2. Len(fifo) \in Nat
        OBVIOUS
      <4> QED BY <3>3, <4>1, <4>2
    <3> QED BY <2>4, <3>1, <3>2, <3>3
  <2> QED BY <1>3, <2>3, <2>5 DEF ioctl
<1>4. CASE PacketArrives
  <2>1. <<Incoming, Incoming>> \in Seq(Bytes) /\ Len(<<Incoming, Incoming>>) = 2
    BY DEF Bytes
  <2>2. Len(fifo \o <<Incoming, Incoming>>) = Len(fifo) + 2
    BY <2>1
  <2>3. Len(received) \in Nat /\ Len(fifo) \in Nat
    BY DEF LayerType
  <2>4. fifo' \in Seq(Bytes) /\ Len(fifo') <= FifoSize
    BY <1>4, <2>1, <2>2, <2>3 DEF PacketArrives
  <2> QED BY <1>4, <2>4 DEF PacketArrives
<1>5. CASE Transmits
  BY <1>5 DEF Transmits
<1>6. CASE UNCHANGED <<hw_mode, fifo, tx_done, edge>>
  BY <1>6
<1> QED
  BY <1>1, <1>2, <1>3, <1>4, <1>5, <1>6, NextCases
     DEF Send, TestMode, Lock, Unlock, SetIrq, StoreMode, Poll, QuietAir, NoisyAir,
         Fill, Deliver, vars, chip

LEMMA TypeInvNext ==
  ASSUME TypeInv, [Next]_vars
  PROVE  TypeInv' /\ Moves
BY NextMoves, PlacedNext, FilledNext, CallNext, LayerNext, ChipNext DEF TypeInv

(* Every variable has its type, the FIFO holds no more than it can, and    *)
(* nobody polls more often than MaxPolls (phy.cpp:754), also where the     *)
(* threads mix up their transfers.                                         *)
THEOREM TypeCorrect == Spec => []TypeOK
<1>1. TypeInv => TypeOK
  BY TypeParts DEF TypeInv, Placed
<1>2. TypeInv /\ [Next]_vars => TypeInv'
  BY TypeInvNext
<1> QED BY <1>1, <1>2, TypeInit, PTL DEF Spec

-----------------------------------------------------------------------------
(* The mutex: its owner is the thread between lock and unlock.             *)

Inside(t) == IF Handles(t) THEN at[t] \in 4..8 ELSE at[t] \in 2..19

Mutex == \A t \in Thread : mm = t <=> Inside(t)

LEMMA MutexInit == Init => Mutex
BY Threads DEF Init, Mutex, Inside, Handles

(* The step of one thread leaves the others where they are.                *)
LEMMA OthersStay ==
  ASSUME Placed, NEW t \in Thread, NEW a, NEW b, Goes(t, a, b), NEW u \in Thread, u # t,
         handling' = handling \/ t = Radio
  PROVE  at'[u] = at[u] /\ (Handles(u)' <=> Handles(u)) /\ (Inside(u)' <=> Inside(u))
<1>1. at'[u] = at[u]
  BY DEF Goes, Placed
<1>2. Handles(u)' <=> Handles(u)
  BY DEF Handles
<1> QED BY <1>1, <1>2 DEF Inside

LEMMA MutexNext ==
  ASSUME TypeInv, Mutex, Moves
  PROVE  Mutex'
<1> USE Threads
<1>a. Placed
  BY DEF TypeInv
(* A step of t that does not lock or unlock.                               *)
<1>b. ASSUME NEW t \in Thread, NEW a, NEW b, Goes(t, a, b), mm' = mm,
             handling' = handling \/ t = Radio, Inside(t)' <=> Inside(t)
      PROVE  Mutex'
  <2>1. ASSUME NEW u \in Thread
        PROVE  Inside(u)' <=> Inside(u)
    BY <1>a, <1>b, OthersStay
  <2> QED BY <1>b, <2>1 DEF Mutex
<1>c. ASSUME NEW t \in Thread, NEW a, NEW b, Goes(t, a, b), b \in Nat
      PROVE  at[t] = a /\ at'[t] = b
  BY <1>a, <1>c DEF Goes, Placed
<1>d. ASSUME NEW t \in Thread, NEW a, NEW b, Goes(t, a, b),
             handling' = handling \/ t = Radio,
             \/ mm = Nobody /\ mm' = t /\ Inside(t)'
             \/ Inside(t) /\ mm' = Nobody /\ ~Inside(t)'
      PROVE  Mutex'
  <2>1. ASSUME NEW u \in Thread
        PROVE  (mm = u <=> Inside(u))'
    <3>1. CASE u = t
      BY <1>d, <3>1
    <3>2. CASE u # t
      <4>1. Inside(u)' <=> Inside(u)
        BY <1>a, <1>d, <3>2, OthersStay
      <4>2. mm # u
        BY <1>d, <3>2 DEF Mutex
      <4> QED BY <1>d, <3>2, <4>1, <4>2 DEF Mutex
    <3> QED BY <3>1, <3>2
  <2> QED BY <2>1 DEF Mutex
<1>1. CASE Stays
  <2>1. UNCHANGED <<at, handling, mm>>
    BY <1>1 DEF Stays
  <2> QED BY <2>1 DEF Mutex, Inside, Handles
<1>2. CASE ~handling /\ handling' = TRUE /\ Goes(Radio, 0, 1) /\ mm' = mm
  <2>1. at[Radio] = 0 /\ at'[Radio] = 1
    BY <1>2, <1>c
  <2>2. Inside(Radio)' <=> Inside(Radio)
    BY <1>2, <2>1 DEF Inside, Handles
  <2> QED BY <1>2, <1>b, <2>2
<1>3. ASSUME NEW t \in Thread, ~Handles(t), handling' = handling, SendMove(t)
      PROVE  Mutex'
  <2>a. ~Handles(t)'
    BY <1>3 DEF Handles
  <2>1. ASSUME NEW a \in Nat, NEW b \in Nat, Goes(t, a, b), mm' = mm,
               a \in 2..19 <=> b \in 2..19
        PROVE  Mutex'
    <3>1. at[t] = a /\ at'[t] = b
      BY <1>c, <2>1
    <3>2. Inside(t)' <=> Inside(t)
      BY <1>3, <2>a, <2>1, <3>1 DEF Inside
    <3> QED BY <1>3, <1>b, <2>1, <3>2
  <2>2. CASE Lock(t) /\ Goes(t, 1, 2)
    <3>1. mm = Nobody /\ mm' = t /\ at'[t] = 2
      BY <2>2, <1>c DEF Lock
    <3>2. Inside(t)'
      BY <2>a, <3>1 DEF Inside
    <3> QED BY <1>3, <1>d, <2>2, <3>1, <3>2
  <2>3. CASE Unlock(t) /\ Goes(t, 19, 0)
    <3>1. mm' = Nobody /\ at[t] = 19 /\ at'[t] = 0
      BY <2>3, <1>c DEF Unlock
    <3>2. Inside(t) /\ ~Inside(t)'
      BY <1>3, <2>a, <3>1 DEF Inside
    <3> QED BY <1>3, <1>d, <2>3, <3>1, <3>2
  <2>4. ASSUME Send(t) \/ QuietAir(t) \/ NoisyAir(t) \/ SetIrq(t) \/ StoreMode(t) \/ Poll(t)
               \/ ioctl(t)
        PROVE  mm' = mm
    BY <2>4 DEF Send, QuietAir, NoisyAir, SetIrq, StoreMode, Poll, ioctl, layer
  <2>5. ASSUME NEW n \in {2, 5, 7, 8, 9, 10, 13, 15, 17}, ioctl(t), Goes(t, n, n + 1)
        PROVE  Mutex'
    BY <2>1, <2>4, <2>5
  <2>6. CASE \/ Send(t) /\ Goes(t, 0, 1)
             \/ QuietAir(t) /\ Goes(t, 3, 4)
             \/ NoisyAir(t) /\ Goes(t, 3, 2)
             \/ SetIrq(t) /\ Goes(t, 4, 5)
             \/ SetIrq(t) /\ Goes(t, 12, 13)
             \/ Poll(t) /\ Goes(t, 14, 15)
             \/ Poll(t) /\ Goes(t, 14, 13)
    BY <2>1, <2>4, <2>6
  <2>7. CASE \/ StoreMode(t) /\ Goes(t, 6, 7)
             \/ StoreMode(t) /\ Goes(t, 16, 17)
             \/ StoreMode(t) /\ Goes(t, 11, 12)
             \/ StoreMode(t) /\ Goes(t, 18, 19)
    BY <2>1, <2>4, <2>7
  <2> QED BY <1>3, <2>2, <2>3, <2>5, <2>6, <2>7, Zenon DEF SendMove
<1>4. CASE handling /\ IrqMove
  <2>a. Handles(Radio)
    BY <1>4 DEF Handles
  <2>1. ASSUME NEW a \in Nat, NEW b \in Nat, Goes(Radio, a, b), mm' = mm,
               handling' = TRUE, a \in 4..8 <=> b \in 4..8
        PROVE  Mutex'
    <3>1. at[Radio] = a /\ at'[Radio] = b /\ Handles(Radio)'
      BY <1>c, <2>1 DEF Handles
    <3>2. Inside(Radio)' <=> Inside(Radio)
      BY <2>a, <2>1, <3>1 DEF Inside
    <3> QED BY <1>b, <2>1, <3>2
  <2>2. ASSUME NEW a \in {1, 9}, Goes(Radio, a, 0), mm' = mm, handling' = FALSE
        PROVE  Mutex'
    <3>1. at[Radio] = a /\ at'[Radio] = 0 /\ ~Handles(Radio)'
      BY <1>c, <2>2 DEF Handles
    <3>2. Inside(Radio)' <=> Inside(Radio)
      BY <2>a, <2>2, <3>1 DEF Inside
    <3> QED BY <1>b, <2>2, <3>2
  <2>3. CASE Lock(Radio) /\ handling' = TRUE /\ Goes(Radio, 3, 4)
    <3>1. mm = Nobody /\ mm' = Radio /\ at'[Radio] = 4 /\ Handles(Radio)'
      BY <2>3, <1>c DEF Lock, Handles
    <3>2. Inside(Radio)'
      BY <3>1 DEF Inside
    <3> QED BY <1>d, <2>3, <3>1, <3>2
  <2>4. CASE Unlock(Radio) /\ handling' = TRUE /\ Goes(Radio, 8, 9)
    <3>1. mm' = Nobody /\ at[Radio] = 8 /\ at'[Radio] = 9 /\ Handles(Radio)'
      BY <2>4, <1>c DEF Unlock, Handles
    <3>2. Inside(Radio) /\ ~Inside(Radio)'
      BY <2>a, <3>1 DEF Inside
    <3> QED BY <1>d, <2>4, <3>1, <3>2
  <2>5. ASSUME TestMode \/ ioctl(Radio) \/ SetIrq(Radio) \/ Drain \/ Deliver
        PROVE  mm' = mm
    BY <2>5 DEF TestMode, ioctl, SetIrq, Drain, Deliver, layer
  <2>6. CASE \/ TestMode /\ handling' = TRUE /\ Goes(Radio, 1, 2)
             \/ ioctl(Radio) /\ handling' = TRUE /\ Goes(Radio, 2, 3)
             \/ SetIrq(Radio) /\ handling' = TRUE /\ Goes(Radio, 4, 5)
             \/ ioctl(Radio) /\ handling' = TRUE /\ Goes(Radio, 5, 6)
             \/ Drain /\ handling' = TRUE /\ Goes(Radio, 6, 5)
             \/ Drain /\ handling' = TRUE /\ Goes(Radio, 6, 7)
             \/ SetIrq(Radio) /\ handling' = TRUE /\ Goes(Radio, 7, 8)
    <3>1. mm' = mm /\ handling' = TRUE
      BY <2>5, <2>6, Zenon
    <3>2. \/ Goes(Radio, 1, 2) \/ Goes(Radio, 2, 3) \/ Goes(Radio, 4, 5)
          \/ Goes(Radio, 5, 6) \/ Goes(Radio, 6, 5) \/ Goes(Radio, 6, 7)
          \/ Goes(Radio, 7, 8)
      BY <2>6, Zenon
    <3>3. \A a, b \in Nat :
            Goes(Radio, a, b) /\ (a \in 4..8 <=> b \in 4..8) => Mutex'
      BY <2>1, <3>1
    <3> QED BY <3>2, <3>3
  <2>7. CASE \/ TestMode /\ handling' = FALSE /\ Goes(Radio, 1, 0)
             \/ Deliver /\ handling' = FALSE /\ Goes(Radio, 9, 0)
    BY <2>2, <2>5, <2>7
  <2> QED BY <1>4, <2>3, <2>4, <2>6, <2>7, Zenon DEF IrqMove
<1> QED BY <1>1, <1>2, <1>3, <1>4 DEF Moves

-----------------------------------------------------------------------------
(* What the layer knows of the radio, by where the owner of mm is.         *)

LayerHeld(t) ==
  IF Handles(t)
    THEN mode = RF_RECEIVER /\ (at[t] = 8 => irq)
    ELSE (at[t] \in 13..19 => irq) /\ (at[t] = 19 => mode = RF_RECEIVER)

LayerInv ==
  /\ mm = Nobody => mode = RF_RECEIVER /\ irq
  /\ \A t \in Thread : mm = t => LayerHeld(t)

LEMMA LayerInit == Init => LayerInv
BY Threads DEF Init, LayerInv

LEMMA LayerInvNext ==
  ASSUME TypeInv, Mutex, LayerInv, Moves
  PROVE  LayerInv'
<1> USE Threads
<1>a. Placed /\ irq \in BOOLEAN
  BY DEF TypeInv, LayerType
<1>p. ASSUME NEW t \in Thread, NEW a, NEW b, Goes(t, a, b), b \in Nat
      PROVE  at[t] = a /\ at'[t] = b
  BY <1>a, <1>p DEF Goes, Placed
(* The owner takes a step and remains the owner, or gives mm back.         *)
<1>b. ASSUME NEW t \in Thread, mm' = t, LayerHeld(t)'
      PROVE  LayerInv'
  BY <1>b DEF LayerInv
<1>c. ASSUME mm' = Nobody, mode' = RF_RECEIVER, irq' = TRUE
      PROVE  LayerInv'
  BY <1>c DEF LayerInv
(* A thread that is not the owner takes a step.                            *)
<1>d. ASSUME NEW t \in Thread, NEW a, NEW b, Goes(t, a, b), ~Inside(t),
             handling' = handling \/ t = Radio, UNCHANGED <<mm, mode, irq>>
      PROVE  LayerInv'
  <2>1. ASSUME NEW u \in Thread, mm' = u
        PROVE  LayerHeld(u)'
    <3>1. mm = u /\ u # t /\ LayerHeld(u)
      BY <1>d, <2>1 DEF Mutex, LayerInv
    <3>2. at'[u] = at[u] /\ (Handles(u)' <=> Handles(u))
      BY <1>a, <1>d, <3>1, OthersStay
    <3> QED BY <1>d, <3>1, <3>2 DEF LayerHeld
  <2>2. mm' = Nobody => mode' = RF_RECEIVER /\ irq'
    BY <1>d DEF LayerInv
  <2> QED BY <2>1, <2>2 DEF LayerInv
<1>1. CASE Stays
  <2>1. UNCHANGED <<at, handling, mm, mode, irq>>
    BY <1>1 DEF Stays
  <2> QED BY <2>1 DEF LayerInv, LayerHeld, Handles
<1>2. CASE ~handling /\ Goes(Radio, 0, 1) /\ UNCHANGED <<mm, mode, irq>>
  <2>1. ~Inside(Radio)
    BY <1>2, <1>p DEF Inside, Handles
  <2> QED BY <1>2, <1>d, <2>1
<1>3. ASSUME NEW t \in Thread, ~Handles(t), handling' = handling, SendMove(t)
      PROVE  LayerInv'
  <2>a. ~Handles(t)'
    BY <1>3 DEF Handles
  (* t is the owner and goes on to b.                                      *)
  <2>b. ASSUME NEW a \in 2..18, NEW b \in 2..19, Goes(t, a, b), mm' = mm,
               b \in 13..19 => irq', b = 19 => mode' = RF_RECEIVER
        PROVE  LayerInv'
    <3>1. at[t] = a /\ at'[t] = b
      BY <1>p, <2>b
    <3>2. mm = t
      BY <1>3, <3>1 DEF Mutex, Inside
    <3>3. LayerHeld(t)'
      BY <2>a, <2>b, <3>1 DEF LayerHeld
    <3> QED BY <1>b, <2>b, <3>2, <3>3
  <2>c. at[t] \in 13..19 => (irq = TRUE) /\ (at[t] = 19 => mode = RF_RECEIVER)
    <3>1. SUFFICES ASSUME at[t] \in 13..19
                   PROVE  irq /\ (at[t] = 19 => mode = RF_RECEIVER)
      BY <1>a
    <3>2. mm = t
      BY <1>3, <3>1 DEF Mutex, Inside
    <3>3. LayerHeld(t)
      BY <3>2 DEF LayerInv
    <3> QED BY <1>3, <3>1, <3>3 DEF LayerHeld
  <2>1. CASE Send(t) /\ Goes(t, 0, 1)
    <3>1. UNCHANGED <<mm, mode, irq>> /\ ~Inside(t)
      BY <1>3, <1>p, <2>1 DEF Send, layer, Inside
    <3> QED BY <1>3, <1>d, <2>1, <3>1
  <2>2. CASE Lock(t) /\ Goes(t, 1, 2)
    <3>1. mm' = t /\ at'[t] = 2
      BY <1>p, <2>2 DEF Lock
    <3>2. LayerHeld(t)'
      BY <2>a, <3>1 DEF LayerHeld
    <3> QED BY <1>b, <3>1, <3>2
  <2>3. CASE Unlock(t) /\ Goes(t, 19, 0)
    <3>1. mm' = Nobody /\ UNCHANGED <<mode, irq>>
      BY <2>3 DEF Unlock
    <3>2. irq = TRUE /\ mode = RF_RECEIVER
      <4>1. at[t] \in 13..19 /\ at[t] = 19
        BY <1>p, <2>3
      <4> QED BY <2>c, <4>1
    <3> QED BY <1>c, <3>1, <3>2
  <2>4. CASE \/ QuietAir(t) /\ Goes(t, 3, 4)
             \/ NoisyAir(t) /\ Goes(t, 3, 2)
    <3>1. mm' = mm /\ (Goes(t, 3, 4) \/ Goes(t, 3, 2))
      BY <2>4 DEF QuietAir, NoisyAir, layer
    <3> QED BY <2>b, <3>1
  <2>5. CASE SetIrq(t) /\ irq' = FALSE /\ Goes(t, 4, 5)
    <3>1. mm' = mm
      BY <2>5 DEF SetIrq
    <3> QED BY <2>b, <2>5, <3>1
  <2>6. CASE SetIrq(t) /\ irq' = TRUE /\ Goes(t, 12, 13)
    <3>1. mm' = mm
      BY <2>6 DEF SetIrq
    <3> QED BY <2>b, <2>6, <3>1
  <2>7. CASE \/ StoreMode(t) /\ Goes(t, 6, 7)
             \/ StoreMode(t) /\ Goes(t, 11, 12)
    <3>1. mm' = mm /\ (Goes(t, 6, 7) \/ Goes(t, 11, 12))
      BY <2>7 DEF StoreMode
    <3> QED BY <2>b, <3>1
  <2>8. CASE StoreMode(t) /\ Goes(t, 16, 17)
    <3>1. mm' = mm /\ irq' = irq
      BY <2>8 DEF StoreMode
    <3>2. irq = TRUE
      <4>1. at[t] \in 13..19
        BY <1>p, <2>8
      <4> QED BY <2>c, <4>1
    <3> QED BY <2>b, <2>8, <3>1, <3>2
  <2>9. CASE StoreMode(t) /\ mode' = RF_RECEIVER /\ Goes(t, 18, 19)
    <3>1. mm' = mm /\ irq' = irq
      BY <2>9 DEF StoreMode
    <3>2. irq = TRUE
      <4>1. at[t] \in 13..19
        BY <1>p, <2>9
      <4> QED BY <2>c, <4>1
    <3> QED BY <2>b, <2>9, <3>1, <3>2
  <2>10. CASE Poll(t) /\ (Goes(t, 14, 15) \/ Goes(t, 14, 13))
    <3>1. mm' = mm /\ irq' = irq
      BY <2>10 DEF Poll, layer
    <3>2. irq = TRUE
      <4>1. at[t] \in 13..19
        BY <1>p, <2>10
      <4> QED BY <2>c, <4>1
    <3> QED BY <2>b, <2>10, <3>1, <3>2
  <2>11. ASSUME NEW n \in {2, 5, 7, 8, 9, 10, 13, 15, 17}, ioctl(t), Goes(t, n, n + 1)
         PROVE  LayerInv'
    <3>1. mm' = mm /\ irq' = irq
      BY <2>11 DEF ioctl, layer
    <3>2. n \in {13, 15, 17} => irq = TRUE
      <4>1. n + 1 \in Nat
        OBVIOUS
      <4>2. at[t] = n
        BY <1>p, <2>11, <4>1
      <4> QED BY <2>c, <4>2
    <3>3. n \in 2..18 /\ n + 1 \in 2..19 /\ n + 1 # 19
      OBVIOUS
    <3>4. n + 1 \in 13..19 => n \in {13, 15, 17}
      OBVIOUS
    <3> QED BY <2>b, <2>11, <3>1, <3>2, <3>3, <3>4
  <2> QED
    BY <1>3, <2>1, <2>2, <2>3, <2>4, <2>5, <2>6, <2>7, <2>8, <2>9, <2>10, <2>11, Zenon
       DEF SendMove
<1>4. CASE handling /\ IrqMove
  <2>a. Handles(Radio)
    BY <1>4 DEF Handles
  (* Radio is the owner and goes on to b.                                  *)
  <2>b. ASSUME NEW a \in 4..7, NEW b \in 4..8, Goes(Radio, a, b), handling' = TRUE,
               UNCHANGED <<mm, mode>>, b = 8 => irq'
        PROVE  LayerInv'
    <3>1. at[Radio] = a /\ at'[Radio] = b /\ Handles(Radio)'
      BY <1>p, <2>b DEF Handles
    <3>2. mm = Radio
      BY <2>a, <3>1 DEF Mutex, Inside
    <3>3. mode = RF_RECEIVER
      BY <2>a, <3>2 DEF LayerInv, LayerHeld
    <3>4. LayerHeld(Radio)'
      BY <2>b, <3>1, <3>3 DEF LayerHeld
    <3> QED BY <1>b, <2>b, <3>2, <3>4
  <2>1. CASE \/ TestMode /\ (Goes(Radio, 1, 2) \/ Goes(Radio, 1, 0))
             \/ ioctl(Radio) /\ Goes(Radio, 2, 3)
             \/ Deliver /\ Goes(Radio, 9, 0)
    <3>1. UNCHANGED <<mm, mode, irq>>
      BY <2>1 DEF TestMode, ioctl, Deliver, layer
    <3>2. PICK a, b : Goes(Radio, a, b) /\ a \in {1, 2, 9} /\ b \in Nat
      BY <2>1
    <3>3. ~Inside(Radio)
      BY <1>p, <2>a, <3>2 DEF Inside
    <3> QED BY <1>d, <3>1, <3>2, <3>3
  <2>2. CASE Lock(Radio) /\ handling' = TRUE /\ Goes(Radio, 3, 4)
    <3>1. mm = Nobody /\ mm' = Radio /\ mode' = mode /\ at'[Radio] = 4 /\ Handles(Radio)'
      BY <1>p, <2>2 DEF Lock, Handles
    <3>2. mode = RF_RECEIVER
      BY <3>1 DEF LayerInv
    <3>3. LayerHeld(Radio)'
      BY <3>1, <3>2 DEF LayerHeld
    <3> QED BY <1>b, <3>1, <3>3
  <2>3. CASE SetIrq(Radio) /\ handling' = TRUE /\ Goes(Radio, 4, 5)
    <3>1. UNCHANGED <<mm, mode>>
      BY <2>3 DEF SetIrq
    <3> QED BY <2>b, <2>3, <3>1
  <2>4. CASE ioctl(Radio) /\ handling' = TRUE /\ Goes(Radio, 5, 6)
    <3>1. UNCHANGED <<mm, mode>>
      BY <2>4 DEF ioctl, layer
    <3> QED BY <2>b, <2>4, <3>1
  <2>5. CASE Drain /\ handling' = TRUE /\ (Goes(Radio, 6, 5) \/ Goes(Radio, 6, 7))
    <3>1. UNCHANGED <<mm, mode>>
      BY <2>5 DEF Drain
    <3> QED BY <2>b, <2>5, <3>1
  <2>6. CASE SetIrq(Radio) /\ irq' = TRUE /\ handling' = TRUE /\ Goes(Radio, 7, 8)
    <3>1. UNCHANGED <<mm, mode>>
      BY <2>6 DEF SetIrq
    <3> QED BY <2>b, <2>6, <3>1
  <2>7. CASE Unlock(Radio) /\ Goes(Radio, 8, 9)
    <3>1. mm' = Nobody /\ UNCHANGED <<mode, irq>> /\ at[Radio] = 8
      BY <1>p, <2>7 DEF Unlock
    <3>2. mm = Radio
      BY <2>a, <3>1 DEF Mutex, Inside
    <3>3. mode = RF_RECEIVER /\ irq = TRUE
      BY <1>a, <2>a, <3>1, <3>2 DEF LayerInv, LayerHeld
    <3> QED BY <1>c, <3>1, <3>3
  <2> QED BY <1>4, <2>1, <2>2, <2>3, <2>4, <2>5, <2>6, <2>7, Zenon DEF IrqMove
<1> QED BY <1>1, <1>2, <1>3, <1>4 DEF Moves

-----------------------------------------------------------------------------
(* What the radio does, by where the owner of mm is, unless a transfer was *)
(* mixed up.                                                               *)

OnlyIncoming(q) == \A i \in 1..Len(q) : q[i] = Incoming

Listening == hw_mode = RF_RECEIVER /\ OnlyIncoming(fifo)

ChipHeld(t) ==
  IF Handles(t)
    THEN Listening /\ (at[t] = 6 /\ reg[t] => fifo # <<>>)
    ELSE /\ at[t] \in {2, 3, 4, 5, 18, 19} => Listening
         /\ at[t] \in {6, 7, 8, 9, 10, 16, 17} => hw_mode = RF_STANDBY
         /\ at[t] \in 11..15 => hw_mode = RF_TRANSMITTER /\ fifo \in {<<>>, <<t, t>>}
         /\ at[t] \in {8, 16, 17} => fifo = <<>>
         /\ at[t] = 9 => fifo = <<t>>
         /\ at[t] = 10 => fifo = <<t, t>>

ChipParts ==
  /\ mm = Nobody => Listening
  /\ \A t \in Thread : mm = t => ChipHeld(t)
  /\ OnlyIncoming(received)

ChipInv == ~mixed => ChipParts

LEMMA OnlyIncomingFacts ==
  /\ OnlyIncoming(<<>>)
  /\ \A q \in Seq(Bytes) : OnlyIncoming(q) => OnlyIncoming(q \o <<Incoming, Incoming>>)
  /\ \A q \in Seq(Bytes) : OnlyIncoming(q) => OnlyIncoming(Append(q, Incoming))
  /\ \A q \in Seq(Bytes) : OnlyIncoming(q) /\ q # <<>> =>
       Head(q) = Incoming /\ OnlyIncoming(Tail(q))
<1>1. Incoming \in Bytes
  BY DEF Bytes
<1>2. OnlyIncoming(<<>>)
  BY DEF OnlyIncoming
<1>3. ASSUME NEW q \in Seq(Bytes), OnlyIncoming(q)
      PROVE  OnlyIncoming(q \o <<Incoming, Incoming>>)
  <2>1. /\ Len(q \o <<Incoming, Incoming>>) = Len(q) + 2
        /\ \A i \in 1..Len(q) : (q \o <<Incoming, Incoming>>)[i] = q[i]
        /\ \A i \in 1..2 : (q \o <<Incoming, Incoming>>)[Len(q) + i] = <<Incoming, Incoming>>[i]
    <3>1. <<Incoming, Incoming>> \in Seq(Bytes) /\ Len(<<Incoming, Incoming>>) = 2
      BY <1>1
    <3> QED BY <3>1
  <2>2. \A i \in 1..2 : <<Incoming, Incoming>>[i] = Incoming
    OBVIOUS
  <2>3. ASSUME NEW i \in 1..(Len(q) + 2)
        PROVE  (q \o <<Incoming, Incoming>>)[i] = Incoming
    <3>1. i \in 1..Len(q) \/ \E j \in 1..2 : i = Len(q) + j
      <4>1. Len(q) \in Nat
        OBVIOUS
      <4>2. i \notin 1..Len(q) => i - Len(q) \in 1..2 /\ i = Len(q) + (i - Len(q))
        BY <4>1
      <4> QED BY <4>2
    <3> QED BY <1>3, <2>1, <2>2, <3>1, Zenon DEF OnlyIncoming
  <2> QED BY <2>1, <2>3, Zenon DEF OnlyIncoming
<1>4. ASSUME NEW q \in Seq(Bytes), OnlyIncoming(q)
      PROVE  OnlyIncoming(Append(q, Incoming))
  <2>1. /\ Len(Append(q, Incoming)) = Len(q) + 1
        /\ Append(q, Incoming)[Len(q) + 1] = Incoming
        /\ \A i \in 1..Len(q) : Append(q, Incoming)[i] = q[i]
    BY <1>1, AppendAny
  <2>2. \A i \in 1..(Len(q) + 1) : i \in 1..Len(q) \/ i = Len(q) + 1
    OBVIOUS
  <2> QED BY <1>4, <2>1, <2>2, Zenon DEF OnlyIncoming
<1>5. ASSUME NEW q \in Seq(Bytes), OnlyIncoming(q), q # <<>>
      PROVE  Head(q) = Incoming /\ OnlyIncoming(Tail(q))
  <2>1. Len(q) \in Nat /\ Len(q) >= 1 /\ Head(q) = q[1]
    BY <1>5
  <2>2. Head(q) = Incoming
    BY <1>5, <2>1 DEF OnlyIncoming
  <2>3. /\ Len(Tail(q)) = Len(q) - 1
        /\ \A i \in 1..(Len(q) - 1) : Tail(q)[i] = q[i + 1]
    BY <1>5
  <2>4. \A i \in 1..(Len(q) - 1) : i + 1 \in 1..Len(q)
    BY <2>1
  <2>5. \A i \in 1..Len(Tail(q)) : Tail(q)[i] = Incoming
    BY <1>5, <2>3, <2>4, Zenon DEF OnlyIncoming
  <2> QED BY <2>2, <2>5, Zenon DEF OnlyIncoming
<1> QED BY <1>2, <1>3, <1>4, <1>5

LEMMA ChipInit == Init => ChipInv
BY Threads, OnlyIncomingFacts DEF Init, ChipInv, ChipParts, Listening

(* What a transfer of each kind does to the radio.                         *)
LEMMA TransfersDo ==
  /\ \A r, b : Transfers(Reads(r), b) => hw_mode' = hw_mode /\ fifo' = fifo
  /\ \A m, b : Transfers(Writes(m), b) =>
       hw_mode' = m /\ fifo' = IF hw_mode = RF_TRANSMITTER THEN <<>> ELSE fifo
  /\ \A b : Transfers(Clears, b) => hw_mode' = hw_mode /\ fifo' = <<>>
  /\ \A b : Transfers(Pushes, b) /\ Len(fifo) < FifoSize =>
       hw_mode' = hw_mode /\ fifo' = Append(fifo, b)
BY DoAndArg DEF Transfers

(* A transfer that is not mixed up, and leaves no mix-up behind.           *)
LEMMA CleanTransfer ==
  ASSUME NEW t \in Thread, ioctl(t), ~mixed'
  PROVE  /\ Transfers(NextStep(t), t)
         /\ UNCHANGED <<mm, received>>
         /\ \/ ~mixed
            \/ NextStep(t) = Clears /\ hw_mode = RF_STANDBY /\ received = <<>>
<1> DEFINE s == NextStep(t)
<1>1. s = xfer
  BY DEF ioctl
<1>2. Transferred(s, xfer) = {s}
  BY <1>1 DEF Transferred
<1>3. Transfers(s, t)
  <2>1. PICK x \in Transferred(s, xfer) : Transfers(x, IF s = xfer THEN t ELSE Garbage)
    BY DEF ioctl
  <2>2. x = s
    BY <1>2, <2>1
  <2> QED BY <1>1, <2>1, <2>2
<1>4. ~mixed \/ (s = Clears /\ hw_mode = RF_STANDBY /\ received = <<>>)
  BY <1>1 DEF ioctl
<1>5. UNCHANGED <<mm, received>>
  BY DEF ioctl, layer
<1> QED BY <1>3, <1>4, <1>5

(* A thread that waits or is idle leaves the radio as it is.               *)
LEMMA ChipOutside ==
  ASSUME TypeInv, Mutex, ChipParts, NEW t \in Thread, ~Inside(t), NEW a, NEW b,
         Goes(t, a, b), handling' = handling \/ t = Radio,
         UNCHANGED <<mm, hw_mode, fifo>>, OnlyIncoming(received'),
         \A u \in Thread \ {t} : reg'[u] = reg[u]
  PROVE  ChipParts'
<1>a. Placed
  BY DEF TypeInv
<1>1. ASSUME NEW u \in Thread, mm' = u
      PROVE  ChipHeld(u)'
  <2>1. mm = u /\ u # t /\ ChipHeld(u) /\ reg'[u] = reg[u]
    BY <1>1 DEF Mutex, ChipParts
  <2>2. at'[u] = at[u] /\ (Handles(u)' <=> Handles(u))
    BY <1>a, <2>1, OthersStay
  <2> QED BY <2>1, <2>2 DEF ChipHeld, Listening, OnlyIncoming
<1>2. mm' = Nobody => Listening'
  BY DEF ChipParts, Listening, OnlyIncoming
<1>3. OnlyIncoming(received)'
  BY DEF OnlyIncoming
<1> QED BY <1>1, <1>2, <1>3 DEF ChipParts

LEMMA ChipOwner ==
  ASSUME NEW t \in Thread, mm' = t, ChipHeld(t)', OnlyIncoming(received)'
  PROVE  ChipParts'
BY Threads DEF ChipParts

(* The radio's own steps.                                                  *)
LEMMA ChipAlone ==
  ASSUME TypeInv, Mutex, ChipParts, PacketArrives \/ Transmits
  PROVE  ChipParts'
<1> USE Threads, ModesAre
<1>a. fifo \in Seq(Bytes)
  BY DEF TypeInv, ChipType
<1>1. UNCHANGED <<at, handling, reg, mm, received, hw_mode>>
  BY DEF PacketArrives, Transmits, calls, layer
<1>2. CASE PacketArrives
  <2>1. hw_mode = RF_RECEIVER /\ fifo' = fifo \o <<Incoming, Incoming>>
    BY <1>2 DEF PacketArrives
  <2>2. Listening => Listening' /\ fifo' # <<>>
    <3>1. OnlyIncoming(fifo) => OnlyIncoming(fifo \o <<Incoming, Incoming>>)
      BY <1>a, OnlyIncomingFacts
    <3>2. OnlyIncoming(fifo) => OnlyIncoming(fifo')
      BY <2>1, <3>1
    <3>3. fifo' # <<>>
      <4>1. Len(fifo \o <<Incoming, Incoming>>) = Len(fifo) + 2 /\ Len(fifo) \in Nat
        BY <1>a
      <4> QED BY <2>1, <4>1
    <3> QED BY <1>1, <3>2, <3>3 DEF Listening, OnlyIncoming
  <2>3. ASSUME NEW t \in Thread, mm' = t
        PROVE  ChipHeld(t)'
    <3>1. mm = t /\ ChipHeld(t) /\ Inside(t)
      BY <1>1, <2>3 DEF ChipParts, Mutex
    <3>2. CASE Handles(t)
      <4>1. Listening
        BY <3>1, <3>2 DEF ChipHeld
      <4> QED BY <1>1, <2>2, <3>2, <4>1 DEF ChipHeld, Handles
    <3>3. CASE ~Handles(t)
      <4>1. at[t] \in {2, 3, 4, 5, 18, 19}
        BY <2>1, <3>1, <3>3 DEF ChipHeld, Inside
      <4>2. Listening
        BY <3>1, <3>3, <4>1 DEF ChipHeld
      <4>3. at'[t] \in {2, 3, 4, 5, 18, 19} /\ ~Handles(t)'
        BY <1>1, <3>3, <4>1 DEF Handles
      <4> QED BY <2>2, <4>2, <4>3 DEF ChipHeld
    <3> QED BY <3>2, <3>3
  <2>4. mm' = Nobody => Listening'
    BY <1>1, <2>2 DEF ChipParts
  <2> QED BY <1>1, <2>3, <2>4 DEF ChipParts, OnlyIncoming
<1>3. CASE Transmits
  <2>1. hw_mode = RF_TRANSMITTER /\ fifo' = <<>>
    BY <1>3 DEF Transmits
  <2>2. ASSUME NEW t \in Thread, mm' = t
        PROVE  ChipHeld(t)'
    <3>1. mm = t /\ ChipHeld(t) /\ Inside(t)
      BY <1>1, <2>2 DEF ChipParts, Mutex
    <3>2. ~Handles(t)
      BY <2>1, <3>1 DEF ChipHeld, Listening
    <3>3. at[t] \in 11..15
      BY <2>1, <3>1, <3>2 DEF ChipHeld, Inside, Listening
    <3>4. at'[t] \in 11..15 /\ ~Handles(t)' /\ hw_mode' = RF_TRANSMITTER
      BY <1>1, <2>1, <3>2, <3>3 DEF Handles
    <3> QED BY <2>1, <3>4 DEF ChipHeld
  <2>3. mm' # Nobody
    BY <1>1, <2>1 DEF ChipParts, Listening
  <2> QED BY <1>1, <2>2, <2>3 DEF ChipParts, OnlyIncoming
<1> QED BY <1>2, <1>3

(* A transfer by the owner of mm while it sends.                           *)
LEMMA ChipSends ==
  ASSUME TypeInv, Mutex, ChipInv, NEW t \in Thread, ~Handles(t), handling' = handling,
         NEW n \in {2, 5, 7, 8, 9, 10, 13, 15, 17}, Goes(t, n, n + 1), ioctl(t), ~mixed'
  PROVE  ChipParts'
<1> USE Threads, ModesAre
<1> DEFINE s == NextStep(t)
<1>a. Placed /\ fifo \in Seq(Bytes) /\ Len(fifo) \in Nat /\ t \in Bytes
  BY DEF TypeInv, ChipType, Bytes
<1>b. at[t] = n /\ at'[t] = n + 1 /\ ~Handles(t)'
  BY <1>a DEF Goes, Placed, Handles
<1>c. /\ Transfers(s, t) /\ UNCHANGED <<mm, received>>
      /\ ~mixed \/ (s = Clears /\ hw_mode = RF_STANDBY /\ received = <<>>)
  BY CleanTransfer
<1>d. mm = t /\ mm' = t
  BY <1>b, <1>c DEF Mutex, Inside
<1>e. /\ n \in {2, 13} => hw_mode' = hw_mode /\ fifo' = fifo
      /\ n = 5 => hw_mode' = RF_STANDBY
      /\ n = 7 => hw_mode' = hw_mode /\ fifo' = <<>>
      /\ n = 10 => /\ hw_mode' = RF_TRANSMITTER
                   /\ hw_mode = RF_STANDBY => fifo' = fifo
      /\ n = 15 => /\ hw_mode' = RF_STANDBY
                   /\ hw_mode = RF_TRANSMITTER => fifo' = <<>>
      /\ n = 17 => /\ hw_mode' = RF_RECEIVER
                   /\ hw_mode = RF_STANDBY => fifo' = fifo
  <2>1. /\ n = 2 => s = Reads("RSTSREG")
        /\ n = 13 => s = Reads("FTPRIREG")
        /\ n \in {5, 15} => s = Writes(RF_STANDBY)
        /\ n = 7 => s = Clears
        /\ n = 10 => s = Writes(RF_TRANSMITTER)
        /\ n = 17 => s = Writes(RF_RECEIVER)
    BY <1>b, SendStep
  <2> QED BY <1>c, <2>1, TransfersDo
<1>f. n \in {8, 9} /\ Len(fifo) < FifoSize => hw_mode' = hw_mode /\ fifo' = Append(fifo, t)
  <2>1. n \in {8, 9} => s = Pushes
    BY <1>b, SendStep
  <2> QED BY <1>c, <2>1, TransfersDo
<1>g. n # 7 => s # Clears
  <2>1. /\ n \in {2, 13} => s.do = "get_register"
        /\ n \in {5, 10, 15, 17} => s.do = "set_mode"
        /\ n \in {8, 9} => s.do = "write_fifo"
    BY <1>b, SendStep, DoAndArg
  <2> QED BY <2>1, DoAndArg
<1>h. OnlyIncoming(received)'
  <2>1. OnlyIncoming(received)
    BY <1>c, OnlyIncomingFacts DEF ChipInv, ChipParts
  <2> QED BY <1>c, <2>1 DEF OnlyIncoming
<1>i. n # 7 => ChipHeld(t)
  BY <1>c, <1>d, <1>g DEF ChipInv, ChipParts
<1>j. SUFFICES ChipHeld(t)'
  BY <1>d, <1>h, ChipOwner
<1>1. CASE n = 2
  <2>1. Listening /\ at'[t] = 3
    BY <1>1, <1>b, <1>i DEF ChipHeld
  <2>2. Listening'
    BY <1>1, <1>e, <2>1 DEF Listening, OnlyIncoming
  <2> QED BY <1>b, <2>1, <2>2 DEF ChipHeld
<1>2. CASE n = 5
  <2>1. hw_mode' = RF_STANDBY /\ at'[t] = 6
    BY <1>2, <1>b, <1>e
  <2> QED BY <1>b, <2>1 DEF ChipHeld
<1>3. CASE n = 7
  <2>1. hw_mode = RF_STANDBY
    BY <1>3, <1>b, <1>c, <1>d DEF ChipInv, ChipParts, ChipHeld
  <2>2. hw_mode' = RF_STANDBY /\ fifo' = <<>> /\ at'[t] = 8
    BY <1>3, <1>b, <1>e, <2>1
  <2> QED BY <1>b, <2>2 DEF ChipHeld
<1>4. CASE n = 8
  <2>1. fifo = <<>> /\ hw_mode = RF_STANDBY
    BY <1>4, <1>b, <1>i DEF ChipHeld
  <2>2. Len(fifo) < FifoSize
    <3>1. Len(<<>>) = 0
      OBVIOUS
    <3>2. Len(fifo) = 0
      BY <2>1, <3>1, Zenon
    <3> QED BY <3>2
  <2>3. hw_mode' = RF_STANDBY /\ fifo' = Append(fifo, t) /\ at'[t] = 9
    BY <1>4, <1>b, <1>f, <2>1, <2>2
  <2>4. fifo' = <<t>>
    <3>1. Append(<<>>, t) = <<t>>
      OBVIOUS
    <3> QED BY <2>1, <2>3, <3>1, Zenon
  <2> QED BY <1>b, <2>3, <2>4 DEF ChipHeld
<1>5. CASE n = 9
  <2>1. fifo = <<t>> /\ hw_mode = RF_STANDBY
    BY <1>5, <1>b, <1>i DEF ChipHeld
  <2>2. Len(fifo) = 1 /\ fifo[1] = t
    <3>1. Len(<<t>>) = 1 /\ <<t>>[1] = t
      OBVIOUS
    <3> QED BY <2>1, <3>1, Zenon
  <2>3. Append(fifo, t) = <<t, t>>
    BY <1>a, <2>2, AppendToOne
  <2>4. hw_mode' = RF_STANDBY /\ fifo' = <<t, t>> /\ at'[t] = 10
    BY <1>5, <1>b, <1>f, <2>1, <2>2, <2>3
  <2> QED BY <1>b, <2>4 DEF ChipHeld
<1>6. CASE n = 10
  <2>1. fifo = <<t, t>> /\ hw_mode = RF_STANDBY
    BY <1>6, <1>b, <1>i DEF ChipHeld
  <2>2. hw_mode' = RF_TRANSMITTER /\ fifo' = <<t, t>> /\ at'[t] = 11
    BY <1>6, <1>b, <1>e, <2>1
  <2> QED BY <1>b, <2>2 DEF ChipHeld
<1>7. CASE n = 13
  <2>1. hw_mode = RF_TRANSMITTER /\ fifo \in {<<>>, <<t, t>>}
    BY <1>7, <1>b, <1>i DEF ChipHeld
  <2>2. hw_mode' = RF_TRANSMITTER /\ fifo' \in {<<>>, <<t, t>>} /\ at'[t] = 14
    BY <1>7, <1>b, <1>e, <2>1
  <2> QED BY <1>b, <2>2 DEF ChipHeld
<1>8. CASE n = 15
  <2>1. hw_mode = RF_TRANSMITTER
    BY <1>8, <1>b, <1>i DEF ChipHeld
  <2>2. hw_mode' = RF_STANDBY /\ fifo' = <<>> /\ at'[t] = 16
    BY <1>8, <1>b, <1>e, <2>1
  <2> QED BY <1>b, <2>2 DEF ChipHeld
<1>9. CASE n = 17
  <2>1. hw_mode = RF_STANDBY /\ fifo = <<>>
    BY <1>9, <1>b, <1>i DEF ChipHeld
  <2>2. hw_mode' = RF_RECEIVER /\ fifo' = <<>> /\ at'[t] = 18
    BY <1>9, <1>b, <1>e, <2>1
  <2>3. Listening'
    BY <2>2, OnlyIncomingFacts DEF Listening, OnlyIncoming
  <2> QED BY <1>b, <2>2, <2>3 DEF ChipHeld
<1> QED BY <1>1, <1>2, <1>3, <1>4, <1>5, <1>6, <1>7, <1>8, <1>9

LEMMA ChipInvNext ==
  ASSUME TypeInv, Mutex, ChipInv, [Next]_vars, Moves
  PROVE  ChipInv'
<1> USE Threads
<1> SUFFICES ASSUME ~mixed' PROVE ChipParts'
  BY DEF ChipInv
<1>a. Placed /\ fifo \in Seq(Bytes) /\ received \in Seq(Bytes)
  BY DEF TypeInv, ChipType, LayerType
<1>p. ASSUME NEW t \in Thread, NEW a, NEW b \in Nat, Goes(t, a, b)
      PROVE  at[t] = a /\ at'[t] = b
  BY <1>a, <1>p DEF Goes, Placed
(* A step that makes no transfer keeps mixed, so nothing was mixed up.     *)
<1>q. ChipInv /\ UNCHANGED spi => ChipParts
  BY DEF ChipInv, spi
<1>1. CASE Stays
  <2>1. CASE PacketArrives \/ Transmits
    <3>1. ChipParts
      BY <1>q, <2>1 DEF PacketArrives, Transmits
    <3> QED BY <2>1, <3>1, ChipAlone
  <2>2. CASE on_irq1_event \/ UNCHANGED vars \/ \E t \in Thread : Fill(t)
    <3>1. UNCHANGED <<at, handling, mm, received>>
      BY <1>1 DEF Stays
    <3>2. UNCHANGED <<reg, hw_mode, fifo, mixed>>
      BY <2>2 DEF on_irq1_event, vars, calls, spi, chip, Fill
    <3>3. ChipParts
      BY <3>2 DEF ChipInv
    <3> QED BY <3>1, <3>2, <3>3 DEF ChipParts, ChipHeld, Listening, OnlyIncoming, Handles
  <2> QED BY <1>1, <2>1, <2>2 DEF Stays
<1>2. CASE /\ on_irq1_event /\ ~handling /\ Goes(Radio, 0, 1)
           /\ UNCHANGED <<mm, mode, irq, received>>
  <2>1. ~Inside(Radio)
    BY <1>2, <1>p DEF Inside, Handles
  <2>2. UNCHANGED <<reg, spi, hw_mode, fifo>>
    BY <1>2 DEF on_irq1_event
  <2>3. ChipParts
    BY <1>q, <2>2
  <2>4. OnlyIncoming(received')
    BY <1>2, <2>3 DEF ChipParts
  <2> QED BY <1>2, <2>1, <2>2, <2>3, <2>4, ChipOutside
<1>3. ASSUME NEW t \in Thread, ~Handles(t), handling' = handling, SendMove(t)
      PROVE  ChipParts'
  <2>a. ~Handles(t)'
    BY <1>3 DEF Handles
  (* t is the owner and does not transfer.                                 *)
  <2>b. ASSUME NEW a \in 2..18, NEW b \in 2..19, Goes(t, a, b),
               UNCHANGED <<mm, received, hw_mode, fifo, spi>>,
               \/ a \in {2, 3, 4, 5, 18, 19} /\ b \in {2, 3, 4, 5, 18, 19}
               \/ a \in 11..15 /\ b \in 11..15
               \/ a = 6 /\ b = 7
               \/ a = 16 /\ b = 17
        PROVE  ChipParts'
    <3>1. at[t] = a /\ at'[t] = b
      BY <1>p, <2>b
    <3>2. mm = t
      BY <1>3, <3>1 DEF Mutex, Inside
    <3>3. ChipParts /\ ChipHeld(t)
      BY <1>q, <2>b, <3>2 DEF ChipParts
    <3>4. ChipHeld(t)'
      <4>1. CASE a \in {2, 3, 4, 5, 18, 19} /\ b \in {2, 3, 4, 5, 18, 19}
        <5>1. Listening
          BY <1>3, <3>1, <3>3, <4>1 DEF ChipHeld
        <5>2. Listening'
          BY <2>b, <5>1 DEF Listening, OnlyIncoming
        <5> QED BY <2>a, <3>1, <4>1, <5>2 DEF ChipHeld
      <4>2. CASE a \in 11..15 /\ b \in 11..15
        BY <1>3, <2>a, <2>b, <3>1, <3>3, <4>2 DEF ChipHeld
      <4>3. CASE a = 6 /\ b = 7
        BY <1>3, <2>a, <2>b, <3>1, <3>3, <4>3 DEF ChipHeld
      <4>4. CASE a = 16 /\ b = 17
        BY <1>3, <2>a, <2>b, <3>1, <3>3, <4>4 DEF ChipHeld
      <4> QED BY <2>b, <4>1, <4>2, <4>3, <4>4
    <3>5. OnlyIncoming(received)'
      BY <2>b, <3>3 DEF ChipParts, OnlyIncoming
    <3> QED BY <2>b, <3>2, <3>4, <3>5, ChipOwner
  <2>1. CASE Send(t) /\ Goes(t, 0, 1)
    <3>1. UNCHANGED <<mm, received, hw_mode, fifo, spi, reg>> /\ ~Inside(t)
      BY <1>3, <1>p, <2>1 DEF Send, layer, chip, Inside
    <3>2. ChipParts
      BY <1>q, <3>1
    <3>3. OnlyIncoming(received')
      BY <3>1, <3>2 DEF ChipParts
    <3> QED BY <1>3, <2>1, <3>1, <3>2, <3>3, ChipOutside
  <2>2. CASE Lock(t) /\ Goes(t, 1, 2)
    <3>1. mm = Nobody /\ mm' = t /\ at'[t] = 2
      BY <1>p, <2>2 DEF Lock
    <3>2. UNCHANGED <<received, hw_mode, fifo, spi>>
      BY <2>2 DEF Lock, chip
    <3>3. ChipParts
      BY <1>q, <3>2
    <3>4. Listening'
      BY <3>1, <3>2, <3>3 DEF ChipParts, Listening, OnlyIncoming
    <3>5. ChipHeld(t)'
      BY <2>a, <3>1, <3>4 DEF ChipHeld
    <3>6. OnlyIncoming(received)'
      BY <3>2, <3>3 DEF ChipParts, OnlyIncoming
    <3> QED BY <3>1, <3>5, <3>6, ChipOwner
  <2>3. CASE Unlock(t) /\ Goes(t, 19, 0)
    <3>1. mm' = Nobody /\ at[t] = 19 /\ UNCHANGED <<received, hw_mode, fifo, spi>>
      BY <1>p, <2>3 DEF Unlock, chip
    <3>2. ChipParts /\ mm = t
      BY <1>3, <1>q, <3>1 DEF Mutex, Inside
    <3>3. Listening
      BY <1>3, <3>1, <3>2 DEF ChipParts, ChipHeld
    <3> QED BY <3>1, <3>2, <3>3 DEF ChipParts, Listening, OnlyIncoming
  <2>4. ASSUME QuietAir(t) \/ NoisyAir(t) \/ SetIrq(t) \/ StoreMode(t) \/ Poll(t)
        PROVE  UNCHANGED <<mm, received, hw_mode, fifo, spi>>
    BY <2>4 DEF QuietAir, NoisyAir, SetIrq, StoreMode, Poll, layer, chip
  <2>5. CASE \/ QuietAir(t) /\ Goes(t, 3, 4)
             \/ NoisyAir(t) /\ Goes(t, 3, 2)
             \/ SetIrq(t) /\ Goes(t, 4, 5)
    <3>1. Goes(t, 3, 4) \/ Goes(t, 3, 2) \/ Goes(t, 4, 5)
      BY <2>5, Zenon
    <3>2. UNCHANGED <<mm, received, hw_mode, fifo, spi>>
      BY <2>4, <2>5, Zenon
    <3> QED BY <2>b, <3>1, <3>2
  <2>6. CASE \/ SetIrq(t) /\ Goes(t, 12, 13)
             \/ StoreMode(t) /\ Goes(t, 11, 12)
             \/ Poll(t) /\ Goes(t, 14, 15)
             \/ Poll(t) /\ Goes(t, 14, 13)
    <3>1. Goes(t, 12, 13) \/ Goes(t, 11, 12) \/ Goes(t, 14, 15) \/ Goes(t, 14, 13)
      BY <2>6, Zenon
    <3>2. UNCHANGED <<mm, received, hw_mode, fifo, spi>>
      BY <2>4, <2>6, Zenon
    <3> QED BY <2>b, <3>1, <3>2
  <2>7. CASE \/ StoreMode(t) /\ Goes(t, 6, 7)
             \/ StoreMode(t) /\ Goes(t, 16, 17)
             \/ StoreMode(t) /\ Goes(t, 18, 19)
    <3>1. Goes(t, 6, 7) \/ Goes(t, 16, 17) \/ Goes(t, 18, 19)
      BY <2>7, Zenon
    <3>2. UNCHANGED <<mm, received, hw_mode, fifo, spi>>
      BY <2>4, <2>7, Zenon
    <3> QED BY <2>b, <3>1, <3>2
  <2>8. ASSUME NEW n \in {2, 5, 7, 8, 9, 10, 13, 15, 17}, ioctl(t), Goes(t, n, n + 1)
        PROVE  ChipParts'
    BY <1>3, <2>8, ChipSends
  <2> QED BY <1>3, <2>1, <2>2, <2>3, <2>5, <2>6, <2>7, <2>8, Zenon DEF SendMove
<1>4. CASE handling /\ IrqMove
  <2>a. Handles(Radio)
    BY <1>4 DEF Handles
  <2>1. CASE \/ TestMode /\ (Goes(Radio, 1, 2) \/ Goes(Radio, 1, 0))
             \/ Deliver /\ Goes(Radio, 9, 0)
    <3>1. UNCHANGED <<mm, reg, hw_mode, fifo, spi>> /\ received' \in {<<>>, received}
      BY <2>1 DEF TestMode, Deliver, layer, chip
    <3>2. PICK a, b : Goes(Radio, a, b) /\ a \in {1, 9} /\ b \in Nat
      BY <2>1
    <3>3. ~Inside(Radio)
      BY <1>p, <2>a, <3>2 DEF Inside
    <3>4. ChipParts
      BY <1>q, <3>1
    <3>5. OnlyIncoming(received')
      BY <3>1, <3>4, OnlyIncomingFacts DEF ChipParts
    <3> QED BY <3>1, <3>2, <3>3, <3>4, <3>5, ChipOutside
  <2>c. ASSUME ioctl(Radio), at[Radio] \in {2, 5}
        PROVE  ChipParts /\ UNCHANGED <<mm, received, hw_mode, fifo>>
    <3>1. PICK r : NextStep(Radio) = Reads(r)
      BY <2>a, <2>c, IrqStep
    <3>2. NextStep(Radio) # Clears
      BY <3>1, DoAndArg
    <3>3. /\ Transfers(NextStep(Radio), Radio) /\ UNCHANGED <<mm, received>>
          /\ ~mixed
      BY <2>c, <3>2, CleanTransfer
    <3>4. UNCHANGED <<hw_mode, fifo>>
      BY <3>1, <3>3, TransfersDo
    <3> QED BY <3>3, <3>4 DEF ChipInv
  <2>2. CASE ioctl(Radio) /\ Goes(Radio, 2, 3)
    <3>1. ~Inside(Radio) /\ at[Radio] = 2
      BY <1>p, <2>2, <2>a DEF Inside
    <3>2. ChipParts /\ UNCHANGED <<mm, received, hw_mode, fifo>>
      BY <2>2, <2>c, <3>1
    <3>3. \A u \in Thread \ {Radio} : reg'[u] = reg[u]
      BY <2>2 DEF ioctl, TypeInv, CallType
    <3>4. OnlyIncoming(received')
      BY <3>2 DEF ChipParts
    <3> QED BY <2>2, <3>1, <3>2, <3>3, <3>4, ChipOutside
  <2>3. CASE Lock(Radio) /\ handling' = TRUE /\ Goes(Radio, 3, 4)
    <3>1. mm = Nobody /\ mm' = Radio /\ at'[Radio] = 4 /\ Handles(Radio)'
      BY <1>p, <2>3 DEF Lock, Handles
    <3>2. UNCHANGED <<received, hw_mode, fifo, spi>>
      BY <2>3 DEF Lock, chip
    <3>3. ChipParts
      BY <1>q, <3>2
    <3>4. Listening'
      BY <3>1, <3>2, <3>3 DEF ChipParts, Listening, OnlyIncoming
    <3>5. ChipHeld(Radio)'
      BY <3>1, <3>4 DEF ChipHeld
    <3>6. OnlyIncoming(received)'
      BY <3>2, <3>3 DEF ChipParts, OnlyIncoming
    <3> QED BY <3>1, <3>5, <3>6, ChipOwner
  (* Radio is the owner: what it has read comes from a radio that listens. *)
  <2>d. ASSUME NEW a \in 4..8, NEW b \in Nat, Goes(Radio, a, b)
        PROVE  /\ at[Radio] = a /\ at'[Radio] = b /\ mm = Radio
               /\ ChipParts => Listening /\ ChipHeld(Radio) /\ OnlyIncoming(received)
    <3>1. at[Radio] = a /\ at'[Radio] = b
      BY <1>p, <2>d
    <3>2. mm = Radio
      BY <2>a, <3>1 DEF Mutex, Inside
    <3> QED BY <2>a, <3>1, <3>2 DEF ChipParts, ChipHeld
  <2>4. CASE /\ SetIrq(Radio) /\ handling' = TRUE
             /\ Goes(Radio, 4, 5) \/ Goes(Radio, 7, 8)
    <3>1. UNCHANGED <<mm, received, hw_mode, fifo, spi>>
      BY <2>4 DEF SetIrq, chip
    <3>2. ChipParts
      BY <1>q, <3>1
    <3>3. at'[Radio] \in {5, 8} /\ mm = Radio /\ Listening /\ OnlyIncoming(received)
      BY <2>4, <2>d, <3>2
    <3>4. Listening' /\ OnlyIncoming(received)' /\ Handles(Radio)'
      BY <2>4, <3>1, <3>3 DEF Listening, OnlyIncoming, Handles
    <3>5. ChipHeld(Radio)'
      BY <3>3, <3>4 DEF ChipHeld
    <3> QED BY <3>1, <3>3, <3>4, <3>5, ChipOwner
  <2>5. CASE ioctl(Radio) /\ handling' = TRUE /\ Goes(Radio, 5, 6)
    <3>1. at[Radio] = 5 /\ at'[Radio] = 6 /\ mm = Radio
      BY <2>5, <2>d
    <3>2. ChipParts /\ UNCHANGED <<mm, received, hw_mode, fifo>>
      BY <2>5, <2>c, <3>1
    <3>3. Listening /\ OnlyIncoming(received)
      BY <2>5, <2>d, <3>2
    <3>4. reg'[Radio] = (fifo # <<>>)
      <4>1. NextStep(Radio) = Reads("FTXRXIREG")
        BY <2>a, <3>1, IrqStep
      <4>2. IsRead(NextStep(Radio)) /\ NextStep(Radio).arg = "FTXRXIREG"
        BY <4>1, DoAndArg DEF IsRead
      <4>3. reg' = [reg EXCEPT ![Radio] = BitOf("FTXRXIREG")]
        BY <2>5, <4>2 DEF ioctl
      <4>4. BitOf("FTXRXIREG") = (fifo # <<>>)
        BY DEF BitOf
      <4> QED BY <4>3, <4>4 DEF TypeInv, CallType
    <3>5. Listening' /\ OnlyIncoming(received)' /\ Handles(Radio)'
      BY <2>5, <3>2, <3>3 DEF Listening, OnlyIncoming, Handles
    <3>6. ChipHeld(Radio)'
      BY <3>1, <3>2, <3>4, <3>5 DEF ChipHeld
    <3> QED BY <3>1, <3>2, <3>5, <3>6, ChipOwner
  <2>6. CASE Drain /\ handling' = TRUE /\ reg[Radio] /\ Goes(Radio, 6, 5)
    <3>1. at[Radio] = 6 /\ at'[Radio] = 5 /\ mm = Radio
      BY <2>6, <2>d
    <3>2. UNCHANGED <<mm, hw_mode, spi>>
      BY <2>6 DEF Drain
    <3>3. ChipParts
      BY <1>q, <3>2
    <3>4. Listening /\ OnlyIncoming(received) /\ fifo # <<>>
      BY <2>6, <2>a, <2>d, <3>1, <3>3 DEF ChipHeld
    <3>5. received' = Append(received, Head(fifo)) /\ fifo' = Tail(fifo)
      BY <2>6, <3>4 DEF Drain, read_fifo
    <3>6. Head(fifo) = Incoming /\ OnlyIncoming(Tail(fifo))
      BY <1>a, <3>4, OnlyIncomingFacts DEF Listening
    <3>7. OnlyIncoming(received') /\ OnlyIncoming(fifo')
      <4>1. OnlyIncoming(Append(received, Incoming))
        BY <1>a, <3>4, OnlyIncomingFacts
      <4> QED BY <3>5, <3>6, <4>1
    <3>8. Listening' /\ OnlyIncoming(received)' /\ Handles(Radio)'
      BY <2>6, <3>2, <3>4, <3>7 DEF Listening, OnlyIncoming, Handles
    <3>9. ChipHeld(Radio)'
      BY <3>1, <3>8 DEF ChipHeld
    <3> QED BY <3>1, <3>2, <3>8, <3>9, ChipOwner
  <2>7. CASE Drain /\ handling' = TRUE /\ ~reg[Radio] /\ Goes(Radio, 6, 7)
    <3>1. at[Radio] = 6 /\ at'[Radio] = 7 /\ mm = Radio
      BY <2>7, <2>d
    <3>2. UNCHANGED <<mm, hw_mode, spi, received, fifo>>
      BY <2>7 DEF Drain
    <3>3. ChipParts
      BY <1>q, <3>2
    <3>4. Listening /\ OnlyIncoming(received)
      BY <2>7, <2>d, <3>3
    <3>5. Listening' /\ OnlyIncoming(received)' /\ Handles(Radio)'
      BY <2>7, <3>2, <3>4 DEF Listening, OnlyIncoming, Handles
    <3>6. ChipHeld(Radio)'
      BY <3>1, <3>5 DEF ChipHeld
    <3> QED BY <3>1, <3>2, <3>5, <3>6, ChipOwner
  <2>8. CASE Unlock(Radio) /\ Goes(Radio, 8, 9)
    <3>1. mm' = Nobody /\ UNCHANGED <<received, hw_mode, fifo, spi>>
      BY <2>8 DEF Unlock, chip
    <3>2. ChipParts
      BY <1>q, <3>1
    <3>3. Listening /\ OnlyIncoming(received)
      BY <2>8, <2>d, <3>2
    <3> QED BY <3>1, <3>3 DEF ChipParts, Listening, OnlyIncoming
  <2> QED
    BY <1>4, <2>1, <2>2, <2>3, <2>4, <2>5, <2>6, <2>7, <2>8, Zenon DEF IrqMove
<1> QED BY <1>1, <1>2, <1>3, <1>4 DEF Moves

-----------------------------------------------------------------------------

Inv == TypeInv /\ Mutex /\ LayerInv /\ ChipInv

THEOREM Invariance == Spec => []Inv
<1>1. Init => Inv
  BY TypeInit, MutexInit, LayerInit, ChipInit DEF Inv
<1>2. Inv /\ [Next]_vars => Inv'
  <2> SUFFICES ASSUME Inv, [Next]_vars PROVE Inv'
    OBVIOUS
  <2> QED BY TypeInvNext, MutexNext, LayerInvNext, ChipInvNext DEF Inv
<1> QED BY <1>1, <1>2, PTL DEF Spec

(* What goes on the air is a whole frame of the owner of the mutex, and    *)
(* what goes up came in, with the one FIFO and the one xfer of all threads *)
(* (phy.cpp:90), as long as no transfer was mixed up since a sender last   *)
(* started afresh (phy.cpp:620, phy.cpp:773).                              *)
THEOREM IntactCorrect == Spec => []PacketsIntact
<1>1. Inv => PacketsIntact
  <2> SUFFICES ASSUME Inv, ~mixed PROVE PacketsIntact
    BY DEF PacketsIntact
  <2> USE Threads, ModesAre
  <2>1. ChipParts /\ mm \in Thread \cup {Nobody}
    BY DEF Inv, ChipInv, TypeInv, LayerType
  <2>2. ASSUME hw_mode = RF_TRANSMITTER, fifo # <<>>
        PROVE  \E t \in Thread : mm = t /\ fifo = <<t, t>>
    <3>1. PICK t \in Thread : mm = t
      BY <2>1, <2>2 DEF ChipParts, Listening
    <3>2. ChipHeld(t) /\ Inside(t)
      BY <2>1, <3>1 DEF ChipParts, Inv, Mutex
    <3>3. ~Handles(t)
      BY <2>2, <3>2 DEF ChipHeld, Listening
    <3>4. at[t] \in 11..15
      BY <2>2, <3>2, <3>3 DEF ChipHeld, Inside, Listening
    <3> QED BY <2>2, <3>1, <3>2, <3>3, <3>4 DEF ChipHeld
  <2> QED BY <2>1, <2>2 DEF PacketsIntact, ChipParts, OnlyIncoming
<1> QED BY <1>1, Invariance, PTL

(* With the mutex free the layer takes the radio for listening, and its    *)
(* interrupts are enabled, whatever the threads mixed up; and the radio    *)
(* listens, from the first send after a mix-up on (phy.cpp:747,            *)
(* phy.cpp:762).                                                           *)
THEOREM ListensCorrect == Spec => []ListensAtRest
<1>1. Inv => ListensAtRest
  BY DEF Inv, LayerInv, ChipInv, ChipParts, Listening, ListensAtRest
<1> QED BY <1>1, Invariance, PTL

=============================================================================
