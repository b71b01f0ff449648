--------------------------- MODULE GpioTableProofs ---------------------------
(***************************************************************************)
(* Facts about the pin tables of gpio/ports.c and the bits of the wires,   *)
(* on which the theorems of GpioProofs rest: every row is that of one      *)
(* wire, findPort and the table for reading find it, and no two wires      *)
(* share a direction, an output or an input bit.                           *)
(***************************************************************************)
EXTENDS GpioDriver, WellFoundedInduction, TLAPS

(* Powers of two, by their values: the bits of a register.                  *)

BitNumbers == 0 .. 30

\* Stated of an m that equals n, so that the literal is not the argument.
PowerIs(n, value) == \A m : m = n => 2^m = value

\* The values of 2^0 to 2^30, the masks BIT(n) of the ports.
LEMMA PowerValues ==
  /\ PowerIs(0, 1) /\ PowerIs(1, 2) /\ PowerIs(2, 4) /\ PowerIs(3, 8)
  /\ PowerIs(4, 16) /\ PowerIs(5, 32) /\ PowerIs(6, 64) /\ PowerIs(7, 128)
  /\ PowerIs(8, 256) /\ PowerIs(9, 512) /\ PowerIs(10, 1024) /\ PowerIs(11, 2048)
  /\ PowerIs(12, 4096) /\ PowerIs(13, 8192) /\ PowerIs(14, 16384) /\ PowerIs(15, 32768)
  /\ PowerIs(16, 65536) /\ PowerIs(17, 131072) /\ PowerIs(18, 262144) /\ PowerIs(19, 524288)
  /\ PowerIs(20, 1048576) /\ PowerIs(21, 2097152) /\ PowerIs(22, 4194304) /\ PowerIs(23, 8388608)
  /\ PowerIs(24, 16777216) /\ PowerIs(25, 33554432) /\ PowerIs(26, 67108864) /\ PowerIs(27, 134217728)
  /\ PowerIs(28, 268435456) /\ PowerIs(29, 536870912) /\ PowerIs(30, 1073741824)
<1>0. PowerIs(0, 1) BY SMT DEF PowerIs
<1>1. PowerIs(1, 2) BY SMT DEF PowerIs
<1>2. PowerIs(2, 4) BY SMT DEF PowerIs
<1>3. PowerIs(3, 8) BY SMT DEF PowerIs
<1>4. PowerIs(4, 16) BY SMT DEF PowerIs
<1>5. PowerIs(5, 32) BY SMT DEF PowerIs
<1>6. PowerIs(6, 64) BY SMT DEF PowerIs
<1>7. PowerIs(7, 128) BY SMT DEF PowerIs
<1>8. PowerIs(8, 256) BY SMT DEF PowerIs
<1>9. PowerIs(9, 512) BY SMT DEF PowerIs
<1>10. PowerIs(10, 1024) BY SMT DEF PowerIs
<1>11. PowerIs(11, 2048) BY SMT DEF PowerIs
<1>12. PowerIs(12, 4096) BY SMT DEF PowerIs
<1>13. PowerIs(13, 8192) BY SMT DEF PowerIs
<1>14. PowerIs(14, 16384) BY SMT DEF PowerIs
<1>15. PowerIs(15, 32768) BY SMT DEF PowerIs
<1>16. PowerIs(16, 65536) BY SMT DEF PowerIs
<1>17. PowerIs(17, 131072) BY SMT DEF PowerIs
<1>18. PowerIs(18, 262144) BY SMT DEF PowerIs
<1>19. PowerIs(19, 524288) BY SMT DEF PowerIs
<1>20. PowerIs(20, 1048576) BY SMT DEF PowerIs
<1>21. PowerIs(21, 2097152) BY SMT DEF PowerIs
<1>22. PowerIs(22, 4194304) BY SMT DEF PowerIs
<1>23. PowerIs(23, 8388608) BY SMT DEF PowerIs
<1>24. PowerIs(24, 16777216) BY SMT DEF PowerIs
<1>25. PowerIs(25, 33554432) BY SMT DEF PowerIs
<1>26. PowerIs(26, 67108864) BY SMT DEF PowerIs
<1>27. PowerIs(27, 134217728) BY SMT DEF PowerIs
<1>28. PowerIs(28, 268435456) BY SMT DEF PowerIs
<1>29. PowerIs(29, 536870912) BY SMT DEF PowerIs
<1>30. PowerIs(30, 1073741824) BY SMT DEF PowerIs
<1> QED
  BY <1>0, <1>1, <1>2, <1>3, <1>4, <1>5, <1>6, <1>7, <1>8, <1>9, <1>10, <1>11,
     <1>12, <1>13, <1>14, <1>15, <1>16, <1>17, <1>18, <1>19, <1>20, <1>21, <1>22, <1>23,
     <1>24, <1>25, <1>26, <1>27, <1>28, <1>29, <1>30, SMT

\* The masks of two bits differ, and none is 0, the Bit of defaultPort.
LEMMA PowersOfTwo ==
  ASSUME NEW m \in BitNumbers, NEW n \in BitNumbers
  PROVE  2^n \in Nat \ {0} /\ (2^m = 2^n => m = n)
<1>1. 2^n \in Nat /\ 2^n >= 1
  BY PowerValues, SMTT(60) DEF BitNumbers, PowerIs
<1>2. ASSUME 2^m = 2^n PROVE m = n
  BY <1>2, PowerValues, SMTT(60) DEF BitNumbers, PowerIs
<1> QED
  BY <1>1, <1>2

\* getValueFromPortInfo stops at a row of those that match.
LEMMA SmallestRow ==
  ASSUME NEW S \in SUBSET Nat, S # {}
  PROVE  Min(S) \in S
<1> DEFINE Less == {ss \in Nat \X Nat : ss[1] < ss[2]}
<1>1. OpToRel(<, Nat) = Less
  BY DEF OpToRel
<1>2. PICK x \in S : \A y \in S : <<y, x>> \notin Less
  BY <1>1, NatLessThanWellFounded, WFMin
<1>3. ASSUME NEW y \in S PROVE x <= y
  <2>1. x \in Nat /\ y \in Nat
    OBVIOUS
  <2>2. y < x => <<y, x>> \in Less
    BY <2>1
  <2> QED
    BY <1>2, <2>1, <2>2
<1> QED
  BY <1>3 DEF Min

-----------------------------------------------------------------------------
(* The tables.                                                              *)

\* The row a wire should have: its pin, and the bits of its three registers.
PortOf(w) ==
  [PhysicalPin |-> PinOf(w)[2], RegDIR |-> DirBit(w)[1], RegOUT |-> OutBit(w)[1],
   RegINP |-> w.port, Bit |-> DirBit(w)[2], Jumper |-> PinOf(w)[1]]

\* The row of a wire of port 0.
LEMMA P0Ports ==
  \A n \in 0 .. 7 : PortOf(Wire("P0", n)) = P0(P0Header[n][2], n, P0Header[n][1])
BY DEF PortOf, Wire, PinOf, DirBit, OutBit, P0, Row

\* The row of a wire of port 2.
LEMMA P2Ports ==
  \A n \in 0 .. 12 : PortOf(Wire("P2", n)) = P2(P2Header[n][2], n, P2Header[n][1])
BY DEF PortOf, Wire, PinOf, DirBit, OutBit, P2, Row

\* The row of a wire of port 3, whose bits begin at 25.
LEMMA P3Ports ==
  \A n \in {0, 1, 4, 5} : PortOf(Wire("P3", n)) = P3(P3Header[n][2], 25 + n, P3Header[n][1])
BY DEF PortOf, Wire, PinOf, DirBit, OutBit, P3, Row

\* The pins of the three headers, one by one.
LEMMA Headers ==
  /\ DOMAIN P0Header = 0 .. 7 /\ DOMAIN P2Header = 0 .. 12 /\ DOMAIN P3Header = {0, 1, 4, 5}
  /\ P0Header[0] = <<3, 40>> /\ P0Header[1] = <<2, 24>> /\ P0Header[2] = <<2, 11>>
  /\ P0Header[3] = <<2, 12>> /\ P0Header[4] = <<2, 13>> /\ P0Header[5] = <<2, 14>>
  /\ P0Header[6] = <<3, 33>> /\ P0Header[7] = <<1, 27>>
  /\ P2Header[0] = <<3, 47>> /\ P2Header[1] = <<3, 56>> /\ P2Header[2] = <<3, 48>>
  /\ P2Header[3] = <<3, 57>> /\ P2Header[4] = <<3, 49>> /\ P2Header[5] = <<3, 58>>
  /\ P2Header[6] = <<3, 50>> /\ P2Header[7] = <<3, 45>> /\ P2Header[8] = <<1, 49>>
  /\ P2Header[9] = <<1, 50>> /\ P2Header[10] = <<1, 51>> /\ P2Header[11] = <<1, 52>>
  /\ P2Header[12] = <<1, 53>>
  /\ P3Header[0] = <<3, 54>> /\ P3Header[1] = <<3, 46>> /\ P3Header[4] = <<3, 36>>
  /\ P3Header[5] = <<1, 24>>
BY DEF P0Header, P2Header, P3Header

\* The wires of the rows, in the order of ports.c.
RowWire == << Wire("P2", 8), Wire("P2", 9), Wire("P2", 10), Wire("P2", 11), Wire("P2", 12),
              Wire("P3", 5), Wire("P0", 7),
              Wire("P0", 1), Wire("P0", 2), Wire("P0", 3), Wire("P0", 4), Wire("P0", 5),
              Wire("P2", 0), Wire("P2", 1), Wire("P2", 2), Wire("P2", 3), Wire("P2", 4),
              Wire("P2", 5), Wire("P2", 6), Wire("P2", 7),
              Wire("P3", 0), Wire("P3", 1), Wire("P3", 4) >>

\* The rows of jumpers 1 to 3, one by one.
LEMMA RowsAreWires ==
  /\ DOMAIN Jumper_Pins = 1 .. 25
  /\ \A i \in 1 .. 23 : RowWire[i] \in Wires /\ Jumper_Pins[i] = PortOf(RowWire[i])
  /\ \A i \in 24 .. 25 : Jumper_Pins[i].Jumper = 4
<1>1. /\ PortOf(Wire("P2", 0)) = P2(47, 0, 3) /\ PortOf(Wire("P2", 1)) = P2(56, 1, 3)
      /\ PortOf(Wire("P2", 2)) = P2(48, 2, 3) /\ PortOf(Wire("P2", 3)) = P2(57, 3, 3)
      /\ PortOf(Wire("P2", 4)) = P2(49, 4, 3) /\ PortOf(Wire("P2", 5)) = P2(58, 5, 3)
      /\ PortOf(Wire("P2", 6)) = P2(50, 6, 3) /\ PortOf(Wire("P2", 7)) = P2(45, 7, 3)
      /\ PortOf(Wire("P2", 8)) = P2(49, 8, 1) /\ PortOf(Wire("P2", 9)) = P2(50, 9, 1)
      /\ PortOf(Wire("P2", 10)) = P2(51, 10, 1) /\ PortOf(Wire("P2", 11)) = P2(52, 11, 1)
      /\ PortOf(Wire("P2", 12)) = P2(53, 12, 1)
  BY P2Ports, Headers
<1>2. /\ PortOf(Wire("P0", 1)) = P0(24, 1, 2) /\ PortOf(Wire("P0", 2)) = P0(11, 2, 2)
      /\ PortOf(Wire("P0", 3)) = P0(12, 3, 2) /\ PortOf(Wire("P0", 4)) = P0(13, 4, 2)
      /\ PortOf(Wire("P0", 5)) = P0(14, 5, 2) /\ PortOf(Wire("P0", 7)) = P0(27, 7, 1)
  BY P0Ports, Headers
<1>3. /\ PortOf(Wire("P3", 0)) = P3(54, 25, 3) /\ PortOf(Wire("P3", 1)) = P3(46, 26, 3)
      /\ PortOf(Wire("P3", 4)) = P3(36, 29, 3) /\ PortOf(Wire("P3", 5)) = P3(24, 30, 1)
  BY P3Ports, Headers
<1>4. \A i \in 1 .. 23 : Jumper_Pins[i] = PortOf(RowWire[i])
  BY <1>1, <1>2, <1>3 DEF Jumper_Pins, RowWire
<1>5. \A n \in 0 .. 7 : Wire("P0", n) \in Wires
  BY Headers DEF Wires
<1>6. \A n \in 0 .. 12 : Wire("P2", n) \in Wires
  BY Headers DEF Wires
<1>7. \A n \in {0, 1, 4, 5} : Wire("P3", n) \in Wires
  BY Headers DEF Wires
<1>8. \A i \in 1 .. 23 : RowWire[i] \in Wires
  BY <1>5, <1>6, <1>7 DEF RowWire
<1>9. \A i \in 24 .. 25 : Jumper_Pins[i].Jumper = 4
  BY DEF Jumper_Pins, P0, Row
<1>10. DOMAIN Jumper_Pins = 1 .. 25
  BY DEF Jumper_Pins
<1> QED
  BY <1>4, <1>8, <1>9, <1>10

\* A wire is at one of the places of a header.
LEMMA WireCases ==
  ASSUME NEW w \in Wires
  PROVE  \/ \E n \in 0 .. 7 : w = Wire("P0", n)
         \/ \E n \in 0 .. 12 : w = Wire("P2", n)
         \/ \E n \in {0, 1, 4, 5} : w = Wire("P3", n)
BY Headers DEF Wires

\* What the headers say of a wire, with a number for every pin.
LEMMA WiresAndPins ==
  /\ \A n \in 0 .. 7 : PinOf(Wire("P0", n)) = P0Header[n]
  /\ \A n \in 0 .. 12 : PinOf(Wire("P2", n)) = P2Header[n]
  /\ \A n \in {0, 1, 4, 5} : PinOf(Wire("P3", n)) = P3Header[n]
BY DEF PinOf, Wire

\* No two wires are at the same pin.
LEMMA PinsDiffer ==
  ASSUME NEW v \in Wires, NEW w \in Wires, PinOf(v) = PinOf(w)
  PROVE  v = w
<1>1. ASSUME NEW m \in 0 .. 7, NEW n \in 0 .. 7, P0Header[m] = P0Header[n] PROVE m = n
  BY <1>1, Headers
<1>2. ASSUME NEW m \in 0 .. 12, NEW n \in 0 .. 12, P2Header[m] = P2Header[n] PROVE m = n
  BY <1>2, Headers
<1>3. ASSUME NEW m \in {0, 1, 4, 5}, NEW n \in {0, 1, 4, 5}, P3Header[m] = P3Header[n] PROVE m = n
  BY <1>3, Headers
<1>4. ASSUME NEW m \in 0 .. 7, NEW n \in 0 .. 12 PROVE P0Header[m] # P2Header[n]
  BY <1>4, Headers
<1>5. ASSUME NEW m \in 0 .. 7, NEW n \in {0, 1, 4, 5} PROVE P0Header[m] # P3Header[n]
  BY <1>5, Headers
<1>6. ASSUME NEW m \in 0 .. 12, NEW n \in {0, 1, 4, 5} PROVE P2Header[m] # P3Header[n]
  BY <1>6, Headers
<1>7. ASSUME NEW x \in Wires PROVE
         \/ \E n \in 0 .. 7 : x = Wire("P0", n) /\ PinOf(x) = P0Header[n]
         \/ \E n \in 0 .. 12 : x = Wire("P2", n) /\ PinOf(x) = P2Header[n]
         \/ \E n \in {0, 1, 4, 5} : x = Wire("P3", n) /\ PinOf(x) = P3Header[n]
  BY WireCases, WiresAndPins
<1> QED
  BY <1>1, <1>2, <1>3, <1>4, <1>5, <1>6, <1>7

\* The wire at the pin of a wire is that wire.
LEMMA WireOfPin ==
  ASSUME NEW w \in Wires
  PROVE  WireOf(PinOf(w)) = w
BY PinsDiffer DEF WireOf

\* Every wire but two has a row.
LEMMA WiresHaveRows ==
  ASSUME NEW w \in Wires
  PROVE  \/ \E i \in 1 .. 23 : w = RowWire[i]
         \/ w = Wire("P0", 0) \/ w = Wire("P0", 6)
<1>1. CASE \E n \in 0 .. 7 : w = Wire("P0", n)
  BY <1>1 DEF RowWire
<1>2. CASE \E n \in 0 .. 12 : w = Wire("P2", n)
  BY <1>2 DEF RowWire
<1>3. CASE \E n \in {0, 1, 4, 5} : w = Wire("P3", n)
  BY <1>3 DEF RowWire
<1> QED
  BY <1>1, <1>2, <1>3, WireCases

\* The two have no row.
LEMMA RowsLeaveTwo ==
  \A i \in 1 .. 23 : RowWire[i] # Wire("P0", 0) /\ RowWire[i] # Wire("P0", 6)
BY DEF RowWire, Wire

-----------------------------------------------------------------------------
(* The lookup.                                                              *)

\* The pins of the headers are those of the wires.
LEMMA HeaderPinsAreWires == HeaderPins = {PinOf(w) : w \in Wires}
<1>1. ASSUME NEW w \in Wires PROVE PinOf(w) \in HeaderPins
  BY WireCases, WiresAndPins, Headers DEF HeaderPins
<1>2. ASSUME NEW pin \in HeaderPins PROVE \E w \in Wires : PinOf(w) = pin
  <2>1. CASE \E n \in 0 .. 7 : pin = P0Header[n]
    BY <2>1, WiresAndPins, Headers DEF Wires
  <2>2. CASE \E n \in 0 .. 12 : pin = P2Header[n]
    BY <2>2, WiresAndPins, Headers DEF Wires
  <2>3. CASE \E n \in {0, 1, 4, 5} : pin = P3Header[n]
    BY <2>3, WiresAndPins, Headers DEF Wires
  <2> QED
    BY <1>2, <2>1, <2>2, <2>3, Headers DEF HeaderPins
<1> QED
  BY <1>1, <1>2

\* The pins the tables know are those of the wires with a row.
LEMMA SupportedPinsAreRows == SupportedPins = {PinOf(RowWire[i]) : i \in 1 .. 23}
<1>1. PinOf(Wire("P0", 0)) = <<3, 40>> /\ PinOf(Wire("P0", 6)) = <<3, 33>>
  BY Headers DEF PinOf, Wire
<1>2. Wire("P0", 0) \in Wires /\ Wire("P0", 6) \in Wires
  BY Headers DEF Wires
<1>3. ASSUME NEW i \in 1 .. 23 PROVE PinOf(RowWire[i]) \in SupportedPins
  BY <1>1, <1>2, HeaderPinsAreWires, RowsAreWires, RowsLeaveTwo, PinsDiffer DEF SupportedPins
<1>4. ASSUME NEW pin \in SupportedPins PROVE \E i \in 1 .. 23 : pin = PinOf(RowWire[i])
  BY <1>1, HeaderPinsAreWires, WiresHaveRows DEF SupportedPins
<1> QED
  BY <1>3, <1>4

\* A pin is a jumper and a number.
LEMMA PinIsPair ==
  ASSUME NEW w \in Wires
  PROVE  PinOf(w) = <<PinOf(w)[1], PinOf(w)[2]>> /\ PinOf(w)[1] \in 1 .. 3 /\ PinOf(w)[2] \in 1 .. 99
<1> DEFINE Fits(pin) == pin = <<pin[1], pin[2]>> /\ pin[1] \in 1 .. 3 /\ pin[2] \in 1 .. 99
<1>1. \A n \in 0 .. 7 : Fits(P0Header[n])
  BY Headers
<1>2. \A n \in 0 .. 12 : Fits(P2Header[n])
  BY Headers
<1>3. \A n \in {0, 1, 4, 5} : Fits(P3Header[n])
  BY Headers
<1>4. Fits(PinOf(w))
  <2> HIDE DEF Fits
  <2>1. CASE \E n \in 0 .. 7 : w = Wire("P0", n)
    BY <1>1, <2>1, WiresAndPins
  <2>2. CASE \E n \in 0 .. 12 : w = Wire("P2", n)
    BY <1>2, <2>2, WiresAndPins
  <2>3. CASE \E n \in {0, 1, 4, 5} : w = Wire("P3", n)
    BY <1>3, <2>3, WiresAndPins
  <2> QED
    BY <2>1, <2>2, <2>3, WireCases
<1> QED
  BY <1>4

\* findPort finds the row of a pin's wire, if it has one.
LEMMA FindPortIsRight ==
  ASSUME NEW jumper, NEW pin
  PROVE  IF <<jumper, pin>> \in SupportedPins
         THEN findPort(jumper, pin) = PortOf(WireOf(<<jumper, pin>>))
         ELSE findPort(jumper, pin) = defaultPort
<1> DEFINE rows == {i \in DOMAIN Jumper_Pins :
                      Jumper_Pins[i].Jumper = jumper /\ Jumper_Pins[i].PhysicalPin = pin}
<1>1. ASSUME jumper \in 1 .. 3, NEW i \in rows PROVE i \in 1 .. 23 /\ PinOf(RowWire[i]) = <<jumper, pin>>
  <2>1. i \in 1 .. 25 /\ i \notin 24 .. 25
    BY <1>1, RowsAreWires
  <2>2. i \in 1 .. 23
    BY <2>1
  <2>3. RowWire[i] \in Wires /\ PortOf(RowWire[i]).Jumper = jumper /\ PortOf(RowWire[i]).PhysicalPin = pin
    BY <1>1, <2>2, RowsAreWires
  <2> QED
    BY <2>2, <2>3, PinIsPair DEF PortOf
<1>2. ASSUME NEW i \in 1 .. 23, PinOf(RowWire[i]) = <<jumper, pin>> PROVE i \in rows
  BY <1>2, RowsAreWires DEF PortOf
<1>3. CASE <<jumper, pin>> \in SupportedPins
  <2>1. PICK k \in 1 .. 23 : PinOf(RowWire[k]) = <<jumper, pin>>
    BY <1>3, SupportedPinsAreRows
  <2>2. jumper \in 1 .. 3
    BY <2>1, PinIsPair, RowsAreWires
  <2>3. rows # {} /\ rows \in SUBSET Nat
    BY <1>2, <2>1, RowsAreWires
  <2> DEFINE i == Min(rows)
  <2>4. i \in rows
    BY <2>3, SmallestRow
  <2> HIDE DEF i
  <2>5. i \in 1 .. 23 /\ PinOf(RowWire[i]) = <<jumper, pin>>
    BY <1>1, <2>2, <2>4
  <2>6. Jumper_Pins[i] = PortOf(WireOf(<<jumper, pin>>))
    BY <2>5, RowsAreWires, WireOfPin
  <2> QED
    BY <1>3, <2>2, <2>3, <2>6 DEF i, findPort, GetJumperPinVal, getValueFromPortInfo
<1>4. CASE <<jumper, pin>> \notin SupportedPins
  <2>1. jumper \in 1 .. 3 => rows = {}
    BY <1>1, <1>4, SupportedPinsAreRows
  <2> QED
    BY <1>4, <2>1 DEF findPort, GetJumperPinVal, getValueFromPortInfo
<1> QED
  BY <1>3, <1>4

\* The wires with a row of their own for reading.
LEMMA ReadRows ==
  /\ GetJumperPinVal(1, 24, TRUE) = P3(24, 24, 1)
  /\ GetJumperPinVal(3, 54, TRUE) = P3(54, 10, 3)
  /\ GetJumperPinVal(3, 46, TRUE) = P3(46, 11, 3)
  /\ GetJumperPinVal(3, 36, TRUE) = P3(36, 14, 3)
<1> DEFINE rows(jumper, pin) ==
      {i \in DOMAIN Jumper_Pins_Read :
         Jumper_Pins_Read[i].Jumper = jumper /\ Jumper_Pins_Read[i].PhysicalPin = pin}
<1>1. /\ DOMAIN Jumper_Pins_Read = 1 .. 4
      /\ Jumper_Pins_Read[1] = P3(24, 24, 1) /\ Jumper_Pins_Read[2] = P3(54, 10, 3)
      /\ Jumper_Pins_Read[3] = P3(46, 11, 3) /\ Jumper_Pins_Read[4] = P3(36, 14, 3)
  BY DEF Jumper_Pins_Read
<1>2. /\ Jumper_Pins_Read[1].Jumper = 1 /\ Jumper_Pins_Read[1].PhysicalPin = 24
      /\ Jumper_Pins_Read[2].Jumper = 3 /\ Jumper_Pins_Read[2].PhysicalPin = 54
      /\ Jumper_Pins_Read[3].Jumper = 3 /\ Jumper_Pins_Read[3].PhysicalPin = 46
      /\ Jumper_Pins_Read[4].Jumper = 3 /\ Jumper_Pins_Read[4].PhysicalPin = 36
  BY <1>1 DEF P3, Row
<1>3. rows(1, 24) = {1} /\ rows(3, 54) = {2} /\ rows(3, 46) = {3} /\ rows(3, 36) = {4}
  BY <1>1, <1>2
<1>4. \A i \in Nat : Min({i}) = i
  BY DEF Min
<1> QED
  BY <1>1, <1>3, <1>4 DEF GetJumperPinVal, getValueFromPortInfo

\* Bits of a bank that read() looks at: those of a wire's input.
LEMMA PortToReadIsRight ==
  ASSUME NEW w \in Wires, PinOf(w) \in SupportedPins
  PROVE  LET port == PortToRead(PinOf(w)[1], PinOf(w)[2])
         IN  /\ port.Jumper = PinOf(w)[1] /\ port.PhysicalPin = PinOf(w)[2]
             /\ <<port.RegINP, port.Bit>> = InBit(w)
             /\ w.port # "P3" => <<port.RegDIR, port.Bit>> = DirBit(w)
             /\ port \in Rows
<1> DEFINE pin == PinOf(w)
           port == PortToRead(pin[1], pin[2])
<1>1. ASSUME NEW n \in {0, 1, 4, 5}, w = Wire("P3", n)
      PROVE  port = P3(pin[2], IF n = 5 THEN 24 ELSE 10 + n, pin[1])
  <2>1. pin = P3Header[n]
    BY <1>1, WiresAndPins
  <2>2. <<pin[1], pin[2]>> \in ReadSpecially
    BY <2>1, Headers DEF ReadSpecially
  <2>3. port = GetJumperPinVal(pin[1], pin[2], TRUE)
    BY <2>2 DEF PortToRead
  <2> DEFINE number == IF n = 5 THEN 24 ELSE 10 + n
  <2>4. /\ n = 0 => pin[1] = 3 /\ pin[2] = 54 /\ number = 10
        /\ n = 1 => pin[1] = 3 /\ pin[2] = 46 /\ number = 11
        /\ n = 4 => pin[1] = 3 /\ pin[2] = 36 /\ number = 14
        /\ n = 5 => pin[1] = 1 /\ pin[2] = 24 /\ number = 24
    BY <2>1, Headers
  <2> HIDE DEF pin, port, number
  <2>5. port = P3(pin[2], number, pin[1])
    <3>1. CASE n = 0
      BY <2>3, <2>4, <3>1, ReadRows
    <3>2. CASE n = 1
      BY <2>3, <2>4, <3>2, ReadRows
    <3>3. CASE n = 4
      BY <2>3, <2>4, <3>3, ReadRows
    <3>4. CASE n = 5
      BY <2>3, <2>4, <3>4, ReadRows
    <3> QED
      BY <3>1, <3>2, <3>3, <3>4
  <2> QED
    BY <2>5 DEF number
<1>2. CASE \E n \in {0, 1, 4, 5} : w = Wire("P3", n)
  <2>1. PICK n \in {0, 1, 4, 5} : w = Wire("P3", n)
    BY <1>2
  <2>2. port = P3(pin[2], IF n = 5 THEN 24 ELSE 10 + n, pin[1])
    BY <1>1, <2>1
  <2>3. port.Jumper = pin[1] /\ port.PhysicalPin = pin[2] /\ <<port.RegINP, port.Bit>> = InBit(w)
    BY <2>1, <2>2 DEF P3, Row, InBit, Wire
  <2>4. w.port = "P3"
    BY <2>1 DEF Wire
  <2>5. port \in Rows
    <3>1. \A i \in DOMAIN Jumper_Pins_Read : Jumper_Pins_Read[i] \in Rows
      BY DEF Rows
    <3>2. P3(24, 24, 1) \in Rows /\ P3(54, 10, 3) \in Rows /\ P3(46, 11, 3) \in Rows /\ P3(36, 14, 3) \in Rows
      BY <3>1 DEF Jumper_Pins_Read
    <3>3. pin = P3Header[n]
      BY <2>1, WiresAndPins
    <3> QED
      BY <2>2, <3>2, <3>3, Headers
  <2> QED
    BY <2>3, <2>4, <2>5
<1>3. CASE ~\E n \in {0, 1, 4, 5} : w = Wire("P3", n)
  <2>1. <<pin[1], pin[2]>> \notin ReadSpecially
    <3>1. \A r \in ReadSpecially : \E n \in {0, 1, 4, 5} : r = PinOf(Wire("P3", n)) /\ Wire("P3", n) \in Wires
      BY WiresAndPins, Headers DEF ReadSpecially, Wires
    <3> QED
      BY <1>3, <3>1, PinIsPair, PinsDiffer
  <2>2. port = PortOf(w)
    BY <2>1, FindPortIsRight, PinIsPair, WireOfPin DEF PortToRead
  <2>3. (\E n \in 0 .. 7 : w = Wire("P0", n)) \/ (\E n \in 0 .. 12 : w = Wire("P2", n))
    BY <1>3, WireCases
  <2>4. w.port # "P3" /\ InBit(w) = DirBit(w) /\ InBit(w)[1] = w.port
    BY <2>3 DEF Wire, InBit, DirBit
  <2>5. <<port.RegINP, port.Bit>> = InBit(w) /\ <<port.RegDIR, port.Bit>> = DirBit(w)
    BY <2>2, <2>4 DEF PortOf, DirBit
  <2>6. port \in Rows
    <3>1. PICK i \in 1 .. 23 : PinOf(RowWire[i]) = pin
      BY SupportedPinsAreRows
    <3> QED
      BY <2>2, <3>1, RowsAreWires, PinsDiffer DEF Rows
  <2> QED
    BY <2>2, <2>5, <2>6 DEF PortOf
<1> QED
  BY <1>2, <1>3

-----------------------------------------------------------------------------
(* Bits.                                                                    *)

\* The wires gpiolib and the headers share: what has a direction bit.
Numbered == {Wire("P0", n) : n \in 0 .. 7} \cup {Wire("P1", n) : n \in 0 .. 23} \cup
            {Wire("P2", n) : n \in 0 .. 12} \cup {Wire("P3", n) : n \in 0 .. 5}
Driven   == Numbered \cup {Wire("GPO", n) : n \in 0 .. 23}

\* Every pin of a header has a direction bit.
LEMMA WiresAreNumbered == Wires \subseteq Numbered
BY WireCases DEF Numbered

\* The masks of the low bits of a bank differ.
LEMMA LowBitsDiffer == \A m, n \in 0 .. 23 : 2^m = 2^n => m = n
<1> SUFFICES ASSUME NEW m \in 0 .. 23, NEW n \in 0 .. 23, 2^m = 2^n PROVE m = n
  OBVIOUS
<1>1. m \in BitNumbers /\ n \in BitNumbers
  BY DEF BitNumbers
<1> QED
  BY <1>1, PowersOfTwo

\* So do those of port 3 in the bank of port 2.
LEMMA HighBitsDiffer == \A m, n \in 0 .. 5 : 2^(25 + m) = 2^(25 + n) => m = n
<1> SUFFICES ASSUME NEW m \in 0 .. 5, NEW n \in 0 .. 5, 2^(25 + m) = 2^(25 + n) PROVE m = n
  OBVIOUS
<1>1. 25 + m \in BitNumbers /\ 25 + n \in BitNumbers
  BY DEF BitNumbers
<1>2. 25 + m = 25 + n
  BY <1>1, PowersOfTwo
<1> QED
  BY <1>2

\* Port 3 has none of the low bits.
LEMMA LowIsNotHigh == \A m \in 0 .. 23, n \in 0 .. 5 : 2^m # 2^(25 + n)
<1> SUFFICES ASSUME NEW m \in 0 .. 23, NEW n \in 0 .. 5, 2^m = 2^(25 + n) PROVE FALSE
  OBVIOUS
<1>1. m \in BitNumbers /\ 25 + n \in BitNumbers /\ m # 25 + n
  BY DEF BitNumbers
<1> QED
  BY <1>1, PowersOfTwo

\* Two wires never share a direction bit, port 3 in the bank of port 2 included.
LEMMA DirBitsDiffer ==
  ASSUME NEW v \in Numbered, NEW w \in Numbered, DirBit(v) = DirBit(w)
  PROVE  v = w
<1>1. ASSUME NEW x \in Numbered
      PROVE  \/ \E n \in 0 .. 7 : x = Wire("P0", n) /\ DirBit(x) = <<"P0", 2^n>>
             \/ \E n \in 0 .. 23 : x = Wire("P1", n) /\ DirBit(x) = <<"P1", 2^n>>
             \/ \E n \in 0 .. 12 : x = Wire("P2", n) /\ DirBit(x) = <<"P2", 2^n>>
             \/ \E n \in 0 .. 5 : x = Wire("P3", n) /\ DirBit(x) = <<"P2", 2^(25 + n)>>
  <2>1. \A n \in 0 .. 23, bank \in {"P0", "P1", "P2"} : DirBit(Wire(bank, n)) = <<bank, 2^n>>
    BY DEF DirBit, Wire
  <2>2. \A n \in 0 .. 5 : DirBit(Wire("P3", n)) = <<"P2", 2^(25 + n)>>
    BY DEF DirBit, Wire
  <2> QED
    BY <2>1, <2>2 DEF Numbered
<1> QED
  BY <1>1, LowBitsDiffer, HighBitsDiffer, LowIsNotHigh

\* Two wires that can be driven never share an output bit.
LEMMA OutBitsDiffer ==
  ASSUME NEW v \in Driven, NEW w \in Driven, OutBit(v) = OutBit(w)
  PROVE  v = w
<1>1. ASSUME NEW x \in Driven
      PROVE  \/ \E n \in 0 .. 7 : x = Wire("P0", n) /\ OutBit(x) = <<"P0", 2^n>>
             \/ \E n \in 0 .. 23 : x = Wire("P1", n) /\ OutBit(x) = <<"P1", 2^n>>
             \/ \E n \in 0 .. 12 : x = Wire("P2", n) /\ OutBit(x) = <<"P2", 2^n>>
             \/ \E n \in 0 .. 5 : x = Wire("P3", n) /\ OutBit(x) = <<"P3", 2^(25 + n)>>
             \/ \E n \in 0 .. 23 : x = Wire("GPO", n) /\ OutBit(x) = <<"P3", 2^n>>
  <2>1. \A n \in 0 .. 23, bank \in {"P0", "P1", "P2"} : OutBit(Wire(bank, n)) = <<bank, 2^n>>
    BY DEF OutBit, Wire
  <2>2. \A n \in 0 .. 5 : OutBit(Wire("P3", n)) = <<"P3", 2^(25 + n)>>
    BY DEF OutBit, Wire
  <2>3. \A n \in 0 .. 23 : OutBit(Wire("GPO", n)) = <<"P3", 2^n>>
    BY DEF OutBit, Wire
  <2> QED
    BY <2>1, <2>2, <2>3 DEF Driven, Numbered
<1> QED
  BY <1>1, LowBitsDiffer, HighBitsDiffer, LowIsNotHigh

\* Two pins never share an input bit.
LEMMA InBitsDiffer ==
  ASSUME NEW v \in Wires, NEW w \in Wires, InBit(v) = InBit(w)
  PROVE  v = w
<1> DEFINE Number(n) == IF n = 5 THEN 24 ELSE 10 + n
<1>1. ASSUME NEW x \in Wires
      PROVE  \/ \E n \in 0 .. 7 : x = Wire("P0", n) /\ InBit(x) = <<"P0", 2^n>>
             \/ \E n \in 0 .. 12 : x = Wire("P2", n) /\ InBit(x) = <<"P2", 2^n>>
             \/ \E n \in {0, 1, 4, 5} : x = Wire("P3", n) /\ InBit(x) = <<"P3", 2^Number(n)>>
  <2>1. \A n \in 0 .. 12, bank \in {"P0", "P2"} : InBit(Wire(bank, n)) = <<bank, 2^n>>
    BY DEF InBit, Wire
  <2>2. \A n \in {0, 1, 4, 5} : InBit(Wire("P3", n)) = <<"P3", 2^Number(n)>>
    BY DEF InBit, Wire
  <2> HIDE DEF Number
  <2> QED
    BY <2>1, <2>2, WireCases
<1>2. \A m, n \in {0, 1, 4, 5} : 2^Number(m) = 2^Number(n) => m = n
  <2> SUFFICES ASSUME NEW m \in {0, 1, 4, 5}, NEW n \in {0, 1, 4, 5}, 2^Number(m) = 2^Number(n) PROVE m = n
    OBVIOUS
  <2>1. Number(m) \in BitNumbers /\ Number(n) \in BitNumbers
    BY DEF BitNumbers
  <2> HIDE DEF Number
  <2>2. Number(m) = Number(n)
    BY <2>1, PowersOfTwo
  <2> QED
    BY <2>2 DEF Number
<1> HIDE DEF Number
<1> QED
  BY <1>1, <1>2, LowBitsDiffer

\* A wire has the same place in its direction and its output bank.
LEMMA WireBits ==
  /\ \A w \in Numbered : DirBit(w) \in Bits
  /\ \A w \in Driven : OutBit(w) \in Bits
  /\ \A w \in Numbered : OutBit(w) = <<OutBit(w)[1], DirBit(w)[2]>> /\ DirBit(w) = <<DirBit(w)[1], DirBit(w)[2]>>
  /\ \A w \in Numbered : DirBit(w)[2] \in Nat /\ DirBit(w)[2] >= 1
<1>0. \A n \in BitNumbers : 2^n \in {2^m : m \in 0 .. 30}
  BY Zenon DEF BitNumbers
<1>1. \A n \in 0 .. 23 : n \in BitNumbers
  BY DEF BitNumbers
<1>2. \A n \in 0 .. 5 : 25 + n \in BitNumbers
  BY DEF BitNumbers
<1>3. \A n \in BitNumbers : 2^n \in Nat /\ 2^n >= 1
  BY PowersOfTwo
<1>4. ASSUME NEW w \in Numbered
      PROVE  /\ DirBit(w) \in Bits /\ OutBit(w) \in Bits
             /\ OutBit(w) = <<OutBit(w)[1], DirBit(w)[2]>> /\ DirBit(w) = <<DirBit(w)[1], DirBit(w)[2]>>
             /\ DirBit(w)[2] \in Nat /\ DirBit(w)[2] >= 1
  <2>1. ASSUME NEW n \in 0 .. 23, NEW bank \in {"P0", "P1", "P2"}, w = Wire(bank, n)
        PROVE  DirBit(w) = <<bank, 2^n>> /\ OutBit(w) = <<bank, 2^n>>
    BY <2>1 DEF DirBit, OutBit, Wire
  <2>2. ASSUME NEW n \in 0 .. 5, w = Wire("P3", n)
        PROVE  DirBit(w) = <<"P2", 2^(25 + n)>> /\ OutBit(w) = <<"P3", 2^(25 + n)>>
    BY <2>2 DEF DirBit, OutBit, Wire
  <2>3. \/ \E n \in 0 .. 23, bank \in {"P0", "P1", "P2"} : w = Wire(bank, n)
        \/ \E n \in 0 .. 5 : w = Wire("P3", n)
    BY DEF Numbered
  <2>4. CASE \E n \in 0 .. 23, bank \in {"P0", "P1", "P2"} : w = Wire(bank, n)
    BY <1>0, <1>1, <1>3, <2>1, <2>4 DEF Bits, Banks
  <2>5. CASE \E n \in 0 .. 5 : w = Wire("P3", n)
    BY <1>0, <1>2, <1>3, <2>2, <2>5 DEF Bits, Banks
  <2> QED
    BY <2>3, <2>4, <2>5
<1>5. ASSUME NEW n \in 0 .. 23 PROVE OutBit(Wire("GPO", n)) \in Bits
  <2>1. OutBit(Wire("GPO", n)) = <<"P3", 2^n>>
    BY DEF OutBit, Wire
  <2> QED
    BY <1>0, <1>1, <2>1 DEF Bits, Banks
<1> QED
  BY <1>4, <1>5 DEF Driven

\* An input bit is a bit of a bank.
LEMMA InputBitIsOne ==
  ASSUME NEW w \in Wires
  PROVE  InBit(w)[1] \in {"P0", "P2", "P3"} /\ InBit(w)[2] >= 1
<1>1. \A n \in 0 .. 24 : 2^n \in Nat /\ 2^n >= 1
  <2>1. \A n \in 0 .. 24 : n \in BitNumbers
    BY DEF BitNumbers
  <2> QED
    BY <2>1, PowersOfTwo
<1>2. CASE \E n \in 0 .. 12, bank \in {"P0", "P2"} : w = Wire(bank, n)
  <2>1. PICK n \in 0 .. 12, bank \in {"P0", "P2"} : w = Wire(bank, n)
    BY <1>2
  <2>2. InBit(w) = <<bank, 2^n>>
    BY <2>1 DEF InBit, Wire
  <2>3. InBit(w)[1] = bank /\ InBit(w)[2] = 2^n
    BY <2>2
  <2>4. 2^n >= 1
    <3>1. n \in 0 .. 24
      OBVIOUS
    <3> QED
      BY <1>1, <3>1, Zenon
  <2> QED
    BY <2>3, <2>4, Zenon
<1>3. CASE \E n \in {0, 1, 4, 5} : w = Wire("P3", n)
  <2>1. PICK n \in {0, 1, 4, 5} : w = Wire("P3", n)
    BY <1>3
  <2> DEFINE number == IF n = 5 THEN 24 ELSE 10 + n
  <2>2. InBit(w) = <<"P3", 2^number>>
    BY <2>1 DEF InBit, Wire
  <2>3. number \in 0 .. 24
    OBVIOUS
  <2> HIDE DEF number
  <2>4. InBit(w)[1] = "P3" /\ InBit(w)[2] = 2^number
    BY <2>2
  <2>5. 2^number >= 1
    BY <1>1, <2>3
  <2> QED
    BY <2>4, <2>5, Zenon
<1> QED
  BY <1>2, <1>3, WireCases

\* The wires of P3 are the pins device_write looks up in the table for reading.
LEMMA P3IsReadSpecially ==
  ASSUME NEW w \in Wires, w.port = "P3"
  PROVE  PinOf(w) \in ReadSpecially
<1>1. PICK n \in {0, 1, 4, 5} : w = Wire("P3", n)
  BY WireCases DEF Wire
<1>2. PinOf(w) = P3Header[n]
  BY <1>1, WiresAndPins
<1>3. \A m \in {0, 1, 4, 5} : P3Header[m] \in ReadSpecially
  BY Headers DEF ReadSpecially
<1> QED
  BY <1>2, <1>3

=============================================================================
