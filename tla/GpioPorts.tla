----------------------------- MODULE GpioPorts -----------------------------
(***************************************************************************)
(* The pin tables of gpio/ports.c, their lookup, and the wires of the      *)
(* board the registers of gpio/regs.h stand for.                           *)
(*                                                                         *)
(* A register bank is named by its port ("P0", "P2", "P3"); its SET, CLR   *)
(* and STATE addresses (regs.h: +0, +4, +8) are the set of bits that are 1.*)
(***************************************************************************)
EXTENDS Integers, FiniteSetsExt

Row(pin, dir, out, inp, bit, jumper) ==
  [PhysicalPin |-> pin, RegDIR |-> dir, RegOUT |-> out, RegINP |-> inp,
   Bit |-> 2^bit, Jumper |-> jumper]

P0(pin, bit, jumper) == Row(pin, "P0", "P0", "P0", bit, jumper)
\* Deviation: the direction is taken from the bank of port 0.
P2OnP0(pin, bit, jumper) == Row(pin, "P0", "P2", "P2", bit, jumper)

P2(pin, bit, jumper) == Row(pin, "P2", "P2", "P2", bit, jumper)
\* Deviation: an output of P3 is taken for one of P2.
P3OnP2(pin, bit, jumper) == Row(pin, "P2", "P2", "P3", bit, jumper)

P3(pin, bit, jumper) == Row(pin, "P2", "P3", "P3", bit, jumper)

Jumper_Pins ==
  << P2(49, 8, 1), P2(50, 9, 1), P2(51, 10, 1), P2(52, 11, 1), P2(53, 12, 1),
     P3(24, 30, 1), P0(27, 7, 1),
     P0(24, 1, 2), P0(11, 2, 2), P0(12, 3, 2), P0(13, 4, 2), P0(14, 5, 2),
     P2(47, 0, 3), P2(56, 1, 3), P2(48, 2, 3), P2(57, 3, 3), P2(49, 4, 3),
     P2(58, 5, 3), P2(50, 6, 3), P2(45, 7, 3),
     P3(54, 25, 3), P3(46, 26, 3), P3(36, 29, 3),
     P0(40, 0, 4), P0(33, 6, 4) >>

\* Deviation: the input bits are those of the output register.
Jumper_Pins_Read_Output == << P3(24, 30, 1), P3(54, 25, 3), P3(46, 26, 3), P3(36, 29, 3) >>

Jumper_Pins_Read == << P3(24, 24, 1), P3(54, 10, 3), P3(46, 11, 3), P3(36, 14, 3) >>

\* { 0, 0, 0, 0, 0 }
defaultPort ==
  [PhysicalPin |-> 0, RegDIR |-> "none", RegOUT |-> "none", RegINP |-> "none",
   Bit |-> 0, Jumper |-> 0]

\* The first row of the table for this pin.
getValueFromPortInfo(header, pinToFind, jumper) ==
  LET rows == {i \in DOMAIN header : header[i].Jumper = jumper /\ header[i].PhysicalPin = pinToFind}
  IN  IF rows = {} THEN defaultPort ELSE header[Min(rows)]

GetJumperPinVal(jumper, pin, P3_read_input) ==
  getValueFromPortInfo(IF P3_read_input THEN Jumper_Pins_Read ELSE Jumper_Pins, pin, jumper)

\* -EINVAL is a port without a bit.
findPort(jumper, pin) ==
  IF jumper \in 1 .. 3 THEN GetJumperPinVal(jumper, pin, FALSE) ELSE defaultPort

IsValid(port) == port.Bit >= 1

\* The pins that device_write looks up in the table for reading.
ReadSpecially == {<<1, 24>>, <<3, 54>>, <<3, 46>>, <<3, 36>>}

PortToRead(jumper, pin) ==
  IF <<jumper, pin>> \in ReadSpecially
  THEN GetJumperPinVal(jumper, pin, TRUE)
  ELSE findPort(jumper, pin)

-----------------------------------------------------------------------------
(* The board: which wire of the LPC3250 each header pin is, and at which bit *)
(* of which bank the chip has the direction, output and input of a wire.     *)
(* The port tables of gpio/readme.md record it.                              *)

Wire(port, number) == [port |-> port, number |-> number]

P0Header == [n \in 0 .. 7 |-> << <<3, 40>>, <<2, 24>>, <<2, 11>>, <<2, 12>>, <<2, 13>>,
                                 <<2, 14>>, <<3, 33>>, <<1, 27>> >>[n + 1]]
P2Header == [n \in 0 .. 12 |-> << <<3, 47>>, <<3, 56>>, <<3, 48>>, <<3, 57>>, <<3, 49>>,
                                  <<3, 58>>, <<3, 50>>, <<3, 45>>, <<1, 49>>, <<1, 50>>,
                                  <<1, 51>>, <<1, 52>>, <<1, 53>> >>[n + 1]]
P3Header == [n \in {0, 1, 4, 5} |-> CASE n = 0 -> <<3, 54>> [] n = 1 -> <<3, 46>>
                                      [] n = 4 -> <<3, 36>> [] n = 5 -> <<1, 24>>]

HeaderPins == {P0Header[n] : n \in DOMAIN P0Header} \cup
              {P2Header[n] : n \in DOMAIN P2Header} \cup
              {P3Header[n] : n \in DOMAIN P3Header}

Wires == {Wire("P0", n) : n \in DOMAIN P0Header} \cup
         {Wire("P2", n) : n \in DOMAIN P2Header} \cup
         {Wire("P3", n) : n \in DOMAIN P3Header}

PinOf(w) == CASE w.port = "P0" -> P0Header[w.number]
              [] w.port = "P2" -> P2Header[w.number]
              [] w.port = "P3" -> P3Header[w.number]

WireOf(pin) == CHOOSE w \in Wires : PinOf(w) = pin

\* GPIO_00 .. GPIO_05 have direction and output bits from 25 on, and input
\* bits 10 .. 14 and 24; the outputs GPO_00 .. GPO_23 share their output bank.
\* This is what gpiolib.c uses.
DirBit(w) == IF w.port = "P3" THEN <<"P2", 2^(25 + w.number)>> ELSE <<w.port, 2^w.number>>
OutBit(w) == CASE w.port = "P3"  -> <<"P3", 2^(25 + w.number)>>
               [] w.port = "GPO" -> <<"P3", 2^w.number>>
               [] OTHER          -> <<w.port, 2^w.number>>
InBit(w)  == IF w.port = "P3"
             THEN <<"P3", 2^(IF w.number = 5 THEN 24 ELSE 10 + w.number)>>
             ELSE <<w.port, 2^w.number>>

=============================================================================
