------------------------------- MODULE MCGpio -------------------------------
(* Instances of GpioDriver and GpioLib for TLC.                            *)
EXTENDS GpioLib

Write(ops, pins, rests) ==
  {[op |-> op, jumper |-> p[1], pin |-> p[2], rest |-> r] : op \in ops, p \in pins, r \in rests}

Garbage == Write({"none"}, {<<0, 0>>}, {"newline"})

\* A pin of each bank, and rows under jumper 4 and pins that are none: J1.2 is
\* the beginning of J1.24.
PinOfEachBank == {<<2, 24>>, <<1, 51>>, <<3, 54>>}
OddPins       == {<<4, 40>>, <<3, 40>>, <<1, 25>>, <<0, 24>>, <<1, 2>>}

\* Every supported pin is made output, driven and selected.
AllPinCommands ==
  Write({"o", "r", "h"}, SupportedPins, {"newline"}) \cup
  Write({"i", "l"}, PinOfEachBank, {"newline"}) \cup
  Write({"o", "r"}, OddPins, {"newline"}) \cup
  Write({"x"}, {<<1, 24>>}, {"nothing"}) \cup
  Garbage

\* A pin of P3, the beginning of another, and a command that fills Message.
ThreadCommands ==
  Write({"h"}, {<<1, 24>>}, {"newline", "block"}) \cup
  Write({"h"}, {<<1, 2>>}, {"newline", "nothing"})

\* "h J1.24" over "r J2.24" and others.
ThreadMixtures ==
  {[op |-> "h", jumper |-> 2, pin |-> 24], [op |-> "r", jumper |-> 1, pin |-> 24],
   [op |-> "none", jumper |-> 0, pin |-> 0]}
NoMixtures == {}

\* A pin of P3, and one of P2 whose bit P3 reads.
FewCommands == Write({"o", "r", "h"}, {<<3, 54>>, <<1, 51>>}, {"newline"})

\* P0.1, P0.0, P1.3, P2.10, GPIO_00 and GPIO_05, GPO_10 and GPI_10.
SomeCalls ==
  {[op |-> op, gpio |-> g] : op \in {"o", "h"}, g \in {1, 0, 11, 42, 45, 50, 90}} \cup
  {[op |-> "l", gpio |-> 45], [op |-> "i", gpio |-> 45], [op |-> "i", gpio |-> 61]}
NoCalls == {}

NoSignals == {}
SomeSignals == {WireOf(<<3, 54>>)}
=============================================================================
