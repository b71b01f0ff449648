----------------------------- MODULE GpioDriver -----------------------------
(***************************************************************************)
(* The GPIO kernel module of gpio/gpio-base.c: the character device        *)
(* es6_gpio, open in one file at a time, with commands r, h, l and a read  *)
(* that shows the selected pin, and the sysfs file gpiofs with commands i  *)
(* and o.                                                                  *)
(*                                                                         *)
(* Threads that share the open file share Message and Message_Ptr.  A      *)
(* handler may sleep in get_user and put_user, where the user's memory is  *)
(* not present, and other calls then run; between two accesses to user     *)
(* memory a handler is one step.                                           *)
(*                                                                         *)
(* Of Message the model keeps where the string in it ends and its bytes 6  *)
(* and 7, which may lengthen the pin of a command that has no end: "h J1.2"*)
(* over "h J1.24" leaves the 4.                                            *)
(***************************************************************************)
EXTENDS GpioPorts, FiniteSets

CONSTANTS
  Threads,
  Files,         \* files that open() of es6_gpio makes
  Commands,      \* what users write: records [op, jumper, pin, rest]
  Lengths,       \* the lengths users pass to read()
  Naps,          \* bytes copied when a call may sleep
  Mixtures,      \* what sscanf may find in bytes of several calls: [op, jumper, pin]
  Signals,       \* wires an outside circuit may hold high, one at a time
  BUF_LEN,
  MaxCommands    \* bound: commands in a behaviour

\* "J1.24 Direction: 0 Input: 1", and "J0.0 ..." when no port is selected
LongestText == 27
ShortestText == 25

NoPin == <<0, 0>>

\* The pins findPort knows: those that gpio/readme.md lists but J3.40 and J3.33,
\* which the tables of ports.c have under jumper 4.
SupportedPins == {pin \in HeaderPins : pin \notin {<<3, 40>>, <<3, 33>>}}

\* A command is a letter, a blank, J, the jumper, a dot and a pin of one or two
\* digits.  The rest that a user writes is nothing, a newline, or a block of
\* blanks that fills Message.  Bytes of several commands, or of a command and a
\* text, give one command, its pin supported or refused.
ASSUME CommandsAssumption ==
  /\ \A c \in Commands : /\ c.pin \in 0 .. 99
                         /\ c.rest \in {"nothing", "newline", "block"}
  /\ \A d \in Mixtures : /\ d.op \in {"r", "h", "l", "none"}
                         /\ <<d.jumper, d.pin>> \in SupportedPins \cup {NoPin}
  /\ BUF_LEN \in Nat /\ BUF_LEN > LongestText
  /\ Lengths \subseteq Nat /\ Naps \subseteq Nat
  /\ MaxCommands \in Nat

VARIABLES
  dir, outp,        \* bits that are 1 in the direction and output banks
  signal,           \* the wire held high from outside, or NoWire
  deviceIsOpen, selectedPort,
  private_data,     \* per file: its minor number, or Closed
  Message,          \* [length |-> of the string in it, tail |-> its bytes 6 and 7]
  Message_Ptr,      \* offset into Message
  pc,               \* per thread: "idle", or inside the loop of get_user or put_user
  call,             \* per thread: the call it is in
  disturbed,        \* threads over whose command another call has written
  command, answer,  \* the last command asked for and what came of it
  shown,            \* what the last sprintf showed, and the pin's true state
  overflow,         \* a handler went past the end of Message
  commands          \* number of commands so far

registers == <<dir, outp>>
board     == <<registers, signal>>
device    == <<deviceIsOpen, private_data>>
buffer    == <<Message, Message_Ptr>>
calls     == <<pc, call, disturbed>>
request   == <<command, answer, commands>>
seen      == <<shown, overflow>>
vars      == <<board, device, selectedPort, buffer, calls, request, seen>>

NoWire  == Wire("none", 0)
NoDigit == -1
Closed  == -1
NoFile  == "none"
Unshown == [jumper |-> 0, port |-> 0, direction |-> 1, inputstate |-> 1,
            isInput |-> TRUE, isHigh |-> FALSE]

NoCommand == [op |-> "none", jumper |-> 0, pin |-> 0, rest |-> "newline"]
NoCall    == [file |-> NoFile, command |-> NoCommand, length |-> 0, count |-> 0]

Init ==
  /\ dir = {}
  /\ outp = {}
  /\ signal = NoWire
  /\ deviceIsOpen = 0
  /\ private_data = [f \in Files |-> Closed]
  /\ selectedPort = defaultPort
  /\ Message = [length |-> 0, tail |-> [i \in 6 .. 7 |-> NoDigit]]
  /\ Message_Ptr = 0
  /\ pc = [t \in Threads |-> "idle"]
  /\ call = [t \in Threads |-> NoCall]
  /\ disturbed = {}
  /\ command = [file |-> "none", op |-> "none", pin |-> NoPin, ended |-> TRUE]
  /\ answer = "done"
  /\ shown = Unshown
  /\ overflow = FALSE
  /\ commands = 0

-----------------------------------------------------------------------------
(* The chip and the board around it.                                        *)

IsInput(w) == DirBit(w) \notin dir

\* An output drives its wire, an input follows the outside circuit.
IsHigh(w) == IF IsInput(w) THEN w = signal ELSE OutBit(w) \in outp

InputBits == {InBit(w) : w \in {v \in Wires : IsHigh(v)}}

SignalChanges ==
  /\ signal' \in (Signals \cup {NoWire}) \ {signal}
  /\ UNCHANGED <<registers, device, selectedPort, buffer, calls, request, seen>>

-----------------------------------------------------------------------------
(* Opening and closing es6_gpio.                                            *)

IsOpen(f) == private_data[f] # Closed

\* Deviation: the count is not taken back.
KeepCount == UNCHANGED deviceIsOpen

DropCount == deviceIsOpen' = deviceIsOpen - 1

\* Message_Ptr is rewound before the device is found busy.  Minor 1 stands for
\* every one but 0.
DeviceOpen(f, minor) ==
  /\ ~IsOpen(f)
  /\ Message_Ptr' = 0
  /\ \/ /\ deviceIsOpen # 0
        /\ UNCHANGED device
     \/ /\ deviceIsOpen = 0
        /\ deviceIsOpen' = deviceIsOpen + 1
        /\ private_data' = [private_data EXCEPT ![f] = minor]
  /\ UNCHANGED <<board, selectedPort, Message, calls, request, seen>>

\* The kernel calls it when the last call of the file has returned.
DeviceRelease(f) ==
  /\ IsOpen(f)
  /\ \A t \in Threads : call[t].file # f
  /\ private_data' = [private_data EXCEPT ![f] = Closed]
  /\ DropCount
  /\ UNCHANGED <<board, selectedPort, buffer, calls, request, seen>>

-----------------------------------------------------------------------------
(* Calls of the device.                                                     *)

Begin(t, where, f, c, length) ==
  /\ pc[t] = "idle"
  /\ pc' = [pc EXCEPT ![t] = where]
  /\ call' = [call EXCEPT ![t] = [file |-> f, command |-> c, length |-> length, count |-> 0]]

Return(t) ==
  /\ pc' = [pc EXCEPT ![t] = "idle"]
  /\ call' = [call EXCEPT ![t] = NoCall]

\* Threads with bytes in Message when t writes there.
Overwritten(t) == {u \in Threads \ {t} : pc[u] = "copy" /\ call[u].count > 0}

Count == commands < MaxCommands /\ commands' = commands + 1

Asked(file, op, jumper, pin, rest) ==
  command' = [file |-> file, op |-> op, pin |-> <<jumper, pin>>, ended |-> rest # "nothing"]

-----------------------------------------------------------------------------
(* device_write.                                                            *)

PinLength(c) == IF c.pin > 9 THEN 7 ELSE 6


\* The bytes that get_user copies, of which none is a NUL.
CommandLength(c) ==
  IF c.rest = "block" THEN BUF_LEN ELSE PinLength(c) + (IF c.rest = "newline" THEN 1 ELSE 0)

\* Byte i of a command, if it is a digit.
CommandDigit(c, i) == IF i = 6 /\ c.pin > 9 THEN c.pin % 10 ELSE NoDigit

\* Deviation: the loop ends the string.
CopiedString(c, from, to) ==
  [length |-> to,
   tail |-> [i \in 6 .. 7 |-> IF i \in from .. to - 1 THEN CommandDigit(c, i) ELSE Message.tail[i]]]

\* Message with bytes from .. to - 1 of a command.
Copied(c, from, to) ==
  [length |-> Max({Message.length, to}),
   tail |-> [i \in 6 .. 7 |-> IF i \in from .. to - 1 THEN CommandDigit(c, i) ELSE Message.tail[i]]]

Extended(n, digit) == IF digit = NoDigit THEN n ELSE 10 * n + digit

\* The pin sscanf finds after the jumper, from bytes 6 and 7.
ScannedPin(c, tail) ==
  IF c.pin > 9 THEN Extended(c.pin, tail[7])
  ELSE IF tail[6] = NoDigit THEN c.pin
  ELSE Extended(10 * c.pin + tail[6], tail[7])

\* What sscanf may find when thread t has its command in Message.
Scanned(t, tail) ==
  LET c == call[t].command
  IN  IF t \in disturbed THEN Mixtures
      ELSE {[op |-> c.op, jumper |-> c.jumper, pin |-> ScannedPin(c, tail)]}

SetBits(bank, bit)   == bank \cup {bit}
ClearBits(bank, bit) == bank \ {bit}

\* Deviation: the port is looked up in the table for output pins only.
SelectWritePort(jumper, pin) == selectedPort' = findPort(jumper, pin)

\* Deviation: every port is looked up in the table for reading.
SelectReadRow(jumper, pin) == selectedPort' = GetJumperPinVal(jumper, pin, TRUE)

SelectPort(jumper, pin) == selectedPort' = PortToRead(jumper, pin)

\* The effect of what sscanf found.
Obey(op, jumper, pin) ==
  LET port == findPort(jumper, pin)
  IN  \/ /\ IsValid(port) /\ op = "r"
         /\ SelectPort(jumper, pin)
         /\ answer' = "done"
         /\ UNCHANGED outp
      \/ /\ IsValid(port) /\ op = "h"
         /\ outp' = SetBits(outp, <<port.RegOUT, port.Bit>>)
         /\ answer' = "done"
         /\ UNCHANGED selectedPort
      \/ /\ IsValid(port) /\ op = "l"
         /\ outp' = ClearBits(outp, <<port.RegOUT, port.Bit>>)
         /\ answer' = "done"
         /\ UNCHANGED selectedPort
      \/ /\ ~IsValid(port) \/ op \notin {"r", "h", "l"}
         /\ answer' = "refused"
         /\ UNCHANGED <<outp, selectedPort>>

WriteBegin(t, f, c) ==
  /\ private_data[f] = 0
  /\ Begin(t, "copy", f, c, CommandLength(c))
  /\ Count
  /\ UNCHANGED <<board, device, selectedPort, buffer, disturbed, command, answer, seen>>

\* get_user sleeps with n bytes copied.  Naps are shorter than a text, so that
\* what Message holds behind its string stays out of the model.
WritePause(t, n) ==
  LET c == call[t].command
  IN  /\ pc[t] = "copy"
      /\ call[t].count < n /\ n < Min({call[t].length, ShortestText})
      /\ Message' = Copied(c, call[t].count, n)
      /\ call' = [call EXCEPT ![t].count = n]
      /\ disturbed' = disturbed \cup Overwritten(t)
      /\ UNCHANGED <<board, device, selectedPort, Message_Ptr, pc, request, seen>>

\* The last bytes are copied, and the command is parsed and obeyed.
WriteEnd(t) ==
  LET c == call[t].command
  IN  /\ pc[t] = "copy"
      /\ Message' = Copied(c, call[t].count, call[t].length)
      /\ Message_Ptr' = 0
      /\ \E d \in Scanned(t, Message'.tail) :
           /\ Asked("devfs", d.op, d.jumper, d.pin, c.rest)
           /\ Obey(d.op, d.jumper, d.pin)
      /\ disturbed' = (disturbed \cup Overwritten(t)) \ {t}
      /\ Return(t)
      /\ UNCHANGED <<dir, signal, device, commands, seen>>

WriteOtherMinor(f, c) ==
  /\ private_data[f] \notin {0, Closed}
  /\ Count
  /\ Asked("other", c.op, c.jumper, c.pin, c.rest)
  /\ answer' = "refused"
  /\ UNCHANGED <<board, device, selectedPort, buffer, calls, seen>>

-----------------------------------------------------------------------------
(* sysfs_store has a buffer of its own, zeroed behind the command.          *)

SysfsStore(c) ==
  LET port == findPort(c.jumper, c.pin)
  IN  /\ Count
      /\ Asked("sysfs", c.op, c.jumper, c.pin, c.rest)
      /\ \/ /\ IsValid(port) /\ c.op = "i"
            /\ dir' = ClearBits(dir, <<port.RegDIR, port.Bit>>)
            /\ answer' = "done"
         \/ /\ IsValid(port) /\ c.op = "o"
            /\ dir' = SetBits(dir, <<port.RegDIR, port.Bit>>)
            /\ answer' = "done"
         \/ /\ ~IsValid(port) \/ c.op \notin {"i", "o"}
            /\ answer' = "refused"
            /\ UNCHANGED dir
      /\ UNCHANGED <<outp, signal, device, selectedPort, buffer, calls, seen>>

-----------------------------------------------------------------------------
(* device_read.                                                             *)

TextLength == IF IsValid(selectedPort) THEN LongestText ELSE ShortestText

\* Byte i of the text "J1.24 Direction ...", if it is a digit.
TextDigit(i) ==
  LET pin == selectedPort.PhysicalPin
  IN  CASE i = 1 -> selectedPort.Jumper
        [] i = 3 -> IF pin > 9 THEN pin \div 10 ELSE pin
        [] i = 4 /\ pin > 9 -> pin % 10
        [] OTHER -> NoDigit

\* Message with the text and its NUL put at an offset.
WithText(offset) ==
  [length |-> offset + TextLength,
   tail |-> [i \in 6 .. 7 |-> IF i < offset THEN Message.tail[i] ELSE TextDigit(i - offset)]]

\* *Message_Ptr is the NUL that ends the string.
AtEnd == Message.length < BUF_LEN /\ Message_Ptr = Message.length

ShownText ==
  LET jumper == selectedPort.Jumper
      port   == selectedPort.PhysicalPin
      wire   == WireOf(<<jumper, port>>)
  IN  [jumper |-> jumper, port |-> port,
       direction  |-> IF <<selectedPort.RegDIR, selectedPort.Bit>> \in dir THEN 0 ELSE 1,
       inputstate |-> IF <<selectedPort.RegINP, selectedPort.Bit>> \in InputBits THEN 0 ELSE 1,
       isInput |-> ~IsValid(selectedPort) \/ IsInput(wire),
       isHigh  |-> IsValid(selectedPort) /\ IsHigh(wire)]

\* "No port selected" is logged, and the handler goes on to sprintf.
ReadBegin(t, f, length) ==
  /\ private_data[f] = 0
  /\ ~AtEnd
  /\ Begin(t, "put", f, NoCommand, length)
  /\ shown' = ShownText
  /\ overflow' = (Message_Ptr + TextLength + 1 > BUF_LEN)
  /\ Message' = WithText(Message_Ptr)
  /\ disturbed' = disturbed \cup Overwritten(t)
  /\ UNCHANGED <<board, device, selectedPort, Message_Ptr, request>>

\* put_user sleeps with its nth byte, past which Message_Ptr is already.
ReadPause(t, n) ==
  /\ pc[t] = "put"
  /\ call[t].count < n /\ n <= call[t].length
  /\ Message_Ptr + (n - call[t].count) <= Message.length
  /\ Message_Ptr' = Message_Ptr + (n - call[t].count)
  /\ call' = [call EXCEPT ![t].count = n]
  /\ UNCHANGED <<board, device, selectedPort, Message, pc, disturbed, request, seen>>

\* The rest of the string, or of what the user asked for.  In a Message without
\* a NUL the string does not end.
ReadEnd(t) ==
  LET left == call[t].length - call[t].count
      rest == Message.length - Message_Ptr
  IN  /\ pc[t] = "put"
      /\ Message_Ptr' = Message_Ptr + Min({left, rest})
      /\ overflow' = (Message.length = BUF_LEN /\ left > rest)
      /\ disturbed' = disturbed \ {t}
      /\ Return(t)
      /\ UNCHANGED <<board, device, selectedPort, Message, request, shown>>

\* Another minor number, or the end of the string.
ReadNothing(t, f) ==
  /\ pc[t] = "idle" /\ IsOpen(f)
  /\ private_data[f] # 0 \/ AtEnd
  /\ UNCHANGED vars

-----------------------------------------------------------------------------

Step ==
  \/ SignalChanges
  \/ \E f \in Files : \/ \E minor \in {0, 1} : DeviceOpen(f, minor)
                      \/ DeviceRelease(f)
  \/ \E c \in Commands : \/ SysfsStore(c)
                         \/ \E f \in Files : WriteOtherMinor(f, c)
  \/ \E t \in Threads :
       \/ \E f \in Files : \/ \E c \in Commands : WriteBegin(t, f, c)
                           \/ \E length \in Lengths : ReadBegin(t, f, length)
                           \/ ReadNothing(t, f)
       \/ \E n \in Naps : WritePause(t, n) \/ ReadPause(t, n)
       \/ WriteEnd(t)
       \/ ReadEnd(t)

\* What lies behind Message is not modelled: nothing happens after an overflow.
Stopped == overflow /\ UNCHANGED vars

Next == (~overflow /\ Step) \/ Stopped

Spec == Init /\ [][Next]_vars

-----------------------------------------------------------------------------

Banks == {"P0", "P1", "P2", "P3"}
Bits  == Banks \X {2^n : n \in 0 .. 30}
Rows  == {Jumper_Pins[i] : i \in DOMAIN Jumper_Pins} \cup
         {Jumper_Pins_Read[i] : i \in DOMAIN Jumper_Pins_Read}

CallType == [file : Files \cup {NoFile}, command : Commands \cup {NoCommand},
             length : Nat, count : Nat]

\* The variables keep the types of their C declarations and registers, and
\* Message_Ptr never passes the NUL that ends the string.
TypeOK ==
  /\ dir \subseteq Bits /\ outp \subseteq Bits
  /\ signal \in Signals \cup {NoWire}
  /\ deviceIsOpen \in 0 .. 1
  /\ private_data \in [Files -> {Closed, 0, 1}]
  /\ selectedPort \in Rows \cup {defaultPort}
  /\ pc \in [Threads -> {"idle", "copy", "put"}]
  /\ call \in [Threads -> CallType]
  /\ disturbed \subseteq Threads
  /\ overflow \in BOOLEAN
  /\ commands \in 0 .. MaxCommands
  /\ ~overflow => /\ Message.length \in 0 .. BUF_LEN
                  /\ Message.tail \in [6 .. 7 -> 0 .. 9 \cup {NoDigit}]
                  /\ Message_Ptr \in 0 .. Message.length

\* The device is open in one file, and after every sequence of opens, refused
\* opens and closes it can be opened again when no file has it.
OneHolder == deviceIsOpen = Cardinality({f \in Files : IsOpen(f)}) /\ deviceIsOpen <= 1

\* No handler goes past the end of Message.
MessageFits == ~overflow

\* What sprintf shows as Input is 0 when the pin that it names is high and 1
\* when it is low: the level, inverted as device_read inverts it.
ShowsInvertedInput == shown.inputstate = IF shown.isHigh THEN 0 ELSE 1

\* What sprintf shows as Direction is the direction of the pin it names.
ShowsDirection == shown.direction = IF shown.isInput THEN 1 ELSE 0

\* Direction is wrong for no pins but those of the table for reading.
DirectionOffP3 == ShowsDirection \/ <<shown.jumper, shown.port>> \in ReadSpecially

\* A port once selected stays selected, whatever is refused or closed after it.
SelectionStays == [][IsValid(selectedPort) => IsValid(selectedPort)']_selectedPort

-----------------------------------------------------------------------------
(* The registers, seen as pins of the headers.                              *)

OutputPins == {PinOf(w) : w \in {v \in Wires : DirBit(v) \in dir}}
HighPins   == {PinOf(w) : w \in {v \in Wires : OutBit(v) \in outp}}
Inside     == {t \in Threads : pc[t] # "idle"}

=============================================================================
