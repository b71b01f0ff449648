----------------------------- MODULE GpioProofs -----------------------------
(***************************************************************************)
(* Theorems about the GPIO module beside gpiolib, for every number of      *)
(* threads and files, every set of commands, calls, read lengths and       *)
(* sleeping points, every buffer size the assumption allows and every      *)
(* number of commands.                                                     *)
(***************************************************************************)
EXTENDS GpioLib, GpioTableProofs, FiniteSetTheorems

OpenFiles == {f \in Files : IsOpen(f)}

\* The count is the number of open files, which is none or one.
HolderInv ==
  /\ private_data \in [Files -> {Closed, 0, 1}]
  /\ IsFiniteSet(OpenFiles)
  /\ deviceIsOpen = Cardinality(OpenFiles)
  /\ deviceIsOpen \in {0, 1}

\* The steps of LibNext, each a name for itself.
LEMMA StepIsOneOf ==
  ASSUME [LibNext]_vars
  PROVE  \/ UNCHANGED vars
         \/ SignalChanges
         \/ \E f \in Files, minor \in {0, 1} : DeviceOpen(f, minor)
         \/ \E f \in Files : DeviceRelease(f)
         \/ \E c \in Commands : SysfsStore(c)
         \/ \E f \in Files, c \in Commands : WriteOtherMinor(f, c)
         \/ \E t \in Threads, f \in Files, c \in Commands : WriteBegin(t, f, c)
         \/ \E t \in Threads, n \in Naps : ~overflow /\ WritePause(t, n)
         \/ \E t \in Threads : ~overflow /\ WriteEnd(t)
         \/ \E t \in Threads, f \in Files, length \in Lengths : ~overflow /\ ReadBegin(t, f, length)
         \/ \E t \in Threads, n \in Naps : ~overflow /\ ReadPause(t, n)
         \/ \E t \in Threads : ~overflow /\ ReadEnd(t)
         \/ \E c \in LibCalls : LibDirectionInput(c) \/ LibDirectionOutput(c) \/ LibSetValue(c)
<1>1. CASE Stopped \/ UNCHANGED vars
  BY <1>1 DEF Stopped
<1>2. CASE ~overflow /\ LibStep
  BY <1>2 DEF LibStep
<1>3. CASE ~overflow /\ Step
  <2>1. ASSUME NEW t \in Threads, NEW f \in Files, ReadNothing(t, f) PROVE UNCHANGED vars
    BY <2>1 DEF ReadNothing
  <2> QED
    BY <1>3, <2>1 DEF Step
<1> QED
  BY <1>1, <1>2, <1>3 DEF LibNext

\* Every step keeps the count right.
LEMMA HoldersAreCounted == LibSpec => []HolderInv
<1>1. Init => HolderInv
  <2> SUFFICES ASSUME Init PROVE HolderInv
    OBVIOUS
  <2>1. private_data = [f \in Files |-> Closed] /\ deviceIsOpen = 0
    BY DEF Init
  <2>2. OpenFiles = {}
    BY <2>1 DEF OpenFiles, IsOpen
  <2> QED
    BY <2>1, <2>2, FS_EmptySet DEF HolderInv
<1>2. HolderInv /\ [LibNext]_vars => HolderInv'
  <2> SUFFICES ASSUME HolderInv, [LibNext]_vars PROVE HolderInv'
    OBVIOUS
  <2>1. ASSUME UNCHANGED device PROVE HolderInv'
    BY <2>1 DEF HolderInv, OpenFiles, IsOpen, device
  <2>2. ASSUME NEW f \in Files, NEW minor \in {0, 1}, DeviceOpen(f, minor) PROVE HolderInv'
    <3>1. CASE deviceIsOpen # 0
      BY <2>1, <2>2, <3>1 DEF DeviceOpen
    <3>2. CASE deviceIsOpen = 0
      <4>1. /\ private_data' = [private_data EXCEPT ![f] = minor]
            /\ deviceIsOpen' = 1 /\ f \notin OpenFiles
        BY <2>2, <3>2 DEF DeviceOpen, OpenFiles
      <4>2. private_data' \in [Files -> {Closed, 0, 1}]
        BY <4>1 DEF HolderInv
      <4>3. OpenFiles' = OpenFiles \cup {f}
        BY <4>1 DEF HolderInv, OpenFiles, IsOpen, Closed
      <4>4. IsFiniteSet(OpenFiles \cup {f}) /\ Cardinality(OpenFiles \cup {f}) = Cardinality(OpenFiles) + 1
        BY <4>1, FS_AddElement DEF HolderInv
      <4> QED
        BY <3>2, <4>1, <4>2, <4>3, <4>4 DEF HolderInv
    <3> QED
      BY <3>1, <3>2
  <2>3. ASSUME NEW f \in Files, DeviceRelease(f) PROVE HolderInv'
    <3>1. /\ private_data' = [private_data EXCEPT ![f] = Closed]
          /\ deviceIsOpen' = deviceIsOpen - 1 /\ f \in OpenFiles
      BY <2>3 DEF DeviceRelease, DropCount, OpenFiles
    <3>2. private_data' \in [Files -> {Closed, 0, 1}]
      BY <3>1 DEF HolderInv
    <3>3. OpenFiles' = OpenFiles \ {f}
      BY <3>1 DEF HolderInv, OpenFiles, IsOpen
    <3>4. IsFiniteSet(OpenFiles \ {f}) /\ Cardinality(OpenFiles \ {f}) = Cardinality(OpenFiles) - 1
      BY <3>1, FS_RemoveElement DEF HolderInv
    <3>5. deviceIsOpen # 0
      BY <3>1, FS_EmptySet DEF HolderInv
    <3> QED
      BY <3>1, <3>2, <3>3, <3>4, <3>5 DEF HolderInv
  <2>4. ASSUME NEW c \in Commands, SysfsStore(c) PROVE HolderInv'
    BY <2>1, <2>4 DEF SysfsStore
  <2>5. ASSUME NEW f \in Files, NEW c \in Commands, WriteOtherMinor(f, c) PROVE HolderInv'
    BY <2>1, <2>5 DEF WriteOtherMinor
  <2>6. ASSUME NEW t \in Threads, NEW f \in Files, NEW c \in Commands, WriteBegin(t, f, c) PROVE HolderInv'
    BY <2>1, <2>6 DEF WriteBegin
  <2>7. ASSUME NEW t \in Threads, NEW n \in Naps, WritePause(t, n) PROVE HolderInv'
    BY <2>1, <2>7 DEF WritePause
  <2>8. ASSUME NEW t \in Threads, WriteEnd(t) PROVE HolderInv'
    BY <2>1, <2>8 DEF WriteEnd
  <2>9. ASSUME NEW t \in Threads, NEW f \in Files, NEW length \in Lengths, ReadBegin(t, f, length) PROVE HolderInv'
    BY <2>1, <2>9 DEF ReadBegin
  <2>10. ASSUME NEW t \in Threads, NEW n \in Naps, ReadPause(t, n) PROVE HolderInv'
    BY <2>1, <2>10 DEF ReadPause
  <2>11. ASSUME NEW t \in Threads, ReadEnd(t) PROVE HolderInv'
    BY <2>1, <2>11 DEF ReadEnd
  <2>12. CASE SignalChanges
    BY <2>1, <2>12 DEF SignalChanges
  <2>13. CASE UNCHANGED vars
    BY <2>1, <2>13 DEF vars
  <2>14. ASSUME NEW c \in LibCalls, LibDirectionInput(c) \/ LibDirectionOutput(c) \/ LibSetValue(c) PROVE HolderInv'
    BY <2>1, <2>14 DEF LibDirectionInput, LibDirectionOutput, LibSetValue
  <2> QED
    BY <2>2, <2>3, <2>4, <2>5, <2>6, <2>7, <2>8, <2>9, <2>10, <2>11, <2>12, <2>13, <2>14, StepIsOneOf
<1> QED
  BY <1>1, <1>2, PTL DEF LibSpec

\* Opens, refused opens and closes never leave es6_gpio open in two files, nor
\* in none with a count that keeps everybody out.
THEOREM DeviceHasOneHolder == LibSpec => []OneHolder
<1>1. HolderInv => OneHolder
  BY DEF HolderInv, OneHolder, OpenFiles
<1> QED
  BY <1>1, HoldersAreCounted, PTL

-----------------------------------------------------------------------------
(* Types.                                                                   *)

\* A write copies a command of its own length, and a read has put no more than
\* was asked for.
CallInv ==
  \A t \in Threads :
    /\ pc[t] = "copy" => /\ call[t].command \in Commands
                         /\ call[t].length = CommandLength(call[t].command)
    /\ pc[t] = "put" => call[t].count <= call[t].length

\* The longer of two strings.
LEMMA LongerOf ==
  ASSUME NEW a \in Nat, NEW b \in Nat
  PROVE  Max({a, b}) \in {a, b} /\ Max({a, b}) >= a /\ Max({a, b}) >= b
<1>1. \E x \in {a, b} : \A y \in {a, b} : x >= y
  OBVIOUS
<1> QED
  BY <1>1 DEF Max

\* The shorter of two.
LEMMA ShorterOf ==
  ASSUME NEW a \in Nat, NEW b \in Nat
  PROVE  Min({a, b}) \in {a, b} /\ Min({a, b}) <= a /\ Min({a, b}) <= b
<1>1. \E x \in {a, b} : \A y \in {a, b} : x <= y
  OBVIOUS
<1> QED
  BY <1>1 DEF Min

\* gpiolib calls a wire with the bits the call writes: a GPI is only made input, a
\* GPO never, and neither is at a pin of a header.
LEMMA LibWires ==
  ASSUME NEW c \in LibCalls
  PROVE  LET w == LibWire(c.gpio)
         IN  /\ w \in Driven \/ w.port = "GPI"
             /\ w.port = "GPI" => c.op = "i" /\ w \notin Wires
             /\ w.port = "GPO" => c.op # "i" /\ w \notin Wires
             /\ w \in Driven /\ w.port # "GPO" => w \in Numbered
<1> DEFINE chip == CHOOSE x \in lpc32xx_gpiochip : Has(x, c.gpio)
           w == LibWire(c.gpio)
<1>1. Callable(c)
  BY LibCallsAssumption
<1>2. chip \in lpc32xx_gpiochip /\ Has(chip, c.gpio)
  BY <1>1 DEF Callable
<1>3. w = Wire(chip.port, c.gpio - chip.base) /\ c.gpio - chip.base \in 0 .. chip.ngpio - 1
  BY <1>2 DEF LibWire, Has
<1> DEFINE n == c.gpio - chip.base
<1>4. \/ w = Wire("P0", n) /\ n \in 0 .. 7
      \/ w = Wire("P1", n) /\ n \in 0 .. 23
      \/ w = Wire("P2", n) /\ n \in 0 .. 12
      \/ w = Wire("P3", n) /\ n \in 0 .. 5
      \/ w = Wire("GPI", n) /\ n \in 0 .. 28
      \/ w = Wire("GPO", n) /\ n \in 0 .. 23
  <2> HIDE DEF w
  <2> DEFINE Is(x) == \/ (x.port = "P0" /\ x.ngpio = 8) \/ (x.port = "P1" /\ x.ngpio = 24)
                      \/ (x.port = "P2" /\ x.ngpio = 13) \/ (x.port = "P3" /\ x.ngpio = 6)
                      \/ (x.port = "GPI" /\ x.ngpio = 29) \/ (x.port = "GPO" /\ x.ngpio = 24)
  <2>1. \A x \in lpc32xx_gpiochip : Is(x)
    BY DEF lpc32xx_gpiochip, Chip
  <2>2. Is(chip)
    <3> HIDE DEF Is, chip
    <3> QED
      BY <1>2, <2>1
  <2> HIDE DEF chip
  <2> QED
    BY <1>3, <2>2
<1> HIDE DEF n, w
<1>5. \A x \in Wires : x.port \in {"P0", "P2", "P3"}
  BY WireCases DEF Wire
<1>6. w.port = "GPI" => c.op = "i"
  BY <1>1 DEF Callable, w
<1>7. w.port = "GPO" => c.op # "i"
  BY <1>1 DEF Callable, w
<1>8. w.port = "GPI" => w \notin Wires
  BY <1>5
<1>9. w.port = "GPO" => w \notin Wires
  BY <1>5
<1>10. w \in Driven \/ w.port = "GPI"
  BY <1>4 DEF Driven, Numbered, Wire
<1>11. w \in Driven /\ w.port # "GPO" => w \in Numbered
  BY DEF Driven, Wire
<1> QED
  BY <1>6, <1>7, <1>8, <1>9, <1>10, <1>11 DEF w

\* A port has the direction and the output bit of the wire at a pin.
IsPortOf(port, pin) ==
  /\ IsValid(port)
  /\ \E w \in Wires : /\ PinOf(w) = pin
                      /\ <<port.RegDIR, port.Bit>> = DirBit(w)
                      /\ <<port.RegOUT, port.Bit>> = OutBit(w)

\* findPort gives the bits of the pin's wire, or no port when the tables have
\* no such pin.
LEMMA PortFound ==
  ASSUME NEW jumper, NEW pin
  PROVE  IF <<jumper, pin>> \in SupportedPins
         THEN IsPortOf(findPort(jumper, pin), <<jumper, pin>>)
         ELSE ~IsValid(findPort(jumper, pin))
<1> DEFINE port == findPort(jumper, pin)
<1>1. CASE <<jumper, pin>> \notin SupportedPins
  <2>1. port = defaultPort
    BY <1>1, FindPortIsRight
  <2> QED
    BY <1>1, <2>1 DEF IsValid, defaultPort
<1>2. CASE <<jumper, pin>> \in SupportedPins
  <2>1. PICK i \in 1 .. 23 : PinOf(RowWire[i]) = <<jumper, pin>>
    BY <1>2, SupportedPinsAreRows
  <2> DEFINE w == RowWire[i]
  <2>2. w \in Wires /\ PinOf(w) = <<jumper, pin>>
    BY <2>1, RowsAreWires
  <2>3. port = PortOf(w)
    BY <1>2, <2>2, FindPortIsRight, WireOfPin
  <2>4. w \in Numbered
    BY <2>2, WiresAreNumbered
  <2> HIDE DEF w, port
  <2>5. port.RegDIR = DirBit(w)[1] /\ port.RegOUT = OutBit(w)[1] /\ port.Bit = DirBit(w)[2]
    BY <2>3 DEF PortOf
  <2>6. <<port.RegDIR, port.Bit>> = DirBit(w) /\ <<port.RegOUT, port.Bit>> = OutBit(w) /\ port.Bit >= 1
    BY <2>4, <2>5, WireBits
  <2> QED
    BY <1>2, <2>2, <2>6 DEF IsValid, IsPortOf, port
<1> QED
  BY <1>1, <1>2

\* The bits a command sets are bits of the registers, and the port it selects is
\* a row of a table.
LEMMA PortsAreTyped ==
  ASSUME NEW jumper, NEW pin, IsValid(findPort(jumper, pin))
  PROVE  LET port == findPort(jumper, pin)
         IN  /\ <<port.RegDIR, port.Bit>> \in Bits /\ <<port.RegOUT, port.Bit>> \in Bits
             /\ PortToRead(jumper, pin) \in Rows
<1> DEFINE port == findPort(jumper, pin)
<1>1. PICK w \in Wires : /\ PinOf(w) = <<jumper, pin>>
                         /\ <<port.RegDIR, port.Bit>> = DirBit(w)
                         /\ <<port.RegOUT, port.Bit>> = OutBit(w)
  <2>1. IsPortOf(port, <<jumper, pin>>)
    BY PortFound
  <2> QED
    BY <2>1 DEF IsPortOf
<1>2. PinOf(w) \in SupportedPins
  BY <1>1, PortFound
<1>3. DirBit(w) \in Bits /\ OutBit(w) \in Bits
  BY WiresAreNumbered, WireBits DEF Driven
<1>4. PortToRead(jumper, pin) \in Rows
  BY <1>1, <1>2, PortToReadIsRight
<1> QED
  BY <1>1, <1>3, <1>4

\* The length of the text.
LEMMA TextLengths == TextLength \in {25, 27}
BY DEF TextLength, LongestText, ShortestText

\* The length of a command.
LEMMA CommandLengths ==
  ASSUME NEW c \in Commands
  PROVE  /\ CommandLength(c) \in 6 .. BUF_LEN
         /\ c.rest # "nothing" /\ c.pin <= 9 => CommandLength(c) >= 7
         /\ c.rest # "nothing" /\ c.pin > 9 => CommandLength(c) >= 8
BY CommandsAssumption DEF CommandLength, PinLength, LongestText

\* The numbers in the tables are those of jumpers and pins.
LEMMA RowNumbers ==
  ASSUME NEW port \in Rows \cup {defaultPort}
  PROVE  port.Jumper \in 0 .. 9 /\ port.PhysicalPin \in 0 .. 99
<1> DEFINE InRange(x) == x.Jumper \in 0 .. 9 /\ x.PhysicalPin \in 0 .. 99
<1>1. \A i \in 1 .. 25 : InRange(Jumper_Pins[i])
  BY DEF Jumper_Pins, P0, P2, P3, Row
<1>2. \A i \in 1 .. 4 : InRange(Jumper_Pins_Read[i])
  BY DEF Jumper_Pins_Read, P3, Row
<1>3. InRange(defaultPort)
  BY DEF defaultPort
<1>4. DOMAIN Jumper_Pins = 1 .. 25 /\ DOMAIN Jumper_Pins_Read = 1 .. 4
  BY DEF Jumper_Pins, Jumper_Pins_Read
<1> HIDE DEF InRange
<1>5. InRange(port)
  BY <1>1, <1>2, <1>3, <1>4 DEF Rows
<1> QED
  BY <1>5 DEF InRange

\* A byte of the text is a digit of the selected port, or none.
LEMMA TextDigits ==
  ASSUME NEW i \in Int, selectedPort \in Rows \cup {defaultPort}
  PROVE  TextDigit(i) \in 0 .. 9 \cup {NoDigit}
<1>1. selectedPort.Jumper \in 0 .. 9 /\ selectedPort.PhysicalPin \in 0 .. 99
  BY RowNumbers
<1> DEFINE pin == selectedPort.PhysicalPin
<1>2. pin \div 10 \in 0 .. 9 /\ pin % 10 \in 0 .. 9 /\ (pin <= 9 => pin \in 0 .. 9)
  BY <1>1
<1> HIDE DEF pin
<1> QED
  BY <1>1, <1>2 DEF TextDigit, pin

\* Message and Message_Ptr, while no handler has gone past the end of Message.
BufferInv ==
  /\ Message.length \in 0 .. BUF_LEN
  /\ Message.tail \in [6 .. 7 -> 0 .. 9 \cup {NoDigit}]
  /\ Message_Ptr \in 0 .. Message.length

\* Bytes of a command leave a string that fits in Message.
LEMMA CopiedIsTyped ==
  ASSUME NEW c \in Commands, NEW from \in Nat, NEW to \in 0 .. BUF_LEN, BufferInv,
         Message' = Copied(c, from, to), Message_Ptr' = 0 \/ Message_Ptr' = Message_Ptr
  PROVE  BufferInv'
<1>1. BUF_LEN \in Nat /\ c.pin \in 0 .. 99
  BY CommandsAssumption
<1>2. Message.length \in 0 .. BUF_LEN /\ Message_Ptr \in 0 .. Message.length
  BY DEF BufferInv
<1>3. /\ Max({Message.length, to}) \in {Message.length, to}
      /\ Max({Message.length, to}) >= Message.length
  BY <1>1, <1>2, LongerOf
<1>4. \A i \in 6 .. 7 : CommandDigit(c, i) \in 0 .. 9 \cup {NoDigit}
  <2>1. c.pin % 10 \in 0 .. 9
    BY <1>1
  <2> QED
    BY <2>1 DEF CommandDigit
<1>5. Message'.length = Max({Message.length, to})
  BY DEF Copied
<1>6. Message'.tail \in [6 .. 7 -> 0 .. 9 \cup {NoDigit}]
  BY <1>4 DEF Copied, BufferInv
<1> QED
  BY <1>1, <1>2, <1>3, <1>5, <1>6 DEF BufferInv

\* The parts of the state that the steps change together.
BoardInv ==
  /\ dir \subseteq Bits /\ outp \subseteq Bits
  /\ signal \in Signals \cup {NoWire}
  /\ selectedPort \in Rows \cup {defaultPort}

CallsInv ==
  /\ pc \in [Threads -> {"idle", "copy", "put"}]
  /\ call \in [Threads -> CallType]
  /\ disturbed \subseteq Threads
  /\ CallInv

FlagsInv ==
  /\ overflow \in BOOLEAN
  /\ commands \in 0 .. MaxCommands

TypeInv ==
  /\ BoardInv
  /\ CallsInv
  /\ FlagsInv
  /\ ~overflow => BufferInv

\* A call begins with types and counts that fit.
LEMMA BeginIsTyped ==
  ASSUME NEW t \in Threads, NEW f \in Files, NEW c \in Commands \cup {NoCommand},
         NEW length \in Nat, NEW where \in {"copy", "put"},
         where = "copy" => c \in Commands /\ length = CommandLength(c),
         Begin(t, where, f, c, length), disturbed' \subseteq Threads, CallsInv
  PROVE  CallsInv'
<1> DEFINE new == [file |-> f, command |-> c, length |-> length, count |-> 0]
<1>1. new \in CallType
  BY DEF CallType
<1>2. pc' = [pc EXCEPT ![t] = where] /\ call' = [call EXCEPT ![t] = new]
  BY DEF Begin
<1>3. pc' \in [Threads -> {"idle", "copy", "put"}] /\ call' \in [Threads -> CallType]
  BY <1>1, <1>2 DEF CallsInv
<1>4. CallInv'
  BY <1>2 DEF CallsInv, CallInv
<1> QED
  BY <1>3, <1>4 DEF CallsInv

\* A call that returns leaves those of others as they are.
LEMMA ReturnIsTyped ==
  ASSUME NEW t \in Threads, Return(t), disturbed' \subseteq Threads, CallsInv
  PROVE  CallsInv'
<1>1. NoCall \in CallType
  BY DEF NoCall, CallType
<1>2. pc' = [pc EXCEPT ![t] = "idle"] /\ call' = [call EXCEPT ![t] = NoCall]
  BY DEF Return
<1>3. pc' \in [Threads -> {"idle", "copy", "put"}] /\ call' \in [Threads -> CallType]
  BY <1>1, <1>2 DEF CallsInv
<1>4. CallInv'
  BY <1>2 DEF CallsInv, CallInv
<1> QED
  BY <1>3, <1>4 DEF CallsInv

\* A call that sleeps has copied or put more bytes, not too many.
LEMMA PauseIsTyped ==
  ASSUME NEW t \in Threads, NEW n \in Nat, n <= call[t].length, UNCHANGED pc,
         call' = [call EXCEPT ![t].count = n], disturbed' \subseteq Threads, CallsInv
  PROVE  CallsInv'
<1>1. call[t] \in CallType
  BY DEF CallsInv
<1>2. [call[t] EXCEPT !.count = n] \in CallType
  BY <1>1 DEF CallType
<1>3. call' = [call EXCEPT ![t] = [call[t] EXCEPT !.count = n]]
  OBVIOUS
<1>4. call' \in [Threads -> CallType]
  BY <1>2, <1>3 DEF CallsInv
<1>5. /\ \A u \in Threads : call'[u].command = call[u].command /\ call'[u].length = call[u].length
      /\ \A u \in Threads : u # t => call'[u].count = call[u].count
      /\ call'[t].count = n
  BY DEF CallsInv, CallType
<1>6. CallInv'
  BY <1>5 DEF CallsInv, CallInv
<1> QED
  BY <1>4, <1>6 DEF CallsInv

\* What sscanf finds is obeyed on bits of the registers and rows of the tables.
LEMMA ObeyIsTyped ==
  ASSUME NEW op, NEW jumper, NEW pin, Obey(op, jumper, pin), UNCHANGED <<dir, signal>>, BoardInv
  PROVE  BoardInv'
<1> DEFINE port == findPort(jumper, pin)
<1>1. IsValid(port) => <<port.RegOUT, port.Bit>> \in Bits /\ PortToRead(jumper, pin) \in Rows
  BY PortsAreTyped
<1> HIDE DEF port
<1>2. CASE IsValid(port) /\ SelectPort(jumper, pin) /\ UNCHANGED outp
  BY <1>1, <1>2 DEF BoardInv, SelectPort
<1>3. CASE IsValid(port) /\ outp' = SetBits(outp, <<port.RegOUT, port.Bit>>) /\ UNCHANGED selectedPort
  BY <1>1, <1>3 DEF BoardInv, SetBits
<1>4. CASE outp' = ClearBits(outp, <<port.RegOUT, port.Bit>>) /\ UNCHANGED selectedPort
  BY <1>4 DEF BoardInv, ClearBits
<1>5. CASE UNCHANGED <<outp, selectedPort>>
  BY <1>5 DEF BoardInv
<1> QED
  BY <1>2, <1>3, <1>4, <1>5 DEF Obey, port

\* The number of commands keeps within its bound.
LEMMA CountIsTyped ==
  ASSUME Count, commands \in 0 .. MaxCommands
  PROVE  commands' \in 0 .. MaxCommands
BY CommandsAssumption DEF Count

\* Every step keeps the types; what Message holds is not known after one that
\* goes past its end.
LEMMA TypesAreKept == LibSpec => []TypeInv
<1>1. Init => TypeInv
  <2> SUFFICES ASSUME Init PROVE TypeInv
    OBVIOUS
  <2>1. BUF_LEN \in Nat /\ MaxCommands \in Nat
    BY CommandsAssumption
  <2>2. BufferInv
    BY <2>1 DEF Init, BufferInv
  <2>3. BoardInv
    BY DEF Init, BoardInv
  <2>4. CallsInv
    <3>1. NoCall \in CallType
      BY DEF NoCall, CallType
    <3>2. pc = [t \in Threads |-> "idle"] /\ call = [t \in Threads |-> NoCall] /\ disturbed = {}
      BY DEF Init
    <3> QED
      BY <3>1, <3>2 DEF CallsInv, CallInv
  <2>5. FlagsInv
    <3>1. commands \in 0 .. MaxCommands
      BY <2>1 DEF Init
    <3>2. overflow \in BOOLEAN
      BY DEF Init
    <3> QED
      BY <3>1, <3>2 DEF FlagsInv
  <2> QED
    BY <2>2, <2>3, <2>4, <2>5 DEF TypeInv
<1>2. TypeInv /\ [LibNext]_vars => TypeInv'
  <2> SUFFICES ASSUME TypeInv, [LibNext]_vars PROVE TypeInv'
    OBVIOUS
  <2>0. BoardInv /\ CallsInv /\ FlagsInv /\ (~overflow => BufferInv)
    BY DEF TypeInv
  <2>1. /\ UNCHANGED <<board, selectedPort>> => BoardInv'
        /\ UNCHANGED calls => CallsInv'
        /\ UNCHANGED <<overflow, commands>> => FlagsInv'
        /\ UNCHANGED <<buffer, overflow>> => (~overflow => BufferInv)'
    <3>1. UNCHANGED <<board, selectedPort>> => BoardInv'
      BY <2>0 DEF BoardInv, board, registers
    <3>2. UNCHANGED calls => CallsInv'
      BY <2>0 DEF CallsInv, CallInv, calls
    <3>3. UNCHANGED <<overflow, commands>> => FlagsInv'
      BY <2>0 DEF FlagsInv
    <3>4. UNCHANGED <<buffer, overflow>> => (~overflow => BufferInv)'
      BY <2>0 DEF BufferInv, buffer
    <3> QED
      BY <3>1, <3>2, <3>3, <3>4
  <2>2. CASE UNCHANGED vars
    BY <2>1, <2>2 DEF TypeInv, vars, request, seen
  <2>3. CASE SignalChanges
    <3>1. BoardInv'
      BY <2>0, <2>3 DEF SignalChanges, BoardInv, registers
    <3> QED
      BY <2>1, <2>3, <3>1 DEF TypeInv, SignalChanges, request, seen
  <2>4. ASSUME NEW f \in Files, NEW minor \in {0, 1}, DeviceOpen(f, minor) PROVE TypeInv'
    <3>1. (~overflow => BufferInv)'
      BY <2>0, <2>4, CommandsAssumption DEF DeviceOpen, BufferInv, seen
    <3> QED
      BY <2>1, <2>4, <3>1 DEF TypeInv, DeviceOpen, request, seen
  <2>5. ASSUME NEW f \in Files, DeviceRelease(f) PROVE TypeInv'
    BY <2>1, <2>5 DEF TypeInv, DeviceRelease, request, seen
  <2>6. ASSUME NEW c \in Commands, SysfsStore(c) PROVE TypeInv'
    <3> DEFINE port == findPort(c.jumper, c.pin)
    <3>1. IsValid(port) => <<port.RegDIR, port.Bit>> \in Bits
      BY PortsAreTyped
    <3> HIDE DEF port
    <3>2. BoardInv'
      BY <2>0, <2>6, <3>1 DEF BoardInv, SysfsStore, SetBits, ClearBits, port
    <3>3. FlagsInv'
      BY <2>0, <2>6, CountIsTyped DEF FlagsInv, SysfsStore, seen
    <3> QED
      BY <2>1, <2>6, <3>2, <3>3 DEF TypeInv, SysfsStore, seen
  <2>7. ASSUME NEW f \in Files, NEW c \in Commands, WriteOtherMinor(f, c) PROVE TypeInv'
    <3>1. FlagsInv'
      BY <2>0, <2>7, CountIsTyped DEF FlagsInv, WriteOtherMinor, seen
    <3> QED
      BY <2>1, <2>7, <3>1 DEF TypeInv, WriteOtherMinor, seen
  <2>8. ASSUME NEW t \in Threads, NEW f \in Files, NEW c \in Commands, WriteBegin(t, f, c) PROVE TypeInv'
    <3>1. CommandLength(c) \in Nat
      BY CommandLengths
    <3>2. disturbed' \subseteq Threads
      BY <2>0, <2>8 DEF WriteBegin, CallsInv
    <3>3. CallsInv'
      BY <2>0, <2>8, <3>1, <3>2, BeginIsTyped DEF WriteBegin
    <3>4. FlagsInv'
      BY <2>0, <2>8, CountIsTyped DEF FlagsInv, WriteBegin, seen
    <3> QED
      BY <2>1, <2>8, <3>3, <3>4 DEF TypeInv, WriteBegin, seen
  <2>9. ASSUME NEW t \in Threads, NEW n \in Naps, ~overflow, WritePause(t, n) PROVE TypeInv'
    <3> DEFINE c == call[t].command
    <3>1. c \in Commands /\ call[t].length \in 6 .. BUF_LEN /\ call[t].count \in Nat /\ BUF_LEN \in Nat
      BY <2>0, <2>9, CommandLengths, CommandsAssumption DEF WritePause, CallsInv, CallInv, CallType
    <3>2. n \in Nat /\ n < call[t].length
      <4>1. n \in Nat /\ n < Min({call[t].length, 25})
        BY <2>9, CommandsAssumption DEF WritePause, ShortestText
      <4>2. Min({call[t].length, 25}) \in {call[t].length, 25} /\ Min({call[t].length, 25}) <= call[t].length
        BY <3>1, ShorterOf
      <4> QED
        BY <3>1, <4>1, <4>2
    <3>3. disturbed' \subseteq Threads
      BY <2>0, <2>9 DEF WritePause, CallsInv, Overwritten
    <3>4. CallsInv'
      <4>1. n <= call[t].length
        BY <3>1, <3>2
      <4> QED
        BY <2>0, <2>9, <3>2, <3>3, <4>1, PauseIsTyped DEF WritePause
    <3>5. BufferInv'
      <4>1. Message' = Copied(c, call[t].count, n) /\ Message_Ptr' = Message_Ptr
        BY <2>9 DEF WritePause
      <4>2. n \in 0 .. BUF_LEN
        BY <3>1, <3>2
      <4> HIDE DEF c
      <4> QED
        BY <2>0, <2>9, <3>1, <4>1, <4>2, CopiedIsTyped
    <3> QED
      BY <2>1, <2>9, <3>4, <3>5 DEF TypeInv, WritePause, request, seen
  <2>10. ASSUME NEW t \in Threads, ~overflow, WriteEnd(t) PROVE TypeInv'
    <3> DEFINE c == call[t].command
    <3>1. c \in Commands /\ call[t].length \in 0 .. BUF_LEN /\ call[t].count \in Nat
      BY <2>0, <2>10, CommandLengths, CommandsAssumption DEF WriteEnd, CallsInv, CallInv, CallType
    <3>2. BufferInv'
      <4>1. Message' = Copied(c, call[t].count, call[t].length) /\ Message_Ptr' = 0
        BY <2>10 DEF WriteEnd
      <4> HIDE DEF c
      <4> QED
        BY <2>0, <2>10, <3>1, <4>1, CopiedIsTyped
    <3>3. CallsInv'
      <4>1. disturbed' \subseteq Threads
        BY <2>0, <2>10 DEF WriteEnd, CallsInv, Overwritten
      <4> QED
        BY <2>0, <2>10, <4>1, ReturnIsTyped DEF WriteEnd
    <3>4. BoardInv'
      BY <2>0, <2>10, ObeyIsTyped DEF WriteEnd
    <3>5. FlagsInv'
      BY <2>0, <2>10 DEF WriteEnd, FlagsInv, seen
    <3> QED
      BY <3>2, <3>3, <3>4, <3>5 DEF TypeInv
  <2>11. ASSUME NEW t \in Threads, NEW f \in Files, NEW length \in Lengths, ~overflow, ReadBegin(t, f, length)
         PROVE  TypeInv'
    <3>1. BUF_LEN \in Nat /\ length \in Nat /\ TextLength \in {25, 27}
      BY CommandsAssumption, TextLengths
    <3>2. CallsInv'
      <4>1. disturbed' \subseteq Threads
        BY <2>0, <2>11 DEF ReadBegin, CallsInv, Overwritten
      <4> QED
        BY <2>0, <2>11, <3>1, <4>1, BeginIsTyped DEF ReadBegin
    <3>3. Message_Ptr \in Nat
      BY <2>0, <2>11, <3>1 DEF BufferInv
    <3>4. ASSUME ~overflow' PROVE BufferInv'
      <4>1. Message_Ptr + TextLength + 1 <= BUF_LEN
        <5>1. overflow' = (Message_Ptr + TextLength + 1 > BUF_LEN)
          BY <2>11 DEF ReadBegin
        <5>2. ~(Message_Ptr + TextLength + 1 > BUF_LEN)
          BY <3>4, <5>1, Zenon
        <5> QED
          BY <3>1, <3>3, <5>2
      <4>2. Message' = WithText(Message_Ptr) /\ Message_Ptr' = Message_Ptr
        BY <2>11 DEF ReadBegin
      <4>3. Message'.length = Message_Ptr + TextLength
        BY <4>2 DEF WithText
      <4>4. Message'.tail \in [6 .. 7 -> 0 .. 9 \cup {NoDigit}]
        <5>1. \A i \in 6 .. 7 : TextDigit(i - Message_Ptr) \in 0 .. 9 \cup {NoDigit}
          BY <2>0, <3>3, TextDigits DEF BoardInv
        <5>2. Message.tail \in [6 .. 7 -> 0 .. 9 \cup {NoDigit}]
          BY <2>0, <2>11 DEF BufferInv
        <5> QED
          BY <4>2, <5>1, <5>2 DEF WithText
      <4> QED
        BY <3>1, <3>3, <4>1, <4>2, <4>3, <4>4 DEF BufferInv
    <3>5. FlagsInv'
      BY <2>0, <2>11 DEF ReadBegin, FlagsInv, request
    <3> QED
      BY <2>1, <2>11, <3>2, <3>4, <3>5 DEF TypeInv, ReadBegin
  <2>12. ASSUME NEW t \in Threads, NEW n \in Naps, ~overflow, ReadPause(t, n) PROVE TypeInv'
    <3>1. n \in Nat /\ call[t].count \in Nat /\ BUF_LEN \in Nat
      BY <2>0, CommandsAssumption DEF CallsInv, CallType
    <3>2. CallsInv'
      <4>1. disturbed' \subseteq Threads
        BY <2>0, <2>12 DEF ReadPause, CallsInv
      <4> QED
        BY <2>0, <2>12, <3>1, <4>1, PauseIsTyped DEF ReadPause
    <3>3. BufferInv'
      BY <2>0, <2>12, <3>1 DEF ReadPause, BufferInv
    <3> QED
      BY <2>1, <2>12, <3>2, <3>3 DEF TypeInv, ReadPause, request, seen
  <2>13. ASSUME NEW t \in Threads, ~overflow, ReadEnd(t) PROVE TypeInv'
    <3> DEFINE left == call[t].length - call[t].count
               rest == Message.length - Message_Ptr
    <3>1. BufferInv /\ BUF_LEN \in Nat
      BY <2>0, <2>13, CommandsAssumption
    <3>2. left \in Nat /\ rest \in Nat
      BY <2>0, <2>13, <3>1 DEF ReadEnd, CallsInv, CallInv, CallType, BufferInv
    <3>3. Min({left, rest}) \in 0 .. rest
      <4> HIDE DEF left, rest
      <4> QED
        BY <3>2, ShorterOf
    <3>4. BufferInv'
      <4>1. Message_Ptr' = Message_Ptr + Min({left, rest}) /\ Message' = Message
        BY <2>13 DEF ReadEnd
      <4> QED
        BY <3>1, <3>2, <3>3, <4>1 DEF BufferInv
    <3>5. CallsInv'
      <4>1. disturbed' \subseteq Threads
        BY <2>0, <2>13 DEF ReadEnd, CallsInv
      <4> QED
        BY <2>0, <2>13, <4>1, ReturnIsTyped DEF ReadEnd
    <3>6. FlagsInv'
      BY <2>0, <2>13 DEF ReadEnd, FlagsInv, request
    <3> QED
      BY <2>1, <2>13, <3>4, <3>5, <3>6 DEF TypeInv, ReadEnd
  <2>14. ASSUME NEW c \in LibCalls, LibDirectionInput(c) \/ LibDirectionOutput(c) \/ LibSetValue(c) PROVE TypeInv'
    <3> DEFINE w == LibWire(c.gpio)
    <3>1. /\ w \in Driven \/ w.port = "GPI"
          /\ w.port = "GPI" => c.op = "i"
          /\ w \in Driven /\ w.port # "GPO" => w \in Numbered
      BY LibWires
    <3> HIDE DEF w
    <3>2. /\ w \in Driven => OutBit(w) \in Bits
          /\ w \in Numbered => DirBit(w) \in Bits
      BY WireBits
    <3>3. BoardInv'
      <4>1. CASE LibDirectionInput(c)
        BY <2>0, <4>1 DEF BoardInv, LibDirectionInput, ClearBits
      <4>2. CASE LibDirectionOutput(c)
        BY <2>0, <3>1, <3>2, <4>2 DEF BoardInv, LibDirectionOutput, SetBits, w
      <4>3. CASE LibSetValue(c)
        BY <2>0, <3>1, <3>2, <4>3 DEF BoardInv, LibSetValue, SetBits, ClearBits, w
      <4> QED
        BY <2>14, <4>1, <4>2, <4>3
    <3>4. FlagsInv'
      BY <2>0, <2>14, CountIsTyped DEF FlagsInv, LibDirectionInput, LibDirectionOutput, LibSetValue, LibAsked, seen
    <3> QED
      BY <2>1, <2>14, <3>3, <3>4 DEF TypeInv, LibDirectionInput, LibDirectionOutput, LibSetValue, seen
  <2> QED
    BY <2>2, <2>3, <2>4, <2>5, <2>6, <2>7, <2>8, <2>9, <2>10, <2>11, <2>12, <2>13, <2>14, StepIsOneOf
<1> QED
  BY <1>1, <1>2, PTL DEF LibSpec

\* Message, Message_Ptr, the calls, the registers and the selected port keep
\* their types, whatever threads open, write and read, in whole or in part,
\* until a handler goes past the end of Message.
THEOREM TypeCorrect == LibSpec => []TypeOK
<1>1. TypeInv /\ HolderInv => TypeOK
  BY DEF TypeInv, BoardInv, CallsInv, FlagsInv, BufferInv, HolderInv, TypeOK
<1> QED
  BY <1>1, TypesAreKept, HoldersAreCounted, PTL

-----------------------------------------------------------------------------
(* Reading pins.                                                            *)

\* The port that read() shows is none or that of a pin the tables know.
SelectInv ==
  \/ selectedPort = defaultPort
  \/ \E w \in Wires : /\ PinOf(w) \in SupportedPins
                      /\ selectedPort = PortToRead(PinOf(w)[1], PinOf(w)[2])

\* The port r selects is that of a pin.
LEMMA SelectablePorts ==
  ASSUME NEW jumper, NEW pin, IsValid(findPort(jumper, pin))
  PROVE  PortToRead(jumper, pin).Jumper \in 1 .. 3
<1>1. PICK i \in 1 .. 23 : PinOf(RowWire[i]) = <<jumper, pin>>
  BY PortFound, SupportedPinsAreRows
<1>2. RowWire[i] \in Wires /\ PinOf(RowWire[i]) \in SupportedPins
  BY RowsAreWires, SupportedPinsAreRows
<1> QED
  BY <1>1, <1>2, PortToReadIsRight, PinIsPair

\* Only r changes the selection, to a pin that findPort knows.
LEMMA SelectionChanges ==
  ASSUME [LibNext]_vars, selectedPort' # selectedPort
  PROVE  \E jumper, pin : IsValid(findPort(jumper, pin)) /\ selectedPort' = PortToRead(jumper, pin)
<1>1. ASSUME NEW t \in Threads, WriteEnd(t)
      PROVE  \E jumper, pin : IsValid(findPort(jumper, pin)) /\ selectedPort' = PortToRead(jumper, pin)
  <2>1. PICK d : Obey(d.op, d.jumper, d.pin)
    BY <1>1 DEF WriteEnd
  <2>2. IsValid(findPort(d.jumper, d.pin)) /\ selectedPort' = PortToRead(d.jumper, d.pin)
    BY <2>1 DEF Obey, SelectPort
  <2> QED
    BY <2>2
<1> QED
  BY <1>1, StepIsOneOf
  DEF SignalChanges, SysfsStore, WriteOtherMinor, DeviceOpen, DeviceRelease, WriteBegin, WritePause,
      ReadBegin, ReadPause, ReadEnd, LibDirectionInput, LibDirectionOutput, LibSetValue, vars

\* So the selection is that of a pin.
LEMMA SelectionIsAPin == LibSpec => []SelectInv
<1>1. Init => SelectInv
  BY DEF Init, SelectInv
<1>2. SelectInv /\ [LibNext]_vars => SelectInv'
  <2> SUFFICES ASSUME SelectInv, [LibNext]_vars PROVE SelectInv'
    OBVIOUS
  <2>1. CASE selectedPort' = selectedPort
    BY <2>1 DEF SelectInv
  <2>2. CASE selectedPort' # selectedPort
    <3>1. PICK jumper, pin : IsValid(findPort(jumper, pin)) /\ selectedPort' = PortToRead(jumper, pin)
      BY <2>2, SelectionChanges
    <3>2. PICK i \in 1 .. 23 : PinOf(RowWire[i]) = <<jumper, pin>>
      BY <3>1, PortFound, SupportedPinsAreRows
    <3>3. RowWire[i] \in Wires /\ PinOf(RowWire[i]) \in SupportedPins
      BY RowsAreWires, SupportedPinsAreRows
    <3> QED
      BY <3>1, <3>2, <3>3 DEF SelectInv
  <2> QED
    BY <2>1, <2>2
<1> QED
  BY <1>1, <1>2, PTL DEF LibSpec

\* An input bit is 1 exactly when its own wire is high.
LEMMA InputBitFollowsWire ==
  ASSUME NEW w \in Wires
  PROVE  InBit(w) \in InputBits <=> IsHigh(w)
BY InBitsDiffer DEF InputBits

\* What a read shows, when a pin is selected.
LEMMA SelectedPinIsShown ==
  ASSUME NEW w \in Wires, PinOf(w) \in SupportedPins,
         selectedPort = PortToRead(PinOf(w)[1], PinOf(w)[2])
  PROVE  /\ ShownText.jumper = PinOf(w)[1] /\ ShownText.port = PinOf(w)[2]
         /\ ShownText.inputstate = IF IsHigh(w) THEN 0 ELSE 1
         /\ ShownText.isHigh <=> IsHigh(w)
         /\ ShownText.isInput <=> IsInput(w)
         /\ w.port # "P3" => ShownText.direction = IF IsInput(w) THEN 1 ELSE 0
<1>1. /\ selectedPort.Jumper = PinOf(w)[1] /\ selectedPort.PhysicalPin = PinOf(w)[2]
      /\ <<selectedPort.RegINP, selectedPort.Bit>> = InBit(w)
      /\ w.port # "P3" => <<selectedPort.RegDIR, selectedPort.Bit>> = DirBit(w)
  BY PortToReadIsRight
<1>2. IsValid(selectedPort)
  BY <1>1, InputBitIsOne DEF IsValid
<1>3. WireOf(<<selectedPort.Jumper, selectedPort.PhysicalPin>>) = w
  BY <1>1, PinIsPair, WireOfPin
<1> QED
  BY <1>1, <1>2, <1>3, InputBitFollowsWire DEF ShownText, IsInput

\* What a read shows before a pin is selected.
LEMMA NoPinIsShown ==
  ASSUME selectedPort = defaultPort, dir \subseteq Bits
  PROVE  /\ ShownText.inputstate = 1 /\ ~ShownText.isHigh
         /\ ShownText.direction = 1 /\ ShownText.isInput
<1>1. ~IsValid(selectedPort)
  BY DEF IsValid, defaultPort
<1>2. <<selectedPort.RegINP, selectedPort.Bit>> \notin InputBits
  <2>1. selectedPort.RegINP = "none"
    BY DEF defaultPort
  <2>2. \A w \in Wires : InBit(w)[1] # "none"
    BY InputBitIsOne
  <2> QED
    BY <2>1, <2>2 DEF InputBits
<1>3. <<selectedPort.RegDIR, selectedPort.Bit>> \notin dir
  BY DEF defaultPort, Bits, Banks
<1> QED
  BY <1>1, <1>2, <1>3 DEF ShownText

\* What was shown is changed by a read only.
LEMMA OnlyReadShows ==
  ASSUME [LibNext]_vars
  PROVE  shown' = shown \/ shown' = ShownText
BY StepIsOneOf
   DEF SignalChanges, SysfsStore, WriteOtherMinor, DeviceOpen, DeviceRelease, WriteBegin, WritePause,
       WriteEnd, ReadBegin, ReadPause, ReadEnd, LibDirectionInput, LibDirectionOutput, LibSetValue,
       vars, seen

\* The Input that sprintf shows is 0 when the pin it names is high and 1 when it
\* is low, for every pin, also when other drivers use the same registers and
\* threads overlap.
THEOREM InputIsInvertedLevel == LibSpec => []ShowsInvertedInput
<1>1. Init => ShowsInvertedInput
  BY DEF Init, Unshown, ShowsInvertedInput
<1>2. TypeInv /\ SelectInv /\ ShowsInvertedInput /\ [LibNext]_vars => ShowsInvertedInput'
  <2> SUFFICES ASSUME TypeInv, SelectInv, ShowsInvertedInput, [LibNext]_vars PROVE ShowsInvertedInput'
    OBVIOUS
  <2>1. ShownText.inputstate = IF ShownText.isHigh THEN 0 ELSE 1
    BY SelectedPinIsShown, NoPinIsShown DEF SelectInv, TypeInv, BoardInv
  <2>2. CASE shown' = ShownText
    BY <2>1, <2>2 DEF ShowsInvertedInput
  <2>3. CASE shown' = shown
    BY <2>3 DEF ShowsInvertedInput
  <2> QED
    BY <2>2, <2>3, OnlyReadShows
<1> QED
  BY <1>1, <1>2, TypesAreKept, SelectionIsAPin, PTL DEF LibSpec

\* The Direction that sprintf shows is wrong for no pins but the four of P3.
THEOREM DirectionIsWrongOnP3Only == LibSpec => []DirectionOffP3
<1>1. Init => DirectionOffP3
  BY DEF Init, Unshown, ShowsDirection, DirectionOffP3
<1>2. TypeInv /\ SelectInv /\ DirectionOffP3 /\ [LibNext]_vars => DirectionOffP3'
  <2> SUFFICES ASSUME TypeInv, SelectInv, DirectionOffP3, [LibNext]_vars PROVE DirectionOffP3'
    OBVIOUS
  <2>1. \/ ShownText.direction = IF ShownText.isInput THEN 1 ELSE 0
        \/ <<ShownText.jumper, ShownText.port>> \in ReadSpecially
    <3>1. CASE selectedPort = defaultPort
      BY <3>1, NoPinIsShown DEF TypeInv, BoardInv
    <3>2. ASSUME NEW w \in Wires, PinOf(w) \in SupportedPins,
                 selectedPort = PortToRead(PinOf(w)[1], PinOf(w)[2])
          PROVE  \/ ShownText.direction = IF ShownText.isInput THEN 1 ELSE 0
                 \/ <<ShownText.jumper, ShownText.port>> \in ReadSpecially
      BY <3>2, SelectedPinIsShown, P3IsReadSpecially, PinIsPair
    <3> QED
      BY <3>1, <3>2 DEF SelectInv
  <2>2. CASE shown' = ShownText
    BY <2>1, <2>2 DEF DirectionOffP3, ShowsDirection
  <2>3. CASE shown' = shown
    BY <2>3 DEF DirectionOffP3, ShowsDirection
  <2> QED
    BY <2>2, <2>3, OnlyReadShows
<1> QED
  BY <1>1, <1>2, TypesAreKept, SelectionIsAPin, PTL DEF LibSpec

\* Once r has selected a port, no step leaves read() without the registers of
\* one: commands that are refused and files that are closed keep it.
THEOREM SelectionIsKept == LibSpec => SelectionStays
<1>1. SelectInv' /\ [LibNext]_vars => [IsValid(selectedPort) => IsValid(selectedPort)']_selectedPort
  <2> SUFFICES ASSUME SelectInv', [LibNext]_vars, selectedPort' # selectedPort PROVE IsValid(selectedPort)'
    OBVIOUS
  <2>1. ASSUME selectedPort' = defaultPort PROVE FALSE
    <3>1. PICK jumper, pin : IsValid(findPort(jumper, pin)) /\ selectedPort' = PortToRead(jumper, pin)
      BY SelectionChanges
    <3>2. PortToRead(jumper, pin).Jumper \in 1 .. 3
      BY <3>1, SelectablePorts
    <3> QED
      BY <2>1, <3>1, <3>2 DEF defaultPort
  <2>2. ASSUME NEW w \in Wires, PinOf(w) \in SupportedPins,
               selectedPort' = PortToRead(PinOf(w)[1], PinOf(w)[2])
        PROVE  IsValid(selectedPort')
    BY <2>2, PortToReadIsRight, InputBitIsOne DEF IsValid
  <2> QED
    BY <2>1, <2>2 DEF SelectInv
<1> QED
  BY <1>1, SelectionIsAPin, PTL DEF LibSpec, SelectionStays

-----------------------------------------------------------------------------
(* The registers as the pins of GpioPins.                                   *)

\* What a write that nobody disturbed has in bytes 6 and 7, as far as it got.
CopyInv ==
  \A t \in Threads : pc[t] = "copy" /\ t \notin disturbed =>
    \A i \in 6 .. 7 : i < call[t].count => Message.tail[i] = CommandDigit(call[t].command, i)

\* A step that writes to Message disturbs every write with bytes in it.
LEMMA CopiesStay ==
  ASSUME NEW t \in Threads, TypeInv, CopyInv,
         disturbed' \in {disturbed \cup Overwritten(t), (disturbed \cup Overwritten(t)) \ {t}},
         \A u \in Threads \ {t} : pc'[u] = pc[u] /\ call'[u] = call[u],
         pc'[t] = "copy" /\ t \notin disturbed' =>
           \A i \in 6 .. 7 : i < call'[t].count => Message'.tail[i] = CommandDigit(call'[t].command, i)
  PROVE  CopyInv'
<1> SUFFICES ASSUME NEW u \in Threads, u # t, pc'[u] = "copy", u \notin disturbed',
                    NEW i \in 6 .. 7, i < call'[u].count
             PROVE  FALSE
  BY DEF CopyInv
<1>1. pc[u] = "copy" /\ u \notin Overwritten(t) /\ i < call[u].count
  OBVIOUS
<1>2. call[u].count \in Nat
  BY DEF TypeInv, CallsInv, CallType
<1>3. ~(call[u].count > 0)
  BY <1>1 DEF Overwritten
<1> QED
  BY <1>1, <1>2, <1>3

\* Bytes of its command are where they belong, unless another call disturbs it.
LEMMA CommandsStay == LibSpec => []CopyInv
<1>1. Init => CopyInv
  BY DEF Init, CopyInv
<1>2. TypeInv /\ CopyInv /\ [LibNext]_vars => CopyInv'
  <2> SUFFICES ASSUME TypeInv, CopyInv, [LibNext]_vars PROVE CopyInv'
    OBVIOUS
  <2>0. pc \in [Threads -> {"idle", "copy", "put"}] /\ call \in [Threads -> CallType]
    BY DEF TypeInv, CallsInv
  <2>1. ASSUME UNCHANGED <<Message, calls>> PROVE CopyInv'
    BY <2>1 DEF CopyInv, calls
  <2>2. ASSUME NEW t \in Threads, NEW where, NEW f, NEW c, NEW length, Begin(t, where, f, c, length),
               UNCHANGED <<Message, disturbed>>
        PROVE  CopyInv'
    BY <2>0, <2>2 DEF Begin, CopyInv
  <2>3. ASSUME NEW t \in Threads, NEW n \in Naps, WritePause(t, n) PROVE CopyInv'
    <3> DEFINE c == call[t].command
    <3>1. call[t].count \in Nat /\ n \in Nat
      BY <2>0, CommandsAssumption DEF CallType
    <3>2. /\ Message' = Copied(c, call[t].count, n)
          /\ call' = [call EXCEPT ![t].count = n]
          /\ UNCHANGED pc /\ pc[t] = "copy" /\ disturbed' = disturbed \cup Overwritten(t)
      BY <2>3 DEF WritePause
    <3>3. /\ \A u \in Threads \ {t} : call'[u] = call[u]
          /\ call'[t].count = n /\ call'[t].command = c
      BY <2>0, <3>2 DEF CallType
    <3>4. ASSUME t \notin disturbed', NEW i \in 6 .. 7, i < n
          PROVE  Message'.tail[i] = CommandDigit(c, i)
      <4>1. Message'.tail[i] = IF i \in call[t].count .. n - 1 THEN CommandDigit(c, i) ELSE Message.tail[i]
        BY <3>2 DEF Copied
      <4>2. CASE i < call[t].count
        BY <3>1, <3>2, <3>4, <4>1, <4>2 DEF CopyInv
      <4>3. CASE ~(i < call[t].count)
        BY <3>1, <3>4, <4>1, <4>3
      <4> QED
        BY <4>2, <4>3
    <3> HIDE DEF c
    <3> QED
      BY <3>2, <3>3, <3>4, CopiesStay
  <2>4. ASSUME NEW t \in Threads, WriteEnd(t) PROVE CopyInv'
    <3>1. /\ pc' = [pc EXCEPT ![t] = "idle"] /\ call' = [call EXCEPT ![t] = NoCall]
          /\ disturbed' = (disturbed \cup Overwritten(t)) \ {t}
      BY <2>4 DEF WriteEnd, Return
    <3> QED
      BY <2>0, <3>1, CopiesStay
  <2>5. ASSUME NEW t \in Threads, NEW f \in Files, NEW length \in Lengths, ReadBegin(t, f, length) PROVE CopyInv'
    <3>1. /\ pc' = [pc EXCEPT ![t] = "put"] /\ disturbed' = disturbed \cup Overwritten(t)
          /\ \A u \in Threads \ {t} : call'[u] = call[u]
      BY <2>0, <2>5 DEF ReadBegin, Begin
    <3> QED
      BY <2>0, <3>1, CopiesStay
  <2>6. ASSUME NEW t \in Threads, NEW n \in Naps, ReadPause(t, n) PROVE CopyInv'
    <3>1. /\ pc[t] = "put" /\ UNCHANGED <<pc, Message, disturbed>>
          /\ \A u \in Threads \ {t} : call'[u] = call[u]
      BY <2>0, <2>6 DEF ReadPause
    <3> QED
      BY <3>1 DEF CopyInv
  <2>7. ASSUME NEW t \in Threads, ReadEnd(t) PROVE CopyInv'
    <3>1. /\ pc' = [pc EXCEPT ![t] = "idle"] /\ UNCHANGED Message /\ disturbed' = disturbed \ {t}
          /\ \A u \in Threads \ {t} : call'[u] = call[u]
      BY <2>0, <2>7 DEF ReadEnd, Return
    <3> QED
      BY <2>0, <3>1 DEF CopyInv
  <2>8. ASSUME NEW t \in Threads, NEW f \in Files, NEW c \in Commands, WriteBegin(t, f, c) PROVE CopyInv'
    BY <2>2, <2>8 DEF WriteBegin, buffer
  <2>9. ASSUME NEW f \in Files, NEW minor \in {0, 1}, DeviceOpen(f, minor) PROVE CopyInv'
    BY <2>1, <2>9 DEF DeviceOpen
  <2>10. ASSUME NEW f \in Files, DeviceRelease(f) PROVE CopyInv'
    BY <2>1, <2>10 DEF DeviceRelease, buffer
  <2>11. ASSUME NEW c \in Commands, SysfsStore(c) PROVE CopyInv'
    BY <2>1, <2>11 DEF SysfsStore, buffer
  <2>12. ASSUME NEW f \in Files, NEW c \in Commands, WriteOtherMinor(f, c) PROVE CopyInv'
    BY <2>1, <2>12 DEF WriteOtherMinor, buffer
  <2>13. CASE SignalChanges
    BY <2>1, <2>13 DEF SignalChanges, buffer
  <2>14. CASE UNCHANGED vars
    BY <2>1, <2>14 DEF vars, buffer
  <2>15. ASSUME NEW c \in LibCalls, LibDirectionInput(c) \/ LibDirectionOutput(c) \/ LibSetValue(c) PROVE CopyInv'
    BY <2>1, <2>15 DEF LibDirectionInput, LibDirectionOutput, LibSetValue, buffer
  <2> QED
    BY <2>3, <2>4, <2>5, <2>6, <2>7, <2>8, <2>9, <2>10, <2>11, <2>12, <2>13, <2>14, <2>15, StepIsOneOf
<1> QED
  BY <1>1, <1>2, TypesAreKept, PTL DEF LibSpec

\* Writing the direction bit of a wire changes the direction of its pin and of
\* no other; of none when the wire is at no pin.
LEMMA DirectionOfOnePin ==
  ASSUME NEW w \in Numbered
  PROVE  /\ dir' = SetBits(dir, DirBit(w)) =>
              OutputPins' = IF w \in Wires THEN OutputPins \cup {PinOf(w)} ELSE OutputPins
         /\ dir' = ClearBits(dir, DirBit(w)) =>
              OutputPins' = IF w \in Wires THEN OutputPins \ {PinOf(w)} ELSE OutputPins
<1>1. \A v \in Wires : DirBit(v) = DirBit(w) <=> v = w
  BY WiresAreNumbered, DirBitsDiffer
<1>2. ASSUME dir' = SetBits(dir, DirBit(w))
      PROVE  OutputPins' = IF w \in Wires THEN OutputPins \cup {PinOf(w)} ELSE OutputPins
  BY <1>1, <1>2 DEF OutputPins, SetBits
<1>3. ASSUME dir' = ClearBits(dir, DirBit(w))
      PROVE  OutputPins' = IF w \in Wires THEN OutputPins \ {PinOf(w)} ELSE OutputPins
  BY <1>1, <1>3, PinsDiffer DEF OutputPins, ClearBits
<1> QED
  BY <1>2, <1>3

\* Writing the output bit of a wire changes the output of its pin and of no
\* other; of none when the wire is at no pin.
LEMMA OutputOfOnePin ==
  ASSUME NEW w \in Driven
  PROVE  /\ outp' = SetBits(outp, OutBit(w)) =>
              HighPins' = IF w \in Wires THEN HighPins \cup {PinOf(w)} ELSE HighPins
         /\ outp' = ClearBits(outp, OutBit(w)) =>
              HighPins' = IF w \in Wires THEN HighPins \ {PinOf(w)} ELSE HighPins
<1>1. \A v \in Wires : OutBit(v) = OutBit(w) <=> v = w
  BY WiresAreNumbered, OutBitsDiffer DEF Driven
<1>2. ASSUME outp' = SetBits(outp, OutBit(w))
      PROVE  HighPins' = IF w \in Wires THEN HighPins \cup {PinOf(w)} ELSE HighPins
  BY <1>1, <1>2 DEF HighPins, SetBits
<1>3. ASSUME outp' = ClearBits(outp, OutBit(w))
      PROVE  HighPins' = IF w \in Wires THEN HighPins \ {PinOf(w)} ELSE HighPins
  BY <1>1, <1>3, PinsDiffer DEF HighPins, ClearBits
<1> QED
  BY <1>2, <1>3

\* Registers that stay leave the pins as they are.
LEMMA PinsStay ==
  /\ UNCHANGED dir => UNCHANGED OutputPins
  /\ UNCHANGED outp => UNCHANGED HighPins
BY DEF OutputPins, HighPins

\* What users and other drivers ask for.
LEMMA RequestsAreMade ==
  /\ \A f \in {"sysfs", "devfs", "other"}, c \in Commands :
       Request(f, c.op, <<c.jumper, c.pin>>, c.rest # "nothing") \in Requests
  /\ \A c \in LibCalls : LibWire(c.gpio) \in Wires =>
       Request("gpiolib", c.op, PinOf(LibWire(c.gpio)), TRUE) \in Requests
<1> DEFINE Asks(f, c) == Request(f, c.op, <<c.jumper, c.pin>>, c.rest # "nothing")
           Call(c) == Request("gpiolib", c.op, PinOf(LibWire(c.gpio)), TRUE)
           OnPins == {c \in LibCalls : LibWire(c.gpio) \in Wires}
<1>1. Requests = {Asks(f, c) : f \in {"sysfs", "devfs", "other"}, c \in Commands}
                 \cup {Call(c) : c \in OnPins}
  BY DEF Requests
<1> HIDE DEF Asks, Call
<1>2. /\ \A f \in {"sysfs", "devfs", "other"}, c \in Commands : Asks(f, c) \in Requests
      /\ \A c \in OnPins : Call(c) \in Requests
  BY <1>1
<1> QED
  BY <1>2 DEF Asks, Call

\* The pins each file knows.
LEMMA PinsByFile ==
  /\ PinsOf["sysfs"] = SupportedPins /\ PinsOf["devfs"] = SupportedPins
  /\ PinsOf["gpiolib"] = HeaderPins
BY DEF PinsOf

\* i and o on gpiofs change the direction of the pin they name.
LEMMA SysfsStoreIsRequest ==
  ASSUME NEW c \in Commands, SysfsStore(c)
  PROVE  Supported!Next
<1> DEFINE port == findPort(c.jumper, c.pin)
           pin == <<c.jumper, c.pin>>
           r == Request("sysfs", c.op, pin, c.rest # "nothing")
<1>1. r \in Requests
  BY RequestsAreMade
<1>2. command' = r /\ UNCHANGED <<outp, selectedPort>> /\ UNCHANGED <<pc, disturbed>>
  BY DEF SysfsStore, Asked, Request, calls
<1>3. UNCHANGED <<HighPins, Selected, Inside, disturbed>>
  BY <1>2, PinsStay DEF Selected, Inside
<1>4. IF pin \in SupportedPins THEN IsPortOf(port, pin) ELSE ~IsValid(port)
  BY PortFound
<1>5. r.file = "sysfs" /\ r.op = c.op /\ r.pin = pin
  BY DEF Request
<1>6. CASE IsValid(port) /\ c.op \in {"i", "o"}
  <2>1. pin \in SupportedPins
    BY <1>4, <1>6
  <2>2. PICK w \in Wires : PinOf(w) = pin /\ <<port.RegDIR, port.Bit>> = DirBit(w)
    BY <1>4, <2>1 DEF IsPortOf
  <2>3. w \in Numbered
    BY WiresAreNumbered
  <2>4. /\ c.op = "o" => dir' = SetBits(dir, DirBit(w))
        /\ c.op = "i" => dir' = ClearBits(dir, DirBit(w))
        /\ answer' = "done"
    BY <1>6, <2>2 DEF SysfsStore
  <2>5. /\ c.op = "o" => OutputPins' = OutputPins \cup {pin}
        /\ c.op = "i" => OutputPins' = OutputPins \ {pin}
    BY <2>2, <2>3, <2>4, DirectionOfOnePin
  <2> HIDE DEF pin, port, r
  <2>6. Supported!Do(r)
    BY <1>2, <1>3, <1>5, <1>6, <2>1, <2>4, <2>5, PinsByFile DEF Supported!Do, Supported!Known
  <2> QED
    BY <1>1, <1>3, <1>5, <2>6 DEF Supported!Next, Supported!Ask
<1>7. CASE ~(IsValid(port) /\ c.op \in {"i", "o"})
  <2>1. answer' = "refused" /\ UNCHANGED dir
    BY <1>7 DEF SysfsStore
  <2>2. ~(c.op \in {"i", "o"} /\ pin \in SupportedPins)
    BY <1>4, <1>7 DEF IsPortOf
  <2>3. UNCHANGED OutputPins
    BY <2>1, PinsStay
  <2> HIDE DEF pin, port, r
  <2>4. Supported!Refuse(r)
    BY <1>2, <1>3, <1>5, <2>1, <2>2, <2>3, PinsByFile DEF Supported!Refuse, Supported!Known
  <2> QED
    BY <1>1, <1>3, <1>5, <2>4 DEF Supported!Next, Supported!Ask
<1> QED
  BY <1>6, <1>7

\* What sscanf found has its effect on the pin that it names, and on no other.
LEMMA ObeyIsRequest ==
  ASSUME NEW op, NEW jumper, NEW pin, NEW r, Obey(op, jumper, pin), UNCHANGED dir,
         command' = r, r.file = "devfs", r.op = op, r.pin = <<jumper, pin>>
  PROVE  Supported!Do(r) \/ Supported!Refuse(r)
<1> DEFINE port == findPort(jumper, pin)
           where == <<jumper, pin>>
<1>1. IF where \in SupportedPins THEN IsPortOf(port, where) ELSE ~IsValid(port)
  BY PortFound
<1>2. \/ /\ IsValid(port) /\ op = "r"
         /\ SelectPort(jumper, pin) /\ answer' = "done" /\ UNCHANGED outp
      \/ /\ IsValid(port) /\ op = "h"
         /\ outp' = SetBits(outp, <<port.RegOUT, port.Bit>>)
         /\ answer' = "done" /\ UNCHANGED selectedPort
      \/ /\ IsValid(port) /\ op = "l"
         /\ outp' = ClearBits(outp, <<port.RegOUT, port.Bit>>)
         /\ answer' = "done" /\ UNCHANGED selectedPort
      \/ /\ ~IsValid(port) \/ op \notin {"r", "h", "l"}
         /\ answer' = "refused" /\ UNCHANGED <<outp, selectedPort>>
  BY DEF Obey
<1>3. UNCHANGED OutputPins
  BY PinsStay
<1>4. IsValid(port) => /\ where \in SupportedPins
                       /\ \E w \in Wires : PinOf(w) = where /\ <<port.RegOUT, port.Bit>> = OutBit(w)
  BY <1>1 DEF IsPortOf
<1> HIDE DEF port
<1>5. CASE IsValid(port) /\ op = "r"
  <2>1. PICK w \in Wires : PinOf(w) = where
    BY <1>4, <1>5
  <2>2. selectedPort'.Jumper = jumper /\ selectedPort'.PhysicalPin = pin
    BY <1>2, <1>4, <1>5, <2>1, PortToReadIsRight DEF SelectPort
  <2>3. answer' = "done" /\ UNCHANGED HighPins
    BY <1>2, <1>5, PinsStay
  <2>4. Selected' = where
    BY <2>2 DEF Selected
  <2> HIDE DEF where
  <2>5. Supported!Do(r)
    BY <1>3, <1>4, <1>5, <2>3, <2>4, PinsByFile DEF Supported!Do, Supported!Known, where
  <2> QED
    BY <2>5
<1>6. CASE IsValid(port) /\ op \in {"h", "l"}
  <2>1. PICK w \in Wires : PinOf(w) = where /\ <<port.RegOUT, port.Bit>> = OutBit(w)
    BY <1>4, <1>6
  <2>2. w \in Driven
    BY WiresAreNumbered DEF Driven
  <2>3. /\ op = "h" => outp' = SetBits(outp, OutBit(w))
        /\ op = "l" => outp' = ClearBits(outp, OutBit(w))
        /\ answer' = "done" /\ UNCHANGED Selected
    BY <1>2, <1>6, <2>1 DEF Selected
  <2>4. /\ op = "h" => HighPins' = HighPins \cup {where}
        /\ op = "l" => HighPins' = HighPins \ {where}
    BY <2>1, <2>2, <2>3, OutputOfOnePin
  <2>5. r.pin = where
    OBVIOUS
  <2> HIDE DEF where
  <2>6. Supported!Do(r)
    BY <1>3, <1>4, <1>6, <2>3, <2>4, <2>5, PinsByFile DEF Supported!Do, Supported!Known
  <2> QED
    BY <2>6
<1>7. CASE ~(IsValid(port) /\ op \in {"r", "h", "l"})
  <2>1. answer' = "refused" /\ UNCHANGED HighPins /\ UNCHANGED Selected
    BY <1>2, <1>7, PinsStay DEF Selected
  <2>2. ~(op \in {"r", "h", "l"} /\ r.pin \in SupportedPins)
    BY <1>1, <1>7 DEF IsPortOf
  <2> HIDE DEF where
  <2>3. Supported!Refuse(r)
    BY <1>3, <2>1, <2>2, PinsByFile DEF Supported!Refuse, Supported!Known
  <2> QED
    BY <2>3
<1> QED
  BY <1>5, <1>6, <1>7

\* A write that nobody disturbed is taken for its own command, or for one with
\* more digits when it has no end.
LEMMA ScannedIsTaken ==
  ASSUME NEW t \in Threads, TypeInv, CopyInv, pc[t] = "copy", ~overflow,
         Message' = Copied(call[t].command, call[t].count, call[t].length), BufferInv',
         NEW d \in Scanned(t, Message'.tail)
  PROVE  LET c == call[t].command
             ended == c.rest # "nothing"
         IN  Request("devfs", d.op, <<d.jumper, d.pin>>, ended) \in
               Supported!Taken(t, Request("devfs", c.op, <<c.jumper, c.pin>>, ended))
<1> DEFINE c == call[t].command
           ended == c.rest # "nothing"
           r == Request("devfs", c.op, <<c.jumper, c.pin>>, ended)
           taken == Request("devfs", d.op, <<d.jumper, d.pin>>, ended)
           tail == Message'.tail
<1>1. c \in Commands /\ c.pin \in 0 .. 99 /\ call[t].length = CommandLength(c) /\ call[t].count \in Nat
  BY CommandsAssumption DEF TypeInv, CallsInv, CallInv, CallType
<1>2. CASE t \in disturbed
  <2>1. d \in Mixtures
    BY <1>2 DEF Scanned
  <2>2. d.op \in {"r", "h", "l", "none"} /\ <<d.jumper, d.pin>> \in SupportedPins \cup {NoPin}
    BY <2>1, CommandsAssumption
  <2> HIDE DEF c, ended
  <2>3. /\ taken \in [file : {r.file}, op : {"r", "h", "l", "none"},
                      pin : SupportedPins \cup {NoPin}, ended : {r.ended}]
        /\ r.file = "devfs"
    BY <2>2 DEF Request
  <2> HIDE DEF taken, r
  <2>4. taken \in Supported!Taken(t, r)
    BY <1>2, <2>3, PinsByFile DEF Supported!Taken
  <2> QED
    BY <2>4 DEF taken, r, c, ended
<1>3. CASE t \notin disturbed
  <2>1. d = [op |-> c.op, jumper |-> c.jumper, pin |-> ScannedPin(c, tail)]
    BY <1>3 DEF Scanned
  <2>2. taken = Request("devfs", c.op, <<c.jumper, ScannedPin(c, tail)>>, ended)
    BY <2>1
  <2>3. CASE ended
    <3>1. call[t].length \in Nat /\ (c.pin <= 9 => call[t].length >= 7) /\ (c.pin > 9 => call[t].length >= 8)
      BY <1>1, <2>3, CommandLengths, CommandsAssumption
    <3>2. ASSUME NEW i \in 6 .. 7, i < call[t].length PROVE tail[i] = CommandDigit(c, i)
      <4>1. tail[i] = IF i \in call[t].count .. call[t].length - 1 THEN CommandDigit(c, i) ELSE Message.tail[i]
        BY DEF Copied
      <4>2. CASE i < call[t].count
        BY <1>1, <1>3, <4>1, <4>2 DEF CopyInv
      <4>3. CASE ~(i < call[t].count)
        BY <1>1, <3>1, <3>2, <4>1, <4>3
      <4> QED
        BY <4>2, <4>3
    <3>3. ScannedPin(c, tail) = c.pin
      <4> HIDE DEF tail, c
      <4>1. CASE c.pin > 9
        <5>1. tail[7] = NoDigit
          BY <3>1, <3>2, <4>1 DEF CommandDigit
        <5> QED
          BY <4>1, <5>1 DEF ScannedPin, Extended
      <4>2. CASE c.pin <= 9
        <5>1. tail[6] = NoDigit
          BY <1>1, <3>1, <3>2, <4>2 DEF CommandDigit
        <5> QED
          BY <1>1, <4>2, <5>1 DEF ScannedPin
      <4> QED
        BY <1>1, <4>1, <4>2
    <3>4. taken = r
      BY <2>2, <3>3
    <3>5. r.ended
      BY <2>3 DEF Request
    <3> HIDE DEF taken, r
    <3>6. taken \in Supported!Taken(t, r)
      BY <1>3, <3>4, <3>5 DEF Supported!Taken
    <3> QED
      BY <3>6 DEF taken, r, c, ended
  <2>4. CASE ~ended
    <3>1. tail[6] \in 0 .. 9 \cup {NoDigit} /\ tail[7] \in 0 .. 9 \cup {NoDigit}
      BY DEF BufferInv
    <3>2. ScannedPin(c, tail) \in Supported!Longer(c.pin)
      <4> HIDE DEF tail, c
      <4>1. CASE c.pin > 9
        BY <1>1, <3>1, <4>1 DEF ScannedPin, Extended, NoDigit, Supported!Longer
      <4>2. CASE c.pin <= 9 /\ tail[6] = NoDigit
        BY <1>1, <4>2 DEF ScannedPin, Supported!Longer
      <4>3. CASE c.pin <= 9 /\ tail[6] # NoDigit /\ tail[7] = NoDigit
        BY <1>1, <3>1, <4>3 DEF ScannedPin, Extended, Supported!Longer
      <4>4. CASE c.pin <= 9 /\ tail[6] \in 0 .. 9 /\ tail[7] \in 0 .. 9
        <5>1. ScannedPin(c, tail) = 10 * (10 * c.pin + tail[6]) + tail[7]
          BY <1>1, <4>4 DEF ScannedPin, Extended, NoDigit
        <5> QED
          BY <1>1, <4>4, <5>1 DEF Supported!Longer
      <4> QED
        BY <1>1, <3>1, <4>1, <4>2, <4>3, <4>4
    <3> DEFINE n == ScannedPin(c, tail)
    <3>3. taken = [r EXCEPT !.pin = <<r.pin[1], n>>] /\ r.pin[2] = c.pin /\ ~r.ended
      <4>1. r.pin = <<c.jumper, c.pin>> /\ ~r.ended
        BY <2>4 DEF Request
      <4>2. r.pin[1] = c.jumper /\ r.pin[2] = c.pin
        BY <4>1
      <4>3. taken = Request("devfs", c.op, <<c.jumper, n>>, ended)
        BY <2>2
      <4>4. [r EXCEPT !.pin = <<c.jumper, n>>] = Request("devfs", c.op, <<c.jumper, n>>, ended)
        <5> HIDE DEF n, ended, c
        <5> QED
          BY DEF Request
      <4> HIDE DEF taken, r, n
      <4> QED
        BY <4>1, <4>2, <4>3, <4>4
    <3> HIDE DEF taken, r, n, c
    <3>4. taken \in Supported!Taken(t, r)
      BY <1>3, <3>2, <3>3 DEF Supported!Taken, n
    <3> QED
      BY <3>4 DEF taken, r, c, ended
  <2> QED
    BY <2>3, <2>4
<1> QED
  BY <1>2, <1>3

\* A write ends as the request its bytes were taken for.
LEMMA WriteEndIsRequest ==
  ASSUME NEW t \in Threads, TypeInv, CopyInv, ~overflow, WriteEnd(t), TypeInv'
  PROVE  Supported!Next
<1> DEFINE c == call[t].command
           r == Request("devfs", c.op, <<c.jumper, c.pin>>, c.rest # "nothing")
<1>1. c \in Commands
  BY DEF WriteEnd, TypeInv, CallsInv, CallInv
<1>2. r \in Requests
  BY <1>1, RequestsAreMade
<1>3. PICK d \in Scanned(t, Message'.tail) :
        /\ Asked("devfs", d.op, d.jumper, d.pin, c.rest) /\ Obey(d.op, d.jumper, d.pin)
  BY DEF WriteEnd
<1> DEFINE taken == Request("devfs", d.op, <<d.jumper, d.pin>>, c.rest # "nothing")
<1>4. BufferInv'
  BY DEF WriteEnd, TypeInv, seen
<1>5. taken \in Supported!Taken(t, r)
  BY <1>4, ScannedIsTaken DEF WriteEnd
<1>6. Supported!Do(taken) \/ Supported!Refuse(taken)
  <2>1. command' = taken /\ UNCHANGED dir
    BY <1>3 DEF Asked, Request, WriteEnd
  <2>2. taken.file = "devfs" /\ taken.op = d.op /\ taken.pin = <<d.jumper, d.pin>>
    BY DEF Request
  <2> HIDE DEF taken
  <2> QED
    BY <1>3, <2>1, <2>2, ObeyIsRequest
<1>7. t \in Inside /\ Inside' = Inside \ {t}
  BY DEF WriteEnd, Return, Inside, TypeInv, CallsInv
<1>8. disturbed' = (disturbed \cup Overwritten(t)) \ {t} /\ Overwritten(t) \subseteq Inside \ {t}
  BY DEF WriteEnd, Overwritten, Inside
<1>9. r.file = "devfs"
  BY DEF Request
<1> HIDE DEF r, taken
<1>10. Supported!Write(t, r)
  BY <1>5, <1>6, <1>7, <1>8, <1>9 DEF Supported!Write, Supported!Disturbed
<1> QED
  BY <1>2, <1>10 DEF Supported!Next

\* A write to a file of another minor number is refused.
LEMMA OtherMinorIsRequest ==
  ASSUME NEW f \in Files, NEW c \in Commands, WriteOtherMinor(f, c)
  PROVE  Supported!Next
<1> DEFINE r == Request("other", c.op, <<c.jumper, c.pin>>, c.rest # "nothing")
<1>1. r \in Requests
  BY RequestsAreMade
<1>2. command' = r /\ answer' = "refused" /\ UNCHANGED <<dir, outp, selectedPort, pc, disturbed>>
  BY DEF WriteOtherMinor, Asked, Request, board, registers, calls
<1>3. UNCHANGED <<OutputPins, HighPins, Selected, Inside, disturbed>>
  BY <1>2, PinsStay DEF Selected, Inside
<1>4. r.file = "other"
  BY DEF Request
<1> HIDE DEF r
<1>5. Supported!Refuse(r)
  BY <1>2, <1>3, <1>4 DEF Supported!Refuse, Supported!Known
<1> QED
  BY <1>1, <1>3, <1>4, <1>5 DEF Supported!Next, Supported!Ask

\* A call of another driver changes the pin its number stands for, and no pin
\* when the number is that of a wire without one.
LEMMA LibCallIsRequest ==
  ASSUME NEW c \in LibCalls, LibDirectionInput(c) \/ LibDirectionOutput(c) \/ LibSetValue(c)
  PROVE  Supported!Next \/ UNCHANGED Supported!vars
<1> DEFINE w == LibWire(c.gpio)
           r == Request("gpiolib", c.op, PinOf(w), TRUE)
<1>1. /\ w \in Driven \/ w.port = "GPI"
      /\ w.port = "GPI" => c.op = "i" /\ w \notin Wires
      /\ w.port = "GPO" => c.op # "i" /\ w \notin Wires
      /\ w \in Driven /\ w.port # "GPO" => w \in Numbered
  BY LibWires
<1>2. w \in Wires => r \in Requests /\ PinOf(w) \in HeaderPins
  BY RequestsAreMade, HeaderPinsAreWires
<1>3. /\ c.op \in {"i", "o", "h", "l"} /\ UNCHANGED <<Selected, Inside, disturbed>>
      /\ LibAsked(c.op, w)
      /\ c.op = "i" => dir' = (IF w.port = "GPI" THEN dir ELSE ClearBits(dir, DirBit(w))) /\ UNCHANGED outp
      /\ c.op = "o" => dir' = (IF w.port = "GPO" THEN dir ELSE SetBits(dir, DirBit(w))) /\ UNCHANGED outp
      /\ c.op = "h" => outp' = SetBits(outp, OutBit(w)) /\ UNCHANGED dir
      /\ c.op = "l" => outp' = ClearBits(outp, OutBit(w)) /\ UNCHANGED dir
  BY DEF LibDirectionInput, LibDirectionOutput, LibSetValue, Selected, Inside, calls
<1> HIDE DEF w
<1>4. OutputPins' = IF w \in Wires /\ c.op = "o" THEN OutputPins \cup {PinOf(w)}
                    ELSE IF w \in Wires /\ c.op = "i" THEN OutputPins \ {PinOf(w)}
                    ELSE OutputPins
  <2>1. CASE c.op \in {"h", "l"}
    BY <1>3, <2>1, PinsStay
  <2>2. CASE c.op = "i" /\ w.port = "GPI"
    BY <1>1, <1>3, <2>2, PinsStay
  <2>3. CASE c.op = "i" /\ w.port # "GPI"
    BY <1>1, <1>3, <2>3, DirectionOfOnePin
  <2>4. CASE c.op = "o" /\ w.port = "GPO"
    BY <1>1, <1>3, <2>4, PinsStay
  <2>5. CASE c.op = "o" /\ w.port # "GPO"
    BY <1>1, <1>3, <2>5, DirectionOfOnePin
  <2> QED
    BY <1>3, <2>1, <2>2, <2>3, <2>4, <2>5
<1>5. HighPins' = IF w \in Wires /\ c.op = "h" THEN HighPins \cup {PinOf(w)}
                  ELSE IF w \in Wires /\ c.op = "l" THEN HighPins \ {PinOf(w)}
                  ELSE HighPins
  <2>1. CASE c.op \in {"i", "o"}
    BY <1>3, <2>1, PinsStay
  <2>2. CASE c.op \in {"h", "l"}
    BY <1>1, <1>3, <2>2, OutputOfOnePin
  <2> QED
    BY <1>3, <2>1, <2>2
<1>6. CASE w \in Wires
  <2>1. command' = r /\ answer' = "done"
    <3>1. PinOf(w) = <<PinOf(w)[1], PinOf(w)[2]>>
      BY <1>6, PinIsPair
    <3> QED
      BY <1>3, <1>6, <3>1 DEF LibAsked, Asked, Request
  <2>2. r.file = "gpiolib" /\ r.op = c.op /\ r.pin = PinOf(w)
    BY DEF Request
  <2> HIDE DEF r
  <2>3. Supported!Do(r)
    BY <1>2, <1>3, <1>4, <1>5, <1>6, <2>1, <2>2, PinsByFile DEF Supported!Do, Supported!Known
  <2> QED
    BY <1>2, <1>3, <1>6, <2>2, <2>3 DEF Supported!Next, Supported!Ask
<1>7. CASE w \notin Wires
  <2>1. UNCHANGED <<command, answer>>
    BY <1>3, <1>7 DEF LibAsked
  <2> QED
    BY <1>3, <1>4, <1>5, <1>7, <2>1 DEF Supported!vars, Supported!pins
<1> QED
  BY <1>6, <1>7

\* Every command and every call has its effect on the pin it names and on no
\* other, or is refused and has none, whatever the order, the threads and the
\* points where they sleep; a write that no other call overlaps and that has an
\* end is taken for nothing but its own command.
THEOREM DriverImplementsPins == LibSpec => ImplementsPins
<1>1. Init => Supported!Init
  <2>1. ASSUME Init PROVE OutputPins = {} /\ HighPins = {} /\ Inside = {} /\ Selected = NoPin
    BY <2>1 DEF Init, OutputPins, HighPins, Inside, Selected, NoPin, defaultPort
  <2> QED
    BY <2>1 DEF Init, Supported!Init
<1>2. TypeInv /\ TypeInv' /\ CopyInv /\ [LibNext]_vars => [Supported!Next]_(Supported!vars)
  <2> SUFFICES ASSUME TypeInv, TypeInv', CopyInv, [LibNext]_vars
               PROVE  Supported!Next \/ UNCHANGED Supported!vars
    OBVIOUS
  <2>0. pc \in [Threads -> {"idle", "copy", "put"}]
    BY DEF TypeInv, CallsInv
  <2>1. ASSUME UNCHANGED <<registers, selectedPort, command, answer>> PROVE UNCHANGED Supported!pins
    <3>1. UNCHANGED <<OutputPins, HighPins, Selected>>
      BY <2>1, PinsStay DEF registers, Selected
    <3> QED
      BY <2>1, <3>1 DEF Supported!pins
  <2>2. ASSUME UNCHANGED <<registers, selectedPort, command, answer, pc, disturbed>> PROVE UNCHANGED Supported!vars
    BY <2>1, <2>2 DEF Supported!vars, Inside
  <2>3. ASSUME NEW t \in Threads, pc[t] = "idle", NEW where \in {"copy", "put"},
               pc' = [pc EXCEPT ![t] = where],
               disturbed' = disturbed \/ disturbed' = disturbed \cup Overwritten(t),
               UNCHANGED Supported!pins
        PROVE  Supported!Next
    <3>1. t \notin Inside /\ Inside' = Inside \cup {t}
      BY <2>0, <2>3 DEF Inside
    <3>2. disturbed' \in Supported!Disturbed(t)
      <4>1. Overwritten(t) \in SUBSET (Inside \ {t}) /\ {} \in SUBSET (Inside \ {t})
        BY DEF Overwritten, Inside
      <4>2. disturbed = disturbed \cup {}
        OBVIOUS
      <4>3. \E others \in SUBSET (Inside \ {t}) : disturbed' = disturbed \cup others
        BY <2>3, <4>1, <4>2
      <4> QED
        BY <4>3 DEF Supported!Disturbed
    <3>3. Supported!Enter(t)
      BY <2>3, <3>1, <3>2 DEF Supported!Enter
    <3> QED
      BY <3>3 DEF Supported!Next
  <2>4. ASSUME NEW t \in Threads, NEW f \in Files, NEW c \in Commands, WriteBegin(t, f, c) PROVE Supported!Next
    <3>1. UNCHANGED Supported!pins
      BY <2>1, <2>4 DEF WriteBegin, board
    <3> QED
      BY <2>3, <2>4, <3>1 DEF WriteBegin, Begin
  <2>5. ASSUME NEW t \in Threads, NEW f \in Files, NEW length \in Lengths, ReadBegin(t, f, length)
        PROVE  Supported!Next
    <3>1. UNCHANGED Supported!pins
      BY <2>1, <2>5 DEF ReadBegin, board, request
    <3> QED
      BY <2>3, <2>5, <3>1 DEF ReadBegin, Begin
  <2>6. ASSUME NEW t \in Threads, NEW n \in Naps, WritePause(t, n) PROVE Supported!Next
    <3>1. UNCHANGED <<Supported!pins, Inside>>
      BY <2>1, <2>6 DEF WritePause, board, request, Inside
    <3>2. t \in Inside /\ disturbed' \in Supported!Disturbed(t)
      <4>1. Overwritten(t) \in SUBSET (Inside \ {t})
        BY DEF Overwritten, Inside
      <4> QED
        BY <2>6, <4>1 DEF WritePause, Inside, Supported!Disturbed
    <3>3. Supported!Proceed(t)
      BY <3>1, <3>2 DEF Supported!Proceed
    <3> QED
      BY <3>3 DEF Supported!Next
  <2>7. ASSUME NEW t \in Threads, ~overflow, WriteEnd(t) PROVE Supported!Next
    BY <2>7, WriteEndIsRequest
  <2>8. ASSUME NEW t \in Threads, ReadEnd(t) PROVE Supported!Next
    <3>1. UNCHANGED Supported!pins
      BY <2>1, <2>8 DEF ReadEnd, board, request
    <3>2. t \in Inside /\ Inside' = Inside \ {t} /\ disturbed' = disturbed \ {t}
      BY <2>0, <2>8 DEF ReadEnd, Return, Inside
    <3>3. Supported!LeaveRead(t)
      BY <3>1, <3>2 DEF Supported!LeaveRead
    <3> QED
      BY <3>3 DEF Supported!Next
  <2>9. ASSUME NEW t \in Threads, NEW n \in Naps, ReadPause(t, n) PROVE UNCHANGED Supported!vars
    BY <2>2, <2>9 DEF ReadPause, board, request
  <2>10. ASSUME NEW c \in Commands, SysfsStore(c) PROVE Supported!Next
    BY <2>10, SysfsStoreIsRequest
  <2>11. ASSUME NEW f \in Files, NEW c \in Commands, WriteOtherMinor(f, c) PROVE Supported!Next
    BY <2>11, OtherMinorIsRequest
  <2>12. ASSUME NEW c \in LibCalls, LibDirectionInput(c) \/ LibDirectionOutput(c) \/ LibSetValue(c)
        PROVE  Supported!Next \/ UNCHANGED Supported!vars
    BY <2>12, LibCallIsRequest
  <2>13. ASSUME NEW f \in Files, NEW minor \in {0, 1}, DeviceOpen(f, minor) PROVE UNCHANGED Supported!vars
    BY <2>2, <2>13 DEF DeviceOpen, board, request, calls
  <2>14. ASSUME NEW f \in Files, DeviceRelease(f) PROVE UNCHANGED Supported!vars
    BY <2>2, <2>14 DEF DeviceRelease, board, request, calls
  <2>15. CASE SignalChanges
    BY <2>2, <2>15 DEF SignalChanges, request, calls
  <2>16. CASE UNCHANGED vars
    BY <2>2, <2>16 DEF vars, board, request, calls
  <2> QED
    BY <2>4, <2>5, <2>6, <2>7, <2>8, <2>9, <2>10, <2>11, <2>12, <2>13, <2>14, <2>15, <2>16, StepIsOneOf
<1> QED
  BY <1>1, <1>2, TypesAreKept, CommandsStay, PTL DEF LibSpec, ImplementsPins, Supported!Spec

=============================================================================
