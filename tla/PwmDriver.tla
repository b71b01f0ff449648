------------------------------ MODULE PwmDriver ------------------------------
(***************************************************************************)
(* The PWM character driver of pwm/pwm.c.  Minors 0 to 2 are the enable    *)
(* bit, the reload value and the duty cycle of PWM1, 3 to 5 those of PWM2. *)
(*                                                                         *)
(* The device is opened once, but threads of a process, or a parent and    *)
(* its child, share the open file, and with it Message and Message_Ptr.  A *)
(* handler may sleep in get_user and put_user, where the user's memory is  *)
(* not present, and other calls then run; between two accesses to user     *)
(* memory a handler is one step.  device_write may sleep before the first  *)
(* byte it copies and before a later one, device_read after any byte.      *)
(*                                                                         *)
(* What is written is a number and a newline, shorter than any text that   *)
(* read() shows, and read() asks for the whole text, as echo and cat do.   *)
(* Three texts fit in Message one after the other, so that three threads   *)
(* at most share the file.                                                 *)
(***************************************************************************)
EXTENDS Integers, FiniteSets

CONSTANTS
  Threads,
  Files,       \* open files, in every process
  Values,      \* numbers written
  Mixtures,    \* what sscanf may find in bytes of several calls
  INT_MAX,     \* largest int
  MaxWrites    \* bound: calls of write() in a behaviour

\* On this range the negation of an int does not overflow.
ASSUME ConstantsAssumption ==
  /\ Files # {}
  /\ INT_MAX \in Nat
  /\ Values \subseteq -INT_MAX .. INT_MAX
  /\ Mixtures \subseteq -INT_MAX .. INT_MAX
  /\ MaxWrites \in Nat

VARIABLES
  reg,            \* REG_PWM1 and REG_PWM2: their fields
  deviceIsOpen,
  minor,          \* per file: its minor, or NoFile
  Message,        \* Empty, Whole, or the number that a write has begun to copy
  Message_Ptr,    \* at a "byte" of the string in Message, or at its "end"
  pc,             \* per thread: "idle", "copy" or "parse" in device_write, or
                  \* "put" in device_read
  call,           \* per thread: its file, the number it writes, the registers
                  \* that it read first, the text that it shows
  disturbed,      \* threads inside a call that another call has disturbed
  shown,          \* what the last read() of a text showed, since the open
  writes          \* number of calls of write() so far

device == <<deviceIsOpen, minor>>
buffer == <<Message, Message_Ptr>>
calls  == <<pc, call>>
vars == <<reg, device, buffer, calls, disturbed, shown, writes>>

Minors    == 0 .. 6   \* 6 stands for every minor the driver does not know
NoFile    == -1
Empty     == [kind |-> "empty", number |-> 0]
Whole     == [kind |-> "whole", number |-> 0]
Begun(v)  == [kind |-> "begun", number |-> v]

Cleared   == [enable |-> 0, freq |-> 0, duty |-> 0]

\* Deviation: a case pasted from PWM1 keeps its register.
RegisterPasted(m) == IF m < 3 \/ m = 4 THEN 1 ELSE 2

Register(m) == IF m < 3 THEN 1 ELSE 2

Unshown  == [minor |-> NoFile, raw |-> 0, scaled |-> 0]
Garbled  == [minor |-> -2, raw |-> 0, scaled |-> 0]
AllClear == [p \in {1, 2} |-> Cleared]
NoCall   == [file |-> CHOOSE f \in Files : TRUE, number |-> 0, reg |-> AllClear, text |-> Unshown]

In(phases) == {t \in Threads : pc[t] \in phases}
Writing    == In({"copy", "parse"})
Reading    == In({"put"})
Inside     == Writing \cup Reading
IsOpen(f) == minor[f] # NoFile

Init ==
  /\ reg = AllClear
  /\ deviceIsOpen = 0
  /\ minor = [f \in Files |-> NoFile]
  /\ Message = Empty
  /\ Message_Ptr = "byte"
  /\ pc = [t \in Threads |-> "idle"]
  /\ call = [t \in Threads |-> NoCall]
  /\ disturbed = {}
  /\ shown = Unshown
  /\ writes = 0

-----------------------------------------------------------------------------

\* Deviation: the device may be opened again.
NotBusy == TRUE

NotOpen == deviceIsOpen = 0

\* Message_Ptr is rewound before the device is found busy, under a read that
\* may have slept.
DeviceOpen(f, m) ==
  /\ ~IsOpen(f)
  /\ Message_Ptr' = "byte"
  /\ disturbed' = disturbed \cup Reading
  /\ \/ /\ NotOpen
        /\ deviceIsOpen' = deviceIsOpen + 1
        /\ minor' = [minor EXCEPT ![f] = m]
     \/ /\ ~NotOpen
        /\ UNCHANGED device
  /\ UNCHANGED <<reg, Message, calls, shown, writes>>

\* The kernel releases a file when no call uses it.
DeviceRelease(f) ==
  /\ IsOpen(f)
  /\ \A t \in Inside : call[t].file # f
  /\ deviceIsOpen' = deviceIsOpen - 1
  /\ minor' = [minor EXCEPT ![f] = NoFile]
  /\ shown' = Unshown
  /\ UNCHANGED <<reg, buffer, calls, disturbed, writes>>

-----------------------------------------------------------------------------
(* Reading.                                                                 *)

map_freq(reload) == (32000 \div reload) \div 256
map_duty(duty)   == (duty * 100) \div 256

\* "nope..." is a raw value of 0, and so is "nope break...".
ShownText(m) ==
  LET r == reg[Register(m)]
  IN  [minor |-> m,
       raw    |-> CASE m \in {0, 3} -> r.enable [] m \in {1, 4} -> r.freq
                    [] m \in {2, 5} -> r.duty [] OTHER -> 0,
       scaled |-> CASE m \in {1, 4} /\ r.freq # 0 -> map_freq(r.freq)
                    [] m \in {2, 5} /\ r.duty # 0 -> map_duty(r.duty)
                    [] OTHER -> 0]

AtEnd == Message = Empty \/ Message_Ptr = "end"

ReadCall(f) == [file |-> f, number |-> 0, reg |-> AllClear, text |-> ShownText(minor[f])]

\* sprintf at Message_Ptr, over what other threads copy or show.
ReadBegin(t, f) ==
  /\ pc[t] = "idle"
  /\ IsOpen(f)
  /\ ~AtEnd
  /\ pc' = [pc EXCEPT ![t] = "put"]
  /\ call' = [call EXCEPT ![t] = ReadCall(f)]
  /\ Message' = Whole
  /\ disturbed' = disturbed \cup In({"parse", "put"})
  /\ UNCHANGED <<reg, device, Message_Ptr, shown, writes>>

\* Some bytes are put, and the next sleeps.
ReadPut(t) ==
  /\ pc[t] = "put"
  /\ Message_Ptr = "byte"
  /\ Message_Ptr' \in {"byte", "end"}
  /\ disturbed' = disturbed \cup (Reading \ {t})
  /\ UNCHANGED <<reg, device, Message, calls, shown, writes>>

\* The bytes up to the end are put.
ReadEnd(t) ==
  /\ pc[t] = "put"
  /\ pc' = [pc EXCEPT ![t] = "idle"]
  /\ call' = [call EXCEPT ![t] = NoCall]
  /\ Message_Ptr' = "end"
  /\ shown' = IF t \in disturbed THEN Garbled ELSE call[t].text
  /\ disturbed' = (disturbed \cup Reading) \ {t}
  /\ UNCHANGED <<reg, device, Message, writes>>

ReadNothing(t, f) == pc[t] = "idle" /\ IsOpen(f) /\ AtEnd /\ UNCHANGED vars

-----------------------------------------------------------------------------
(* Writing.                                                                 *)

WriteCall(f, v) == [file |-> f, number |-> v, reg |-> reg, text |-> Unshown]

\* Both registers are read before anything else.
WriteBegin(t, f, v) ==
  /\ pc[t] = "idle"
  /\ IsOpen(f)
  /\ writes < MaxWrites
  /\ writes' = writes + 1
  /\ pc' = [pc EXCEPT ![t] = "copy"]
  /\ call' = [call EXCEPT ![t] = WriteCall(f, v)]
  /\ UNCHANGED <<reg, device, buffer, disturbed, shown>>

\* The first bytes are copied, and the next sleeps.
WriteCopy(t) ==
  /\ pc[t] = "copy"
  /\ pc' = [pc EXCEPT ![t] = "parse"]
  /\ Message' = Begun(call[t].number)
  /\ disturbed' = disturbed \cup In({"parse", "put"})
  /\ UNCHANGED <<reg, device, Message_Ptr, call, shown, writes>>

\* What sscanf makes of Message once the rest is copied; of bytes that several
\* calls have left there, none or some number.
Parsed(number) ==
  IF Message = Begun(number) THEN {number} ELSE {number, -1} \cup Mixtures

\* Never true.
OutOfRange(value) == value < 0 /\ value > 255

\* Bit 31 of the register, exclusive or with that of -value ^ the register
\* as it was read first.
Toggled(enable, first, value) ==
  (enable + first + (IF -value < 0 THEN 1 ELSE 0)) % 2

\* Deviation: the reload value is not masked.
WithFieldUnmasked(m, first, value) ==
  LET r == first[Register(m)]
  IN  CASE m \in {0, 3} -> [reg[Register(m)] EXCEPT !.enable = Toggled(@, r.enable, value)]
        [] m \in {1, 4} -> [r EXCEPT !.freq = value]
        [] m \in {2, 5} -> [r EXCEPT !.duty = value % 256]

\* The register after one field of it is written.  All but the enable bit
\* are put back as they were read first.
WithField(m, first, value) ==
  LET r == first[Register(m)]
  IN  CASE m \in {0, 3} -> [reg[Register(m)] EXCEPT !.enable = Toggled(@, r.enable, value)]
        [] m \in {1, 4} -> [r EXCEPT !.freq = value % 256]
        [] m \in {2, 5} -> [r EXCEPT !.duty = value % 256]

\* The rest is copied and parsed, and the registers are written.
WriteParse(t) ==
  LET m == minor[call[t].file]
  IN  /\ pc[t] = "parse"
      /\ pc' = [pc EXCEPT ![t] = "idle"]
      /\ Message' = Whole
      /\ Message_Ptr' = "byte"
      /\ \E value \in Parsed(call[t].number) :
           reg' = IF OutOfRange(value) \/ m = 6 THEN reg
                  ELSE [reg EXCEPT ![Register(m)] = WithField(m, call[t].reg, value)]
      /\ call' = [call EXCEPT ![t] = NoCall]
      /\ disturbed' = (disturbed \cup Inside) \ {t}
      /\ UNCHANGED <<device, shown, writes>>

-----------------------------------------------------------------------------

Next ==
  \/ \E f \in Files :
       \/ \E m \in Minors : DeviceOpen(f, m)
       \/ DeviceRelease(f)
  \/ \E t \in Threads :
       \/ \E f \in Files : \/ ReadBegin(t, f)
                          \/ ReadNothing(t, f)
                          \/ \E v \in Values : WriteBegin(t, f, v)
       \/ ReadPut(t) \/ ReadEnd(t)
       \/ WriteCopy(t) \/ WriteParse(t)

Spec == Init /\ [][Next]_vars

-----------------------------------------------------------------------------

Registers == [enable : {0, 1}, freq : 0 .. 255, duty : 0 .. 255]
Texts     == [minor : Minors \cup {NoFile, -2}, raw : 0 .. 255, scaled : 0 .. 125]
Calls     == [file : Files, number : Values \cup {0}, reg : [{1, 2} -> Registers], text : Texts]

\* The variables keep their types, and the fields of the registers theirs:
\* a value that does not fit never reaches a neighbouring bit.
TypeOK ==
  /\ reg \in [{1, 2} -> Registers]
  /\ deviceIsOpen \in 0 .. 1
  /\ minor \in [Files -> Minors \cup {NoFile}]
  /\ Message \in {Empty, Whole} \cup {Begun(v) : v \in Values \cup {0}}
  /\ Message_Ptr \in {"byte", "end"}
  /\ pc \in [Threads -> {"idle", "copy", "parse", "put"}]
  /\ call \in [Threads -> Calls]
  /\ disturbed \subseteq Threads
  /\ shown \in Texts
  /\ writes \in 0 .. MaxWrites

\* The registers agree in every field but that of minor m.
AgreeButFor(m, first, now) ==
  \A p \in {1, 2} :
    /\ m # 3 * p - 3 => first[p].enable = now[p].enable
    /\ m # 3 * p - 2 => first[p].freq = now[p].freq
    /\ m # 3 * p - 1 => first[p].duty = now[p].duty

\* The registers a write read first differ from the registers now at most in
\* the field it is going to write, so that putting them back loses nothing.
SnapshotsAgree ==
  \A t \in Writing : AgreeButFor(minor[call[t].file], call[t].reg, reg)

-----------------------------------------------------------------------------
(* The driver, seen as a panel of settings.                                 *)

Setting == [m \in 0 .. 5 |->
              LET r == reg[m \div 3 + 1]
              IN  CASE m % 3 = 0 -> r.enable [] m % 3 = 1 -> r.freq [] m % 3 = 2 -> r.duty]

OpenMinor == IF \E f \in Files : IsOpen(f) THEN minor[CHOOSE f \in Files : IsOpen(f)] ELSE NoFile

TextState == IF Message = Empty THEN "none" ELSE IF Message_Ptr = "byte" THEN "due" ELSE "given"

Panel == INSTANCE PwmPanel
           WITH setting <- Setting, open <- OpenMinor, writing <- Writing, reading <- Reading,
                asked <- [t \in Threads |-> call[t].number], text <- TextState

\* A write sets the field of its minor and leaves the five others alone, even
\* when other calls disturb it while it sleeps; an undisturbed write of 0 to 255
\* sets that value, and an undisturbed read shows what is set.
ImplementsPanel == Panel!Spec

=============================================================================
