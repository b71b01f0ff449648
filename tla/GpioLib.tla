------------------------------- MODULE GpioLib -------------------------------
(***************************************************************************)
(* The GPIO module beside the board's own GPIO driver                      *)
(* (adc/lpc-src/gpiolib.c, gpio.h), through which other drivers of the     *)
(* kernel set up and drive pins.  Both write the same registers, and       *)
(* neither knows of the other.                                             *)
(***************************************************************************)
EXTENDS GpioDriver

\* What other drivers call: records [op, gpio], where op is "i" for
\* gpio_direction_input, "o" for gpio_direction_output, "h" and "l" for
\* gpio_set_value.
CONSTANT LibCalls

\* The chips, and where their numbers begin.
Chip(port, base, ngpio) == [port |-> port, base |-> base, ngpio |-> ngpio]

lpc32xx_gpiochip ==
  {Chip("P0", 0, 8), Chip("P1", 8, 24), Chip("P2", 32, 13), Chip("P3", 45, 6),
   Chip("GPI", 51, 29), Chip("GPO", 80, 24)}

\* lpc32xx_gpio_request, for the chip that has the number.
Has(chip, gpio) == gpio - chip.base \in 0 .. chip.ngpio - 1

LibWire(gpio) ==
  LET chip == CHOOSE c \in lpc32xx_gpiochip : Has(c, gpio)
  IN  Wire(chip.port, gpio - chip.base)

\* A number has one chip, and a chip has the calls its wires can do.
Callable(c) ==
  /\ \E chip \in lpc32xx_gpiochip : Has(chip, c.gpio)
  /\ LibWire(c.gpio).port = "GPI" => c.op = "i"
  /\ LibWire(c.gpio).port = "GPO" => c.op # "i"

ASSUME LibCallsAssumption == \A c \in LibCalls : Callable(c)

-----------------------------------------------------------------------------

\* The call is recorded if it is about a pin of a header.
LibAsked(op, w) ==
  /\ Count
  /\ IF w \in Wires
     THEN Asked("gpiolib", op, PinOf(w)[1], PinOf(w)[2], "newline") /\ answer' = "done"
     ELSE UNCHANGED <<command, answer>>

\* gpio_direction_input; for GPI there is nothing to do.
LibDirectionInput(c) ==
  LET w == LibWire(c.gpio)
  IN  /\ c.op = "i"
      /\ LibAsked("i", w)
      /\ dir' = IF w.port = "GPI" THEN dir ELSE ClearBits(dir, DirBit(w))
      /\ UNCHANGED <<outp, signal, device, selectedPort, buffer, calls, seen>>

\* gpio_direction_output, which ignores its value; for GPO there is nothing to do.
LibDirectionOutput(c) ==
  LET w == LibWire(c.gpio)
  IN  /\ c.op = "o"
      /\ LibAsked("o", w)
      /\ dir' = IF w.port = "GPO" THEN dir ELSE SetBits(dir, DirBit(w))
      /\ UNCHANGED <<outp, signal, device, selectedPort, buffer, calls, seen>>

\* gpio_set_value.
LibSetValue(c) ==
  LET w == LibWire(c.gpio)
  IN  /\ c.op \in {"h", "l"}
      /\ LibAsked(c.op, w)
      /\ outp' = IF c.op = "h" THEN SetBits(outp, OutBit(w)) ELSE ClearBits(outp, OutBit(w))
      /\ UNCHANGED <<dir, signal, device, selectedPort, buffer, calls, seen>>

LibStep == \E c \in LibCalls : LibDirectionInput(c) \/ LibDirectionOutput(c) \/ LibSetValue(c)

LibNext == (~overflow /\ (Step \/ LibStep)) \/ Stopped

LibSpec == Init /\ [][LibNext]_vars

-----------------------------------------------------------------------------

Request(file, op, pin, ended) == [file |-> file, op |-> op, pin |-> pin, ended |-> ended]

Requests ==
  {Request(f, c.op, <<c.jumper, c.pin>>, c.rest # "nothing") :
      f \in {"sysfs", "devfs", "other"}, c \in Commands}
  \cup {Request("gpiolib", c.op, PinOf(LibWire(c.gpio)), TRUE) :
          c \in {d \in LibCalls : LibWire(d.gpio) \in Wires}}

PinsOf == [file \in {"sysfs", "devfs", "gpiolib"} |->
             IF file = "gpiolib" THEN HeaderPins ELSE SupportedPins]

Selected == <<selectedPort.Jumper, selectedPort.PhysicalPin>>

Supported == INSTANCE GpioPins
                WITH Callers <- Threads, Pins <- PinsOf, Commands <- Requests,
                     outputs <- OutputPins, high <- HighPins, selected <- Selected, inside <- Inside

\* A command, and a call of another driver, has its effect on the pin it names
\* and on no other, or none; a pin that findPort does not know is refused.
ImplementsPins == Supported!Spec

=============================================================================
