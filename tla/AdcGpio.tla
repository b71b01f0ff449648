------------------------------- MODULE AdcGpio -------------------------------
(***************************************************************************)
(* The measurement build adc/adc_gpio.c: the driver of AdcDriver, which    *)
(* also turns a pin of port 2 high when it has started a conversion and    *)
(* low when adc_interrupt is entered, for a logic analyzer.  Its printk    *)
(* calls are taken out; printed is what they would have shown.             *)
(***************************************************************************)
EXTENDS AdcDriver

VARIABLES
  p2_outp,   \* bits of P2_OUTP that are 1
  marking    \* threads in device_read that have strobed but not set the pin

gpioVars == <<vars, p2_outp, marking>>

\* Any other channel leaves myBit at 0.
myBit(channel) == CASE channel = 1 -> 2 [] channel = 2 -> 3 [] OTHER -> 0

GpioInit == Init /\ p2_outp = {} /\ marking = {}

\* adc_start sets the pin last, as part of gp_interrupt here.
MarkedGpInterrupt ==
  /\ GpInterrupt
  /\ p2_outp' = p2_outp \cup {myBit(0)}
  /\ UNCHANGED marking

\* Deviation: the handler turns the pin low when it leaves.
ClearedLast(pins, started) == (pins \cup started) \ {myBit(adc_channel')}

\* The handler turns the pin of adc_channel low before anything else.
ClearedFirst(pins, started) == (pins \ {myBit(adc_channel)}) \cup started

MarkedAdcInterrupt ==
  /\ \E s \in Statics :
       \/ ScanNext(s) /\ p2_outp' = ClearedFirst(p2_outp, {myBit(adc_channel')})
       \/ (ScanDone(s) \/ WakeReaders(s)) /\ p2_outp' = ClearedFirst(p2_outp, {})
  /\ UNCHANGED marking

\* device_read can be interrupted between the strobe and the pin.
MarkedStrobe(r) ==
  /\ StrobeChannel(r)
  /\ marking' = marking \cup {r}
  /\ UNCHANGED p2_outp

Mark(r) ==
  /\ r \in marking
  /\ CanRun(r)
  /\ marking' = marking \ {r}
  /\ p2_outp' = p2_outp \cup {myBit(minor[r])}
  /\ UNCHANGED vars

UnmarkedStep(r) ==
  /\ r \notin marking
  /\ \/ \E m \in Channels : DeviceOpen(r, m)
     \/ DeviceRelease(r) \/ ReadEof(r) \/ ReadEnter(r)
     \/ SelectChannel(r) \/ NameChannel(r)
     \/ WaitEvent(r) \/ WaitInterrupted(r) \/ ReadReturn(r)
  /\ UNCHANGED <<p2_outp, marking>>

GpioNext ==
  \/ MarkedGpInterrupt
  \/ MarkedAdcInterrupt
  \/ (ConversionDone \/ ButtonPress) /\ UNCHANGED <<p2_outp, marking>>
  \/ \E r \in Readers : MarkedStrobe(r) \/ Mark(r) \/ UnmarkedStep(r)

GpioSpec == GpioInit /\ [][GpioNext]_gpioVars

\* While a scan runs, the pin of the channel it has reached is high, unless a
\* reader has just named another channel and not set its pin yet.
ScanMarked ==
  gpi_interrupt_print /\ marking = {} /\ (\A r \in Readers : pc[r] # "strobe") =>
    myBit(adc_channel) \in p2_outp

=============================================================================
