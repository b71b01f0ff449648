----------------------------- MODULE AdcDriver -----------------------------
(***************************************************************************)
(* The ADC character driver of adc/adc.c: threads in device_read, the two  *)
(* interrupt handlers adc_interrupt and gp_interrupt, and the converter    *)
(* they share through ADC_SELECT, ADC_CTRL and ADC_VALUE.                  *)
(*                                                                         *)
(* The driver takes no lock.  device_read is cut at every access to shared *)
(* state, and the handlers, registered with IRQF_DISABLED, run as one step *)
(* each, between any two accesses of a thread.                             *)
(*                                                                         *)
(* A converted value is represented by the channel it was sampled from and *)
(* by whether the conversion began after the latest call of device_read.   *)
(***************************************************************************)
EXTENDS Integers, FiniteSets

CONSTANTS
  Readers,           \* threads that open a minor and call read()
  ADC_NUMCHANNELS,   \* channels, and elements of adc_values
  MaxByte,           \* largest unsigned char, 255 in the code
  Env                \* what the environment does, a subset of Features

(***************************************************************************)
(* "overlap"  a read may begin, or the button be pressed, while another    *)
(*            read or a scan is in progress                                *)
(* "button"   the EINT0 button is pressed                                  *)
(* "signal"   a signal may arrive at a thread that waits                   *)
(* "preempt"  the kernel preempts threads inside the driver                *)
(* "lax"      a strobe during a conversion may restart it, and a changed   *)
(*            ADC_SELECT may take effect on the conversion under way       *)
(***************************************************************************)
Features == {"overlap", "button", "signal", "preempt", "lax"}

ASSUME ConstantsAssumption ==
  /\ ADC_NUMCHANNELS \in Nat \ {0}
  /\ MaxByte \in Nat
  /\ ADC_NUMCHANNELS <= MaxByte
  /\ Env \subseteq Features

VARIABLES
  adc_channel, adc_values, adc_interrupt_handled, gpi_interrupt_print,
  adc_select,        \* channel field of the ADC_SELECT register
  converting,        \* the sample being converted, or NoSample
  adc_value,         \* the ADC_VALUE register
  ts_irq,            \* IRQ_LPC32XX_TS_IRQ is pending: ADC_VALUE not read yet
  gpi_irq,           \* IRQ_LPC32XX_GPI_01 is latched
  pc, minor, f_pos,  \* per thread: place in device_read, open file, position
  result,            \* per thread: what its last read() returned
  printed,           \* per channel: channel of the value the last scan printed for it
  overrun            \* a store went past the end of adc_values

statics == <<adc_channel, adc_values, adc_interrupt_handled, gpi_interrupt_print>>
adc     == <<adc_select, converting, adc_value, ts_irq>>
files   == <<minor, f_pos, result>>
vars    == <<statics, adc, gpi_irq, pc, files, printed, overrun>>

-----------------------------------------------------------------------------

Channels == 0 .. ADC_NUMCHANNELS - 1
NoFile   == -1

\* chan = -1: never converted, as the initial 0 of adc_values.
\* chan = -2: whatever lies behind the end of adc_values.
NoSample == [chan |-> -1, fresh |-> FALSE]
Junk     == [chan |-> -2, fresh |-> FALSE]
Sample   == [chan : Channels \cup {-1}, fresh : BOOLEAN]

Empty(s) == [status |-> s, value |-> NoSample]
NoResult == Empty("none")
Result   == [status : {"none", "value", "eof", "fault"},
             value  : Sample \cup {Junk}]

OnCpu  == {"select", "name", "strobe", "test", "fetch"}
Places == OnCpu \cup {"idle", "asleep", "woken"}

InCall(r)   == pc[r] # "idle"
CanRun(r)   == "preempt" \in Env \/ \A q \in Readers \ {r} : pc[q] \notin OnCpu
ScanPending == gpi_irq \/ gpi_interrupt_print
Quiet       == ~ScanPending /\ \A r \in Readers : ~InCall(r)
MayBegin    == "overlap" \in Env \/ Quiet

Init ==
  /\ adc_channel = 0
  /\ adc_values = [c \in Channels |-> NoSample]
  /\ adc_interrupt_handled = FALSE
  /\ gpi_interrupt_print = FALSE
  /\ adc_select = 0
  /\ converting = NoSample
  /\ adc_value = NoSample
  /\ ts_irq = FALSE
  /\ gpi_irq = FALSE
  /\ pc = [r \in Readers |-> "idle"]
  /\ minor = [r \in Readers |-> NoFile]
  /\ f_pos = [r \in Readers |-> 0]
  /\ result = [r \in Readers |-> NoResult]
  /\ printed = [c \in Channels |-> -1]
  /\ overrun = FALSE

-----------------------------------------------------------------------------
(* The converter.  AD_STROBE stays set until ADC_VALUE is read, so a strobe *)
(* while it is set starts nothing, unless the converter is lax.             *)

IsConverting     == converting.chan # -1
Strobed(pending) == IsConverting \/ pending

Strobe(channel, pending) ==
  \/ /\ ~Strobed(pending) \/ "lax" \in Env
     /\ converting' = [chan |-> channel, fresh |-> TRUE]
  \/ /\ Strobed(pending)
     /\ converting' = converting

ConversionDone ==
  /\ IsConverting
  /\ \/ adc_value' = converting
     \/ "lax" \in Env /\ adc_value' = [converting EXCEPT !.chan = adc_select]
  /\ converting' = NoSample
  /\ ts_irq' = TRUE
  /\ UNCHANGED <<statics, adc_select, gpi_irq, pc, files, printed, overrun>>

ButtonPress ==
  /\ "button" \in Env
  /\ MayBegin
  /\ gpi_irq' = TRUE
  /\ UNCHANGED <<statics, adc, pc, files, printed, overrun>>

-----------------------------------------------------------------------------
(* The interrupt handlers.                                                 *)

\* Deviation: the handler forgets to start the conversion it selected.
AdcStartUnstrobed(channel, pending) ==
  /\ adc_select' = channel
  /\ adc_channel' = channel
  /\ UNCHANGED converting

\* adc_start as one step, as a handler runs it.
AdcStart(channel, pending) ==
  LET c == IF channel >= ADC_NUMCHANNELS THEN 0 ELSE channel
  IN  /\ adc_select' = c
      /\ adc_channel' = c
      /\ Strobe(c, pending)

GpInterrupt ==
  /\ gpi_irq
  /\ gpi_irq' = FALSE
  /\ gpi_interrupt_print' = TRUE
  /\ AdcStart(0, ts_irq)
  /\ printed' = [c \in Channels |-> -1]
  /\ UNCHANGED <<adc_values, adc_interrupt_handled, adc_value, ts_irq, pc, files, overrun>>

\* adc_values[adc_channel] = READ_REG(ADC_VALUE), and the scalar statics as
\* the rest of the handler finds them.  A store past the array may land on
\* any of them.
Statics == [channel : 0 .. MaxByte, handled : BOOLEAN, print : BOOLEAN]

StoreValue(s) ==
  /\ ts_irq
  /\ ts_irq' = FALSE
  /\ \/ /\ adc_channel < ADC_NUMCHANNELS
        /\ s = [channel |-> adc_channel, handled |-> adc_interrupt_handled,
                print |-> gpi_interrupt_print]
        /\ adc_values' = [adc_values EXCEPT ![adc_channel] = adc_value]
        /\ UNCHANGED overrun
     \/ /\ adc_channel >= ADC_NUMCHANNELS
        /\ overrun' = TRUE
        /\ UNCHANGED adc_values

\* Deviation: adc_channel is a wider integer and does not wrap.
IncrementedWide(s) == s.channel + 1

Incremented(s) == (s.channel + 1) % (MaxByte + 1)

\* Deviation: the value is printed after the increment, for the next channel.
PrintNextValue(s) ==
  printed' = IF Incremented(s) \in Channels
             THEN [printed EXCEPT ![Incremented(s)] = adc_values'[s.channel].chan]
             ELSE printed

\* printk of ADC(adc_channel), before adc_channel++.
PrintValue(s) ==
  printed' = IF s.channel \in Channels
             THEN [printed EXCEPT ![s.channel] = adc_values'[s.channel].chan]
             ELSE printed

\* Deviation: the bound is off by one, and adc_start turns it into channel 0.
ScanContinuesOffByOne(channel) == channel <= ADC_NUMCHANNELS

ScanContinues(channel) == channel < ADC_NUMCHANNELS

ScanNext(s) ==
  /\ StoreValue(s)
  /\ s.print
  /\ PrintValue(s)
  /\ ScanContinues(Incremented(s))
  /\ AdcStart(Incremented(s), FALSE)
  /\ adc_interrupt_handled' = s.handled
  /\ gpi_interrupt_print' = TRUE
  /\ UNCHANGED <<adc_value, gpi_irq, pc, files>>

ScanDone(s) ==
  /\ StoreValue(s)
  /\ s.print
  /\ PrintValue(s)
  /\ ~ScanContinues(Incremented(s))
  /\ adc_channel' = Incremented(s)
  /\ adc_interrupt_handled' = s.handled
  /\ gpi_interrupt_print' = FALSE
  /\ UNCHANGED <<adc_select, converting, adc_value, gpi_irq, pc, files>>

\* Deviation: an exclusive wake-up, of one sleeper only.
WokenOne ==
  LET sleepers == {r \in Readers : pc[r] = "asleep"}
  IN  IF sleepers = {} THEN pc ELSE [pc EXCEPT ![CHOOSE r \in sleepers : TRUE] = "woken"]

\* Deviation: the flag is set but nobody is woken.
WokenNone == pc

\* wake_up_interruptible makes every sleeper runnable.
Woken == [r \in Readers |-> IF pc[r] = "asleep" THEN "woken" ELSE pc[r]]

WakeReaders(s) ==
  /\ StoreValue(s)
  /\ ~s.print
  /\ adc_channel' = s.channel
  /\ adc_interrupt_handled' = TRUE
  /\ gpi_interrupt_print' = FALSE
  /\ pc' = Woken
  /\ UNCHANGED <<adc_select, converting, adc_value, gpi_irq, files, printed>>

AdcInterrupt == \E s \in Statics : ScanNext(s) \/ ScanDone(s) \/ WakeReaders(s)

-----------------------------------------------------------------------------
(* File operations.  cdev_add registers the minors 0 .. ADC_NUMCHANNELS-1,  *)
(* so the range check of device_read never rejects one.                    *)

DeviceOpen(r, m) ==
  /\ minor[r] = NoFile
  /\ minor' = [minor EXCEPT ![r] = m]
  /\ f_pos' = [f_pos EXCEPT ![r] = 0]
  /\ UNCHANGED <<statics, adc, gpi_irq, pc, result, printed, overrun>>

DeviceRelease(r) ==
  /\ minor[r] # NoFile
  /\ ~InCall(r)
  /\ minor' = [minor EXCEPT ![r] = NoFile]
  /\ f_pos' = [f_pos EXCEPT ![r] = 0]
  /\ result' = [result EXCEPT ![r] = NoResult]
  /\ UNCHANGED <<statics, adc, gpi_irq, pc, printed, overrun>>

\* *f_pos > 0: the end of file that lets cat stop.
ReadEof(r) ==
  /\ minor[r] # NoFile
  /\ ~InCall(r)
  /\ CanRun(r)
  /\ f_pos[r] > 0
  /\ f_pos' = [f_pos EXCEPT ![r] = 0]
  /\ result' = [result EXCEPT ![r] = Empty("eof")]
  /\ UNCHANGED <<statics, adc, gpi_irq, pc, minor, printed, overrun>>

\* Deviation: device_read does not reset the flag before it starts.
KeepHandled == UNCHANGED adc_interrupt_handled

ClearHandled == adc_interrupt_handled' = FALSE

\* The mark "fresh" is relative to the latest call, so a call clears it.
Aged(s) == [s EXCEPT !.fresh = FALSE]

ReadEnter(r) ==
  /\ minor[r] # NoFile
  /\ ~InCall(r)
  /\ CanRun(r)
  /\ MayBegin
  /\ f_pos[r] = 0
  /\ ClearHandled
  /\ pc' = [pc EXCEPT ![r] = "select"]
  /\ result' = [result EXCEPT ![r] = NoResult]
  /\ adc_values' = [c \in Channels |-> Aged(adc_values[c])]
  /\ adc_value' = Aged(adc_value)
  /\ converting' = Aged(converting)
  /\ UNCHANGED <<adc_channel, gpi_interrupt_print, adc_select, ts_irq, gpi_irq,
                 minor, f_pos, printed, overrun>>

\* adc_start as device_read runs it: three accesses, interrupts between them.
SelectChannel(r) ==
  /\ pc[r] = "select"
  /\ CanRun(r)
  /\ adc_select' = minor[r]
  /\ pc' = [pc EXCEPT ![r] = "name"]
  /\ UNCHANGED <<statics, converting, adc_value, ts_irq, gpi_irq, files, printed, overrun>>

NameChannel(r) ==
  /\ pc[r] = "name"
  /\ CanRun(r)
  /\ adc_channel' = minor[r]
  /\ pc' = [pc EXCEPT ![r] = "strobe"]
  /\ UNCHANGED <<adc_values, adc_interrupt_handled, gpi_interrupt_print, adc, gpi_irq,
                 files, printed, overrun>>

StrobeChannel(r) ==
  /\ pc[r] = "strobe"
  /\ CanRun(r)
  /\ Strobe(adc_select, ts_irq)
  /\ pc' = [pc EXCEPT ![r] = "test"]
  /\ UNCHANGED <<statics, adc_select, adc_value, ts_irq, gpi_irq, files, printed, overrun>>

\* Deviation: the flag is reset after the conversion has been started.
ClearAndWait(r) ==
  /\ pc[r] \in {"test", "woken"}
  /\ CanRun(r)
  /\ adc_interrupt_handled' = (adc_interrupt_handled /\ pc[r] = "woken")
  /\ pc' = [pc EXCEPT ![r] = IF adc_interrupt_handled' THEN "fetch" ELSE "asleep"]
  /\ UNCHANGED <<adc_channel, adc_values, gpi_interrupt_print, adc, gpi_irq, files, printed,
                 overrun>>

\* One test of the condition of wait_event_interruptible.
WaitEvent(r) ==
  /\ pc[r] \in {"test", "woken"}
  /\ CanRun(r)
  /\ pc' = [pc EXCEPT ![r] = IF adc_interrupt_handled THEN "fetch" ELSE "asleep"]
  /\ UNCHANGED <<statics, adc, gpi_irq, files, printed, overrun>>

\* -ERESTARTSYS: device_read ignores it and goes on.
WaitInterrupted(r) ==
  /\ "signal" \in Env
  /\ pc[r] \in {"test", "woken", "asleep"}
  /\ CanRun(r)
  /\ ~adc_interrupt_handled
  /\ pc' = [pc EXCEPT ![r] = "fetch"]
  /\ UNCHANGED <<statics, adc, gpi_irq, files, printed, overrun>>

Fetched == IF adc_channel \in Channels THEN adc_values[adc_channel] ELSE Junk

ReadReturn(r) ==
  /\ pc[r] = "fetch"
  /\ CanRun(r)
  /\ pc' = [pc EXCEPT ![r] = "idle"]
  /\ \/ /\ result' = [result EXCEPT ![r] = [status |-> "value", value |-> Fetched]]
        /\ f_pos' = [f_pos EXCEPT ![r] = 1]
     \/ /\ result' = [result EXCEPT ![r] = Empty("fault")]
        /\ UNCHANGED f_pos
  /\ UNCHANGED <<statics, adc, gpi_irq, minor, printed, overrun>>

-----------------------------------------------------------------------------

ReadStep(r) ==
  SelectChannel(r) \/ NameChannel(r) \/ StrobeChannel(r) \/ WaitEvent(r) \/ ReadReturn(r)

Next ==
  \/ ConversionDone
  \/ ButtonPress
  \/ GpInterrupt
  \/ AdcInterrupt
  \/ \E r \in Readers :
       \/ \E m \in Channels : DeviceOpen(r, m)
       \/ DeviceRelease(r)
       \/ ReadEof(r)
       \/ ReadEnter(r)
       \/ ReadStep(r)
       \/ WaitInterrupted(r)

Spec == Init /\ [][Next]_vars

\* The converter finishes, a pending interrupt is taken and a runnable thread
\* is scheduled.  Nothing makes a user call read() or press the button.
Fairness ==
  /\ WF_vars(ConversionDone)
  /\ WF_vars(GpInterrupt)
  /\ WF_vars(AdcInterrupt)
  /\ \A r \in Readers : WF_vars(ReadStep(r))

FairSpec == Spec /\ Fairness

-----------------------------------------------------------------------------

\* The variables keep the types of their C declarations and registers.
TypeOK ==
  /\ adc_channel \in 0 .. MaxByte
  /\ adc_values \in [Channels -> Sample]
  /\ adc_interrupt_handled \in BOOLEAN
  /\ gpi_interrupt_print \in BOOLEAN
  /\ adc_select \in Channels
  /\ converting \in Sample
  /\ adc_value \in Sample
  /\ ts_irq \in BOOLEAN
  /\ gpi_irq \in BOOLEAN
  /\ pc \in [Readers -> Places]
  /\ minor \in [Readers -> Channels \cup {NoFile}]
  /\ f_pos \in [Readers -> {0, 1}]
  /\ result \in [Readers -> Result]
  /\ printed \in [Channels -> Channels \cup {-1}]
  /\ overrun \in BOOLEAN

\* A scan started by the button never stalls and never leaves the array: as
\* long as gpi_interrupt_print is set, an ADC interrupt is on its way, and
\* adc_channel, which readers overwrite at any time, indexes adc_values.
ScanAlive ==
  gpi_interrupt_print /\ ~overrun =>
    /\ Strobed(ts_irq)
    /\ adc_channel < ADC_NUMCHANNELS

\* Without the button no reader sleeps on a wake-up that cannot come: while
\* one sleeps, the flag is clear and a conversion, its interrupt or another
\* reader's strobe is still to come.
NoLostWakeup ==
  "button" \notin Env =>
    \A r \in Readers : pc[r] = "asleep" =>
      /\ ~adc_interrupt_handled
      /\ Strobed(ts_irq) \/ \E q \in Readers : pc[q] \in {"select", "name", "strobe"}

\* device_read gives the caller a value of the channel it asked for, the
\* minor it opened, converted since the call.
ReadReturnsRequested ==
  \A r \in Readers : result[r].status = "value" =>
    result[r].value = [chan |-> minor[r], fresh |-> TRUE]

\* device_read gives the caller a value of the channel it asked for, whenever
\* it was converted.
ReadReturnsChannel ==
  \A r \in Readers : result[r].status = "value" => result[r].value.chan = minor[r]

\* When a scan ends it has printed every channel, each with a value that was
\* sampled from that channel.
ScanPrintsAllChannels ==
  [][ gpi_interrupt_print /\ ~gpi_interrupt_print' =>
        \A c \in Channels : printed'[c] = c ]_vars

\* The handlers and device_read index adc_values with adc_channel, so it has
\* to stay below ADC_NUMCHANNELS where it is used.
NoOverrun == ~overrun

\* A thread that device_read put to sleep is eventually woken.
SleeperWoken == \A r \in Readers : (pc[r] = "asleep") ~> (pc[r] # "asleep")

\* Readers get in each other's way but not all of them for ever: while one
\* sleeps, some reader eventually returns from its wait.
SomeReaderReturns ==
  (\E r \in Readers : pc[r] = "asleep") ~> (\E r \in Readers : pc[r] = "fetch")

\* A scan eventually ends.
ScanEnds == gpi_interrupt_print ~> ~gpi_interrupt_print

=============================================================================
