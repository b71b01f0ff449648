------------------------------ MODULE AdcProofs ------------------------------
(***************************************************************************)
(* Theorems about AdcDriver for every set of readers, number of channels,  *)
(* width of adc_channel and environment.                                   *)
(***************************************************************************)
EXTENDS AdcDriver, TLAPS

-----------------------------------------------------------------------------
(* Type correctness.  adc_select takes its value from the minor of a thread *)
(* that is in device_read, so the invariant has to say such a thread has    *)
(* its file open.                                                           *)

FilesOpen == \A r \in Readers : InCall(r) => minor[r] # NoFile

TypeInv == TypeOK /\ FilesOpen

\* What the assumption on the constants says of channel numbers.
LEMMA ChannelFacts ==
  /\ 0 \in Channels
  /\ Channels \subseteq 0 .. MaxByte
  /\ -1 \notin Channels
  /\ \A n \in 0 .. MaxByte : n \in Channels <=> n < ADC_NUMCHANNELS
BY ConstantsAssumption DEF ConstantsAssumption, Channels

\* The samples the model builds are samples.
LEMMA SampleFacts ==
  /\ NoSample \in Sample
  /\ \A s \in Sample : Aged(s) \in Sample /\ Aged(s).chan = s.chan
  /\ \A c \in Channels : [chan |-> c, fresh |-> TRUE] \in Sample
  /\ \A s \in Sample, c \in Channels : [s EXCEPT !.chan = c] \in Sample
BY DEF NoSample, Sample, Aged

\* The results the model builds are results.
LEMMA ResultFacts ==
  /\ NoResult \in Result
  /\ Empty("eof") \in Result
  /\ Empty("fault") \in Result
  /\ \A s \in Sample \cup {Junk} : [status |-> "value", value |-> s] \in Result
BY SampleFacts DEF NoResult, Empty, Result

\* A strobe leaves a sample under conversion.
LEMMA StrobeType ==
  ASSUME NEW channel \in Channels, NEW pending \in BOOLEAN,
         converting \in Sample, Strobe(channel, pending)
  PROVE  converting' \in Sample
BY SampleFacts DEF Strobe

\* adc_start selects a channel of the array, whatever it is given.
LEMMA AdcStartType ==
  ASSUME NEW channel \in 0 .. MaxByte, NEW pending \in BOOLEAN,
         converting \in Sample, AdcStart(channel, pending)
  PROVE  /\ converting' \in Sample
         /\ adc_select' \in Channels
         /\ adc_channel' = adc_select'
<1> DEFINE c == IF channel >= ADC_NUMCHANNELS THEN 0 ELSE channel
<1>1. c \in Channels
  BY ChannelFacts, ConstantsAssumption DEF ConstantsAssumption
<1>2. adc_select' = c /\ adc_channel' = c /\ Strobe(c, pending)
  BY DEF AdcStart
<1> QED BY <1>1, <1>2, StrobeType

\* The store of adc_interrupt keeps the types, past the end of the array too.
LEMMA StoreType ==
  ASSUME TypeOK, NEW s \in Statics, StoreValue(s)
  PROVE  /\ adc_values' \in [Channels -> Sample]
         /\ ts_irq' = FALSE
         /\ overrun' \in BOOLEAN
BY ChannelFacts DEF TypeOK, StoreValue

\* adc_channel stays an unsigned char when it is incremented.
LEMMA IncrementedType ==
  ASSUME NEW s \in Statics
  PROVE  Incremented(s) \in 0 .. MaxByte
BY ConstantsAssumption DEF ConstantsAssumption, Statics, Incremented

\* What adc_interrupt prints has its type.
LEMMA PrintType ==
  ASSUME TypeOK, NEW s \in Statics, adc_values' \in [Channels -> Sample], PrintValue(s)
  PROVE  printed' \in [Channels -> Channels \cup {-1}]
BY DEF TypeOK, PrintValue, Sample

\* The types hold at the start.
LEMMA TypeInit == Init => TypeInv
<1> SUFFICES ASSUME Init PROVE TypeInv
  OBVIOUS
<1> USE DEF Init
<1>1. /\ adc_channel \in 0 .. MaxByte
      /\ adc_select \in Channels
  BY ChannelFacts
<1>2. /\ adc_values \in [Channels -> Sample]
      /\ converting \in Sample
      /\ adc_value \in Sample
  BY SampleFacts
<1>3. result \in [Readers -> Result]
  BY ResultFacts
<1>4. /\ pc \in [Readers -> Places]
      /\ FilesOpen
  BY DEF FilesOpen, InCall, Places
<1> QED BY <1>1, <1>2, <1>3, <1>4 DEF TypeInv, TypeOK

\* Every step keeps the types.
LEMMA TypeStep == TypeInv /\ [Next]_vars => TypeInv'
<1> SUFFICES ASSUME TypeInv, [Next]_vars PROVE TypeInv'
  OBVIOUS
<1> USE DEF TypeInv, TypeOK, FilesOpen, InCall
<1>1. CASE ConversionDone
  BY <1>1, SampleFacts DEF ConversionDone, statics, files
<1>2. CASE ButtonPress
  BY <1>2 DEF ButtonPress, statics, adc, files
<1>3. CASE GpInterrupt
  <2>1. 0 \in 0 .. MaxByte
    BY ChannelFacts
  <2>2. converting' \in Sample /\ adc_select' \in Channels /\ adc_channel' = adc_select'
    BY <1>3, <2>1, AdcStartType DEF GpInterrupt
  <2> QED BY <1>3, <2>2, ChannelFacts DEF GpInterrupt, files
<1>4. CASE AdcInterrupt
  <2>1. PICK s \in Statics : ScanNext(s) \/ ScanDone(s) \/ WakeReaders(s)
    BY <1>4 DEF AdcInterrupt
  <2>2. StoreValue(s)
    BY <2>1 DEF ScanNext, ScanDone, WakeReaders
  <2>3. /\ adc_values' \in [Channels -> Sample]
        /\ ts_irq' = FALSE
        /\ overrun' \in BOOLEAN
    BY <2>2, StoreType
  <2>4. s.channel \in 0 .. MaxByte /\ s.handled \in BOOLEAN /\ s.print \in BOOLEAN
    BY DEF Statics
  <2>5. Incremented(s) \in 0 .. MaxByte
    BY IncrementedType
  <2>6. CASE ScanNext(s)
    <3>1. converting' \in Sample /\ adc_select' \in Channels /\ adc_channel' = adc_select'
      BY <2>6, <2>5, AdcStartType DEF ScanNext
    <3>2. printed' \in [Channels -> Channels \cup {-1}]
      BY <2>6, <2>3, PrintType DEF ScanNext
    <3> QED BY <2>6, <2>3, <2>4, <3>1, <3>2, ChannelFacts DEF ScanNext, files
  <2>7. CASE ScanDone(s)
    <3>1. printed' \in [Channels -> Channels \cup {-1}]
      BY <2>7, <2>3, PrintType DEF ScanDone
    <3> QED BY <2>7, <2>3, <2>4, <2>5, <3>1 DEF ScanDone, files
  <2>8. CASE WakeReaders(s)
    <3>1. pc' \in [Readers -> Places] /\ \A r \in Readers : pc'[r] = "idle" <=> pc[r] = "idle"
      BY <2>8 DEF WakeReaders, Woken, Places, OnCpu
    <3> QED BY <2>8, <2>3, <2>4, <3>1 DEF WakeReaders, files
  <2> QED BY <2>1, <2>6, <2>7, <2>8
<1>5. ASSUME NEW r \in Readers, NEW m \in Channels, DeviceOpen(r, m)
      PROVE  TypeInv'
  BY <1>5, ChannelFacts DEF DeviceOpen, statics, adc, NoFile
<1>6. ASSUME NEW r \in Readers, DeviceRelease(r)
      PROVE  TypeInv'
  BY <1>6, ResultFacts DEF DeviceRelease, statics, adc
<1>7. ASSUME NEW r \in Readers, ReadEof(r)
      PROVE  TypeInv'
  BY <1>7, ResultFacts DEF ReadEof, statics, adc
<1>8. ASSUME NEW r \in Readers, ReadEnter(r)
      PROVE  TypeInv'
  BY <1>8, ResultFacts, SampleFacts DEF ReadEnter, ClearHandled, Places, OnCpu
<1>9. ASSUME NEW r \in Readers, SelectChannel(r)
      PROVE  TypeInv'
  BY <1>9 DEF SelectChannel, statics, files, Places, OnCpu
<1>10. ASSUME NEW r \in Readers, NameChannel(r)
       PROVE  TypeInv'
  BY <1>10, ChannelFacts DEF NameChannel, adc, files, Places, OnCpu
<1>11. ASSUME NEW r \in Readers, StrobeChannel(r)
       PROVE  TypeInv'
  <2>1. converting' \in Sample
    BY <1>11, StrobeType DEF StrobeChannel
  <2> QED BY <1>11, <2>1 DEF StrobeChannel, statics, files, Places, OnCpu
<1>12. ASSUME NEW r \in Readers, WaitEvent(r)
       PROVE  TypeInv'
  BY <1>12 DEF WaitEvent, statics, adc, files, Places, OnCpu
<1>13. ASSUME NEW r \in Readers, WaitInterrupted(r)
       PROVE  TypeInv'
  BY <1>13 DEF WaitInterrupted, statics, adc, files, Places, OnCpu
<1>14. ASSUME NEW r \in Readers, ReadReturn(r)
       PROVE  TypeInv'
  <2>1. Fetched \in Sample \cup {Junk}
    BY DEF Fetched
  <2> QED BY <1>14, <2>1, ResultFacts DEF ReadReturn, statics, adc, Places, OnCpu
<1>15. CASE UNCHANGED vars
  BY <1>15 DEF vars, statics, adc, files
<1> QED BY <1>1, <1>2, <1>3, <1>4, <1>5, <1>6, <1>7, <1>8, <1>9, <1>10, <1>11, <1>12,
           <1>13, <1>14, <1>15 DEF Next, ReadStep

\* The C types and register fields are never left, whatever the interleaving:
\* in particular a thread never selects a channel that is not a minor.
THEOREM TypeCorrect == Spec => []TypeOK
<1>1. Spec => []TypeInv
  BY TypeInit, TypeStep, PTL DEF Spec
<1>2. TypeInv => TypeOK
  BY DEF TypeInv
<1> QED BY <1>1, <1>2, PTL

-----------------------------------------------------------------------------
(* A scan keeps going.                                                      *)

\* After a strobe something is converting, or an interrupt was pending.
LEMMA StrobeStarts ==
  ASSUME NEW channel \in Channels, NEW pending \in BOOLEAN, Strobe(channel, pending)
  PROVE  IsConverting' \/ pending
<1>1. channel # -1
  BY ChannelFacts
<1> QED BY <1>1 DEF Strobe, Strobed, IsConverting

\* After adc_start the converter works on the channel it names.
LEMMA AdcStartStarts ==
  ASSUME NEW channel \in 0 .. MaxByte, NEW pending \in BOOLEAN, AdcStart(channel, pending)
  PROVE  /\ IsConverting' \/ pending
         /\ adc_channel' \in Channels
         /\ adc_select' = adc_channel'
         /\ channel \in Channels => adc_channel' = channel
<1> DEFINE c == IF channel >= ADC_NUMCHANNELS THEN 0 ELSE channel
<1>1. c \in Channels
  BY ChannelFacts, ConstantsAssumption DEF ConstantsAssumption
<1>2. adc_select' = c /\ adc_channel' = c /\ Strobe(c, pending)
  BY DEF AdcStart
<1>3. channel \in Channels => c = channel
  BY ChannelFacts, ConstantsAssumption DEF ConstantsAssumption
<1> QED BY <1>1, <1>2, <1>3, StrobeStarts

\* Every step keeps a running scan going.
LEMMA ScanAliveStep == TypeInv /\ ScanAlive /\ [Next]_vars => ScanAlive'
<1> SUFFICES ASSUME TypeInv, ScanAlive, [Next]_vars,
                    gpi_interrupt_print', ~overrun'
             PROVE  Strobed(ts_irq)' /\ adc_channel' < ADC_NUMCHANNELS
  BY DEF ScanAlive
<1> USE DEF TypeInv, TypeOK, ScanAlive, Strobed, IsConverting
<1>1. CASE ConversionDone
  BY <1>1 DEF ConversionDone, statics
<1>2. CASE ButtonPress
  BY <1>2 DEF ButtonPress, statics, adc
<1>3. CASE GpInterrupt
  <2>1. (IsConverting' \/ ts_irq) /\ adc_channel' \in Channels
    BY <1>3, ChannelFacts, AdcStartStarts DEF GpInterrupt
  <2> QED BY <1>3, <2>1, ConstantsAssumption
          DEF GpInterrupt, Channels, ConstantsAssumption
<1>4. CASE AdcInterrupt
  <2>1. PICK s \in Statics : ScanNext(s) \/ ScanDone(s) \/ WakeReaders(s)
    BY <1>4 DEF AdcInterrupt
  <2>2. ScanNext(s)
    BY <2>1 DEF ScanDone, WakeReaders
  <2>3. (IsConverting' \/ FALSE) /\ adc_channel' \in Channels
    BY <2>2, IncrementedType, AdcStartStarts DEF ScanNext
  <2> QED BY <2>3, ConstantsAssumption DEF Channels, ConstantsAssumption
<1>5. ASSUME NEW r \in Readers, NEW m \in Channels, DeviceOpen(r, m)
      PROVE  Strobed(ts_irq)' /\ adc_channel' < ADC_NUMCHANNELS
  BY <1>5 DEF DeviceOpen, statics, adc
<1>6. ASSUME NEW r \in Readers, DeviceRelease(r) \/ ReadEof(r)
      PROVE  Strobed(ts_irq)' /\ adc_channel' < ADC_NUMCHANNELS
  BY <1>6 DEF DeviceRelease, ReadEof, statics, adc
<1>7. ASSUME NEW r \in Readers, ReadEnter(r)
      PROVE  Strobed(ts_irq)' /\ adc_channel' < ADC_NUMCHANNELS
  BY <1>7, SampleFacts DEF ReadEnter
<1>8. ASSUME NEW r \in Readers, SelectChannel(r)
      PROVE  Strobed(ts_irq)' /\ adc_channel' < ADC_NUMCHANNELS
  BY <1>8 DEF SelectChannel, statics
<1>9. ASSUME NEW r \in Readers, NameChannel(r)
      PROVE  Strobed(ts_irq)' /\ adc_channel' < ADC_NUMCHANNELS
  <2>1. minor[r] \in Channels
    BY <1>9 DEF NameChannel, FilesOpen, InCall
  <2> QED BY <1>9, <2>1, ConstantsAssumption
          DEF NameChannel, adc, Channels, ConstantsAssumption
<1>10. ASSUME NEW r \in Readers, StrobeChannel(r)
       PROVE  Strobed(ts_irq)' /\ adc_channel' < ADC_NUMCHANNELS
  <2>1. IsConverting' \/ ts_irq
    BY <1>10, StrobeStarts DEF StrobeChannel
  <2> QED BY <1>10, <2>1 DEF StrobeChannel, statics
<1>11. ASSUME NEW r \in Readers, WaitEvent(r) \/ WaitInterrupted(r) \/ ReadReturn(r)
       PROVE  Strobed(ts_irq)' /\ adc_channel' < ADC_NUMCHANNELS
  BY <1>11 DEF WaitEvent, WaitInterrupted, ReadReturn, statics, adc
<1>12. CASE UNCHANGED vars
  BY <1>12 DEF vars, statics, adc
<1> QED BY <1>1, <1>2, <1>3, <1>4, <1>5, <1>6, <1>7, <1>8, <1>9, <1>10, <1>11, <1>12
        DEF Next, ReadStep

\* However readers, the button, signals and interrupts interleave, a scan in
\* progress has a conversion or an interrupt to continue it and an index
\* inside adc_values, unless a store has already left the array.
THEOREM ScanNeverStalls == Spec => []ScanAlive
<1>1. Init => ScanAlive
  BY DEF Init, ScanAlive
<1> QED BY <1>1, TypeInit, TypeStep, ScanAliveStep, PTL DEF Spec

-----------------------------------------------------------------------------
(* Without the button no wake-up is lost.                                   *)

Starting == {"select", "name", "strobe"}
Waiting  == {"test", "asleep", "woken"}

WakeUpComes ==
  /\ ~gpi_irq
  /\ ~gpi_interrupt_print
  /\ adc_channel \in Channels
  /\ \A r \in Readers : pc[r] \in Waiting /\ ~adc_interrupt_handled =>
        Strobed(ts_irq) \/ \E q \in Readers : pc[q] \in Starting
  /\ \A r \in Readers : pc[r] = "asleep" => ~adc_interrupt_handled

\* Without the button every step keeps a wake-up coming.
LEMMA WakeUpStep ==
  ASSUME "button" \notin Env
  PROVE  TypeInv /\ WakeUpComes /\ [Next]_vars => WakeUpComes'
<1> SUFFICES ASSUME TypeInv, WakeUpComes, [Next]_vars PROVE WakeUpComes'
  OBVIOUS
<1> USE DEF TypeInv, TypeOK, WakeUpComes, Strobed, IsConverting, Starting, Waiting
<1>1. CASE ConversionDone
  BY <1>1 DEF ConversionDone, statics
<1>2. CASE ButtonPress \/ GpInterrupt
  BY <1>2 DEF ButtonPress, GpInterrupt
<1>3. CASE AdcInterrupt
  <2>1. PICK s \in Statics : ScanNext(s) \/ ScanDone(s) \/ WakeReaders(s)
    BY <1>3 DEF AdcInterrupt
  <2>2. /\ s.channel = adc_channel
        /\ s.print = gpi_interrupt_print
    <3>1. adc_channel < ADC_NUMCHANNELS
      BY ChannelFacts
    <3>2. s = [channel |-> adc_channel, handled |-> adc_interrupt_handled,
               print |-> gpi_interrupt_print]
      <4>1. StoreValue(s)
        BY <2>1 DEF ScanNext, ScanDone, WakeReaders
      <4> QED BY <3>1, <4>1, ConstantsAssumption DEF StoreValue, ConstantsAssumption
    <3> QED BY <3>2
  <2>3. WakeReaders(s)
    BY <2>1, <2>2 DEF ScanNext, ScanDone
  <2> QED BY <2>2, <2>3 DEF WakeReaders, Woken
<1>4. ASSUME NEW r \in Readers, NEW m \in Channels, DeviceOpen(r, m)
      PROVE  WakeUpComes'
  BY <1>4 DEF DeviceOpen, statics, adc
<1>5. ASSUME NEW r \in Readers, DeviceRelease(r) \/ ReadEof(r)
      PROVE  WakeUpComes'
  BY <1>5 DEF DeviceRelease, ReadEof, statics, adc
<1>6. ASSUME NEW r \in Readers, ReadEnter(r)
      PROVE  WakeUpComes'
  <2>1. pc'[r] \in Starting /\ adc_interrupt_handled' = FALSE
    BY <1>6 DEF ReadEnter, ClearHandled
  <2> QED BY <1>6, <2>1 DEF ReadEnter
<1>7. ASSUME NEW r \in Readers, SelectChannel(r)
      PROVE  WakeUpComes'
  BY <1>7 DEF SelectChannel, statics
<1>8. ASSUME NEW r \in Readers, NameChannel(r)
      PROVE  WakeUpComes'
  <2>1. minor[r] \in Channels
    BY <1>8 DEF NameChannel, FilesOpen, InCall
  <2> QED BY <1>8, <2>1 DEF NameChannel, adc
<1>9. ASSUME NEW r \in Readers, StrobeChannel(r)
      PROVE  WakeUpComes'
  <2>1. IsConverting' \/ ts_irq
    BY <1>9, StrobeStarts DEF StrobeChannel
  <2> QED BY <1>9, <2>1 DEF StrobeChannel, statics
<1>10. ASSUME NEW r \in Readers, WaitEvent(r)
       PROVE  WakeUpComes'
  BY <1>10 DEF WaitEvent, statics, adc
<1>11. ASSUME NEW r \in Readers, WaitInterrupted(r) \/ ReadReturn(r)
       PROVE  WakeUpComes'
  BY <1>11 DEF WaitInterrupted, ReadReturn, statics, adc
<1>12. CASE UNCHANGED vars
  BY <1>12 DEF vars, statics, adc
<1> QED BY <1>1, <1>2, <1>3, <1>4, <1>5, <1>6, <1>7, <1>8, <1>9, <1>10, <1>11, <1>12
        DEF Next, ReadStep

\* On a board whose button is not pressed, any number of readers may overlap,
\* be preempted or interrupted and none sleeps without a wake-up on its way.
THEOREM NoReaderIsForgotten == Spec => []NoLostWakeup
<1>1. CASE "button" \in Env
  <2>1. NoLostWakeup
    BY <1>1 DEF NoLostWakeup
  <2> QED BY <2>1, PTL
<1>2. CASE "button" \notin Env
  <2>1. Init => WakeUpComes
    BY ChannelFacts DEF Init, WakeUpComes, Waiting
  <2>2. TypeInv /\ WakeUpComes /\ [Next]_vars => WakeUpComes'
    BY <1>2, WakeUpStep
  <2>3. WakeUpComes => NoLostWakeup
    BY DEF WakeUpComes, NoLostWakeup, Starting, Waiting
  <2> QED BY <2>1, <2>2, <2>3, TypeInit, TypeStep, PTL DEF Spec
<1> QED BY <1>1, <1>2

=============================================================================
