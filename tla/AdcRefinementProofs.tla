------------------------- MODULE AdcRefinementProofs -------------------------
(***************************************************************************)
(* A driver that is used serially implements AdcService, for every set of  *)
(* readers, number of channels and width of adc_channel.                   *)
(***************************************************************************)
EXTENDS AdcRefinement, AdcProofs

\* In serial use nothing is under way when a call begins.
LEMMA MayBeginSerially ==
  ASSUME Serial, MayBegin
  PROVE  Quiet
BY DEF Serial, MayBegin

\* A store inside the array changes that element and nothing else.
LEMMA StoreInside ==
  ASSUME TypeOK, adc_channel \in Channels, NEW s \in Statics, StoreValue(s)
  PROVE  /\ s.channel = adc_channel
         /\ s.handled = adc_interrupt_handled
         /\ s.print = gpi_interrupt_print
         /\ ts_irq /\ ts_irq' = FALSE
         /\ adc_values' = [adc_values EXCEPT ![adc_channel] = adc_value]
         /\ UNCHANGED overrun
<1>1. adc_channel < ADC_NUMCHANNELS
  BY ChannelFacts DEF TypeOK
<1>2. /\ s = [channel |-> adc_channel, handled |-> adc_interrupt_handled,
              print |-> gpi_interrupt_print]
      /\ ts_irq /\ ts_irq' = FALSE
      /\ adc_values' = [adc_values EXCEPT ![adc_channel] = adc_value]
      /\ UNCHANGED overrun
  BY <1>1, ConstantsAssumption DEF StoreValue, ConstantsAssumption, TypeOK
<1> QED BY <1>2

\* Inside the array the increment of the unsigned char does not wrap.
LEMMA IncrementInside ==
  ASSUME NEW s \in Statics, s.channel \in Channels
  PROVE  Incremented(s) = s.channel + 1
<1>1. s.channel \in Nat /\ s.channel + 1 < MaxByte + 1 /\ MaxByte \in Nat
  BY ConstantsAssumption DEF Channels, ConstantsAssumption
<1>2. \A a, b \in Nat : a < b => a % b = a
  OBVIOUS
<1> QED BY <1>1, <1>2 DEF Incremented

\* What a strobe of an idle converter does.
LEMMA StrobeIdle ==
  ASSUME NEW channel, ~IsConverting, Strobe(channel, FALSE)
  PROVE  converting' = [chan |-> channel, fresh |-> TRUE]
BY DEF Strobe, Strobed

\* On an idle converter adc_start starts a fresh conversion of its channel.
LEMMA AdcStartIdle ==
  ASSUME NEW channel \in Channels, ~IsConverting, AdcStart(channel, FALSE)
  PROVE  /\ adc_select' = channel
         /\ adc_channel' = channel
         /\ converting' = [chan |-> channel, fresh |-> TRUE]
<1>1. ~(channel >= ADC_NUMCHANNELS)
  BY ConstantsAssumption DEF Channels, ConstantsAssumption
<1> QED BY <1>1, StrobeIdle DEF AdcStart

-----------------------------------------------------------------------------
(* Serial use keeps one sample, of one channel, under way.                   *)

\* Serial use is orderly at the start.
LEMMA SerialInit == Init => OneAtATime
BY DEF Init, OneAtATime, OneUser, ReadUnderWay, ScanUnderWay, ReadReturnsRequested,
       InCall, ScanPending, Unstarted, IsConverting, NoSample, NoResult, Empty

\* Every step of serial use keeps it orderly.
LEMMA SerialStep ==
  ASSUME Serial
  PROVE  TypeInv /\ OneAtATime /\ [Next]_vars => OneAtATime'
<1> SUFFICES ASSUME TypeInv, OneAtATime, [Next]_vars PROVE OneAtATime'
  OBVIOUS
<1> USE DEF TypeInv, TypeOK, OneAtATime, OneUser, ReadUnderWay, ScanUnderWay,
            ReadReturnsRequested, InCall, ScanPending, Unstarted, IsConverting,
            InConverter, InRegister, InArray
<1>1. CASE ConversionDone
  <2>1. /\ IsConverting
        /\ converting' = NoSample
        /\ ts_irq' = TRUE
    BY <1>1 DEF ConversionDone
  <2>2. ~(Unstarted /\ ~gpi_interrupt_print)
    BY <2>1
  <2>3. converting.chan = adc_select
    <3>1. CASE gpi_interrupt_print
      BY <2>1, <3>1
    <3>2. CASE ~gpi_interrupt_print
      <4>1. PICK r \in Readers : pc[r] \in {"test", "asleep", "woken", "fetch"}
        BY <2>2, <3>2 DEF Places, OnCpu
      <4>2. InConverter(minor[r]) /\ adc_select = minor[r]
        BY <2>1, <4>1
      <4> QED BY <4>2
    <3> QED BY <3>1, <3>2
  <2>4. [converting EXCEPT !.chan = adc_select] = converting
    BY <2>3 DEF Sample
  <2>5. adc_value' = converting
    BY <1>1, <2>4 DEF ConversionDone
  <2>6. UNCHANGED <<statics, adc_select, gpi_irq, pc, files, printed, overrun>>
    BY <1>1 DEF ConversionDone
  <2>7. OneUser' /\ ReadReturnsRequested' /\ ~overrun'
    BY <2>6 DEF statics, files
  <2>8. ReadUnderWay'
    <3>1. ~(Unstarted /\ ~gpi_interrupt_print)'
      BY <2>2, <2>6 DEF statics
    <3>2. ASSUME NEW r \in Readers, pc[r] \in {"test", "asleep", "woken", "fetch"}
          PROVE  /\ adc_interrupt_handled' = FALSE
                 /\ InRegister(minor[r])'
                 /\ pc[r] \in {"test", "asleep"}
      BY <2>1, <2>5, <2>6, <3>2 DEF statics, NoSample, files
    <3> QED BY <2>6, <3>1, <3>2 DEF statics, files
  <2>9. ScanUnderWay'
    BY <2>1, <2>3, <2>5, <2>6 DEF statics, NoSample
  <2> QED BY <2>7, <2>8, <2>9
<1>2. CASE ButtonPress
  <2>1. Quiet
    BY <1>2, MayBeginSerially DEF ButtonPress
  <2> QED BY <1>2, <2>1 DEF ButtonPress, statics, adc, files, Quiet
<1>3. CASE GpInterrupt
  <2>1. /\ \A r \in Readers : pc[r] = "idle"
        /\ ~gpi_interrupt_print
    BY <1>3 DEF GpInterrupt
  <2>2. ~IsConverting /\ ~ts_irq
    BY <2>1
  <2>3. /\ adc_select' = 0
        /\ adc_channel' = 0
        /\ converting' = [chan |-> 0, fresh |-> TRUE]
    <3>1. AdcStart(0, FALSE)
      BY <1>3, <2>2 DEF GpInterrupt
    <3> QED BY <2>2, <3>1, AdcStartIdle, ChannelFacts
  <2> QED BY <1>3, <2>1, <2>2, <2>3, ChannelFacts DEF GpInterrupt, files, Channels
<1>4. CASE AdcInterrupt
  <2>1. PICK s \in Statics : ScanNext(s) \/ ScanDone(s) \/ WakeReaders(s)
    BY <1>4 DEF AdcInterrupt
  <2>2. StoreValue(s) /\ ts_irq
    BY <2>1 DEF ScanNext, ScanDone, WakeReaders, StoreValue
  <2>3. CASE gpi_interrupt_print
    <3>1. /\ adc_channel \in Channels
          /\ ~IsConverting
          /\ adc_value.chan = adc_channel
          /\ \A c \in Channels : c < adc_channel => printed[c] = c
          /\ \A r \in Readers : pc[r] = "idle"
          /\ ~gpi_irq
      BY <2>2, <2>3
    <3>2. /\ s.channel = adc_channel
          /\ s.print
          /\ ts_irq' = FALSE
          /\ adc_values' = [adc_values EXCEPT ![adc_channel] = adc_value]
          /\ UNCHANGED overrun
      BY <2>2, <2>3, <3>1, StoreInside
    <3>3. Incremented(s) = adc_channel + 1
      BY <3>1, <3>2, IncrementInside
    <3>4. printed' = [printed EXCEPT ![adc_channel] = adc_channel]
      BY <2>1, <3>1, <3>2 DEF ScanNext, ScanDone, WakeReaders, PrintValue
    <3>5. CASE ScanNext(s)
      <4>1. adc_channel + 1 \in Channels
        BY <3>1, <3>3, <3>5, ConstantsAssumption
           DEF ScanNext, ScanContinues, Channels, ConstantsAssumption
      <4>2. /\ adc_select' = adc_channel + 1
            /\ adc_channel' = adc_channel + 1
            /\ converting' = [chan |-> adc_channel + 1, fresh |-> TRUE]
        <5>1. AdcStart(adc_channel + 1, FALSE)
          BY <3>3, <3>5 DEF ScanNext
        <5> QED BY <3>1, <4>1, <5>1, AdcStartIdle
      <4>3. \A c \in Channels : c < adc_channel + 1 => printed'[c] = c
        BY <3>1, <3>4, ConstantsAssumption DEF Channels, ConstantsAssumption
      <4> QED BY <3>1, <3>2, <3>5, <4>1, <4>2, <4>3 DEF ScanNext, files
    <3>6. CASE ScanDone(s)
      BY <3>1, <3>2, <3>6 DEF ScanDone, files
    <3> QED BY <2>1, <3>2, <3>5, <3>6 DEF WakeReaders
  <2>4. CASE ~gpi_interrupt_print
    <3>1. PICK r \in Readers : pc[r] \in {"test", "asleep", "woken", "fetch"}
      BY <2>2, <2>4 DEF Places, OnCpu
    <3>2. /\ adc_channel = minor[r]
          /\ minor[r] \in Channels
          /\ adc_select = minor[r]
          /\ InRegister(minor[r])
          /\ pc[r] \in {"test", "asleep"}
          /\ \A q \in Readers : q # r => pc[q] = "idle"
          /\ ~gpi_irq
      BY <2>2, <3>1
    <3>3. /\ s.channel = adc_channel
          /\ ~s.print
          /\ ts_irq' = FALSE
          /\ adc_values' = [adc_values EXCEPT ![adc_channel] = adc_value]
          /\ UNCHANGED overrun
      BY <2>2, <2>4, <3>2, StoreInside
    <3>4. WakeReaders(s)
      BY <2>1, <3>3 DEF ScanNext, ScanDone
    <3>5. /\ pc'[r] \in {"test", "woken"}
          /\ \A q \in Readers : q # r => pc'[q] = "idle"
      BY <3>2, <3>4 DEF WakeReaders, Woken
    <3>6. adc_values'[minor[r]] = [chan |-> minor[r], fresh |-> TRUE]
      BY <3>2, <3>3
    <3> QED BY <2>4, <3>2, <3>3, <3>4, <3>5, <3>6 DEF WakeReaders, files
  <2> QED BY <2>3, <2>4
<1>5. ASSUME NEW r \in Readers, NEW m \in Channels, DeviceOpen(r, m)
      PROVE  OneAtATime'
  <2>1. pc[r] = "idle" /\ result[r] = NoResult /\ minor[r] = NoFile /\ NoFile \notin Channels
    BY <1>5, ChannelFacts DEF DeviceOpen, NoFile
  <2> QED BY <1>5, <2>1, ChannelFacts DEF DeviceOpen, statics, adc, NoFile, NoResult, Empty
<1>6. ASSUME NEW r \in Readers, DeviceRelease(r)
      PROVE  OneAtATime'
  BY <1>6, ChannelFacts DEF DeviceRelease, statics, adc, NoResult, Empty
<1>7. ASSUME NEW r \in Readers, ReadEof(r)
      PROVE  OneAtATime'
  BY <1>7 DEF ReadEof, statics, adc, NoResult, Empty
<1>8. ASSUME NEW r \in Readers, ReadEnter(r)
      PROVE  OneAtATime'
  <2>1. Quiet
    BY <1>8, MayBeginSerially DEF ReadEnter
  <2>2. ~IsConverting /\ ~ts_irq
    BY <2>1 DEF Quiet
  <2>3. ~IsConverting'
    BY <1>8, <2>2, SampleFacts DEF ReadEnter
  <2> QED BY <1>8, <2>1, <2>2, <2>3 DEF ReadEnter, ClearHandled, Quiet, NoResult, Empty
<1>9. ASSUME NEW r \in Readers, SelectChannel(r)
      PROVE  OneAtATime'
  BY <1>9 DEF SelectChannel, statics, files
<1>10. ASSUME NEW r \in Readers, NameChannel(r)
       PROVE  OneAtATime'
  BY <1>10 DEF NameChannel, adc, files
<1>11. ASSUME NEW r \in Readers, StrobeChannel(r)
       PROVE  OneAtATime'
  <2>1. ~IsConverting /\ ~ts_irq
    BY <1>11 DEF StrobeChannel
  <2>2. converting' = [chan |-> minor[r], fresh |-> TRUE]
    <3>1. Strobe(adc_select, FALSE)
      BY <1>11, <2>1 DEF StrobeChannel
    <3> QED BY <1>11, <2>1, <3>1, StrobeIdle DEF StrobeChannel
  <2> QED BY <1>11, <2>1, <2>2 DEF StrobeChannel, statics, files
<1>12. ASSUME NEW r \in Readers, WaitEvent(r)
       PROVE  OneAtATime'
  BY <1>12 DEF WaitEvent, statics, adc, files
<1>13. ASSUME NEW r \in Readers, WaitInterrupted(r)
       PROVE  OneAtATime'
  BY <1>13 DEF WaitInterrupted, Serial
<1>14. ASSUME NEW r \in Readers, ReadReturn(r)
       PROVE  OneAtATime'
  <2>1. Fetched = [chan |-> minor[r], fresh |-> TRUE]
    BY <1>14 DEF ReadReturn, Fetched
  <2>2. \A q \in Readers : pc'[q] = "idle"
    BY <1>14 DEF ReadReturn
  <2>3. ~IsConverting /\ ~ts_irq /\ ~ScanPending
    BY <1>14 DEF ReadReturn
  <2>4. ReadReturnsRequested' /\ minor[r] # NoFile
    <3>1. minor[r] # NoFile
      BY <1>14, ChannelFacts DEF ReadReturn, NoFile
    <3>2. result'[r].status = "value" => result'[r].value = Fetched
      BY <1>14 DEF ReadReturn, NoResult, Empty
    <3> QED BY <1>14, <2>1, <3>1, <3>2 DEF ReadReturn
  <2>5. \A q \in Readers : minor'[q] = NoFile => result'[q] = NoResult
    BY <1>14, <2>4 DEF ReadReturn
  <2> QED BY <1>14, <2>2, <2>3, <2>4, <2>5 DEF ReadReturn, statics, adc
<1>15. CASE UNCHANGED vars
  BY <1>15 DEF vars, statics, adc, files
<1> QED BY <1>1, <1>2, <1>3, <1>4, <1>5, <1>6, <1>7, <1>8, <1>9, <1>10, <1>11, <1>12,
           <1>13, <1>14, <1>15 DEF Next, ReadStep

\* Serial users get what they asked for: the value read() returns is of the
\* channel of the minor that was opened, converted after the call began.
THEOREM SerialReadsAreCorrect == ASSUME Serial PROVE Spec => []ReadReturnsRequested
<1>1. OneAtATime => ReadReturnsRequested
  BY DEF OneAtATime
<1> QED BY <1>1, TypeInit, TypeStep, SerialInit, SerialStep, PTL DEF Spec

\* The conjunction that carries the refinement is an invariant.
THEOREM SerialUseIsOrderly == Spec => []SerialInv
<1>1. CASE Serial
  <2>1. OneAtATime => SerialInv
    BY DEF SerialInv
  <2> QED BY <1>1, <2>1, TypeInit, TypeStep, SerialInit, SerialStep, PTL DEF Spec
<1>2. CASE ~Serial
  <2>1. SerialInv
    BY <1>2 DEF SerialInv
  <2> QED BY <2>1, PTL
<1> QED BY <1>1, <1>2

\* The step that ends a scan of serial use has printed every channel.
LEMMA ScanEndStep ==
  ASSUME Serial
  PROVE  TypeInv /\ OneAtATime /\ [Next]_vars =>
           [gpi_interrupt_print /\ ~gpi_interrupt_print' =>
              \A c \in Channels : printed'[c] = c]_vars
<1> SUFFICES ASSUME TypeInv, OneAtATime, [Next]_vars,
                    gpi_interrupt_print, ~gpi_interrupt_print'
             PROVE  \A c \in Channels : printed'[c] = c
  OBVIOUS
<1> USE DEF TypeInv, TypeOK
<1>1. AdcInterrupt
  BY DEF Next, ReadStep, vars, statics, ConversionDone, ButtonPress, GpInterrupt, DeviceOpen,
         DeviceRelease, ReadEof, ReadEnter, SelectChannel, NameChannel, StrobeChannel,
         WaitEvent, WaitInterrupted, ReadReturn
<1>2. PICK s \in Statics : ScanNext(s) \/ ScanDone(s) \/ WakeReaders(s)
  BY <1>1 DEF AdcInterrupt
<1>3. StoreValue(s) /\ ts_irq
  BY <1>2 DEF ScanNext, ScanDone, WakeReaders, StoreValue
<1>4. /\ adc_channel \in Channels
      /\ adc_value.chan = adc_channel
      /\ \A c \in Channels : c < adc_channel => printed[c] = c
  BY <1>3 DEF OneAtATime, ScanUnderWay, IsConverting
<1>5. /\ s.channel = adc_channel
      /\ s.print
      /\ adc_values' = [adc_values EXCEPT ![adc_channel] = adc_value]
  BY <1>3, <1>4, StoreInside
<1>6. ScanDone(s)
  BY <1>2, <1>5 DEF ScanNext, WakeReaders
<1>7. printed' = [printed EXCEPT ![adc_channel] = adc_channel]
  BY <1>4, <1>5, <1>6 DEF ScanDone, PrintValue
<1>8. adc_channel + 1 >= ADC_NUMCHANNELS
  BY <1>4, <1>5, <1>6, IncrementInside, ConstantsAssumption
     DEF ScanDone, ScanContinues, Channels, ConstantsAssumption
<1> QED BY <1>4, <1>7, <1>8, ConstantsAssumption DEF Channels, ConstantsAssumption

\* A scan that nobody disturbs prints every channel, each with its own value.
THEOREM SerialScansAreComplete == ASSUME Serial PROVE Spec => ScanPrintsAllChannels
BY TypeInit, TypeStep, SerialInit, SerialStep, ScanEndStep, PTL
   DEF Spec, ScanPrintsAllChannels

\* adc_interrupt stores outside adc_values only when readers and the button
\* overlap: without overlap, or without the button, it never does.
THEOREM OverrunNeedsOverlapAndButton ==
  ASSUME Serial \/ "button" \notin Env
  PROVE  Spec => []NoOverrun
<1>1. CASE Serial
  <2>1. OneAtATime => NoOverrun
    BY DEF OneAtATime, NoOverrun
  <2> QED BY <1>1, <2>1, TypeInit, TypeStep, SerialInit, SerialStep, PTL DEF Spec
<1>2. CASE "button" \notin Env
  <2>1. Init => WakeUpComes /\ NoOverrun
    BY ChannelFacts DEF Init, WakeUpComes, Waiting, NoOverrun
  <2>2. TypeInv /\ WakeUpComes /\ NoOverrun /\ [Next]_vars => NoOverrun'
    <3> SUFFICES ASSUME TypeInv, WakeUpComes, NoOverrun, [Next]_vars PROVE NoOverrun'
      OBVIOUS
    <3>1. ASSUME NEW s \in Statics, StoreValue(s)
          PROVE  UNCHANGED overrun
      BY <3>1, StoreInside DEF TypeInv, WakeUpComes
    <3> QED BY <3>1
            DEF NoOverrun, Next, ReadStep, vars, ConversionDone, ButtonPress, GpInterrupt,
                AdcInterrupt, ScanNext, ScanDone, WakeReaders, DeviceOpen, DeviceRelease,
                ReadEof, ReadEnter, SelectChannel, NameChannel, StrobeChannel, WaitEvent,
                WaitInterrupted, ReadReturn
  <2>3. TypeInv /\ WakeUpComes /\ [Next]_vars => WakeUpComes'
    BY <1>2, WakeUpStep
  <2> QED BY <2>1, <2>2, <2>3, TypeInit, TypeStep, PTL DEF Spec
<1> QED BY <1>1, <1>2

-----------------------------------------------------------------------------
(* Every step of the driver is a step of AdcService or invisible to it.      *)

Calling == {r \in Readers : InCall(r)}

\* A step that keeps everybody inside or outside of read().
LEMMA SameCalling ==
  ASSUME \A r \in Readers : (pc'[r] = "idle") <=> (pc[r] = "idle")
  PROVE  Calling' = Calling
BY DEF Calling, InCall

\* The constants of the abstract service are those of the driver.
LEMMA ServiceConstants ==
  /\ Service!Channels = Channels
  /\ Service!NoFile = NoFile
  /\ Service!Empty("none") = NoResult
  /\ Service!Empty("eof") = Empty("eof")
  /\ Service!Empty("fault") = Empty("fault")
BY DEF Service!Channels, Channels, Service!NoFile, NoFile, Service!Empty, Service!Nothing,
       NoResult, Empty, NoSample

\* The initial states are initial states of the service.
LEMMA ServiceInit == Init => Service!Init
<1> SUFFICES ASSUME Init PROVE Service!Init
  OBVIOUS
<1>1. {r \in Readers : InCall(r)} = {}
  BY DEF Init, InCall
<1>2. Scan = -2
  BY DEF Init, Scan
<1> QED BY <1>1, <1>2, ServiceConstants DEF Init, Service!Init, Service!Off

\* Every step of serial use is a step of the service or a stutter.
LEMMA ServiceStep ==
  ASSUME Serial
  PROVE  TypeInv /\ OneAtATime /\ [Next]_vars => [Service!Next]_(Service!vars)
<1> SUFFICES ASSUME TypeInv, OneAtATime, [Next]_vars
             PROVE  Service!Next \/ UNCHANGED Service!vars
  OBVIOUS
<1> USE DEF TypeInv, TypeOK, OneAtATime, Service!vars, Scan
<1>1. CASE ConversionDone
  BY <1>1 DEF ConversionDone, statics, files, InCall
<1>2. CASE ButtonPress
  <2>1. Quiet
    BY <1>2, MayBeginSerially DEF ButtonPress
  <2>2. Service!Press
    BY <1>2, <2>1 DEF ButtonPress, Quiet, ScanPending, statics, files, InCall,
                      Service!Press, Service!Idle, Service!Off, Service!Requested
  <2> QED BY <2>2 DEF Service!Next
<1>3. CASE GpInterrupt
  <2>1. adc_channel' = 0
    BY <1>3, ConstantsAssumption DEF GpInterrupt, AdcStart, ConstantsAssumption
  <2>2. Service!ScanStart
    BY ServiceConstants, <1>3, <2>1 DEF GpInterrupt, files, InCall, Service!ScanStart, Service!Requested
  <2> QED BY <2>2 DEF Service!Next
<1>4. CASE AdcInterrupt
  <2>1. PICK s \in Statics : ScanNext(s) \/ ScanDone(s) \/ WakeReaders(s)
    BY <1>4 DEF AdcInterrupt
  <2>2. StoreValue(s) /\ ts_irq
    BY <2>1 DEF ScanNext, ScanDone, WakeReaders, StoreValue
  <2>3. CASE gpi_interrupt_print
    <3>1. /\ adc_channel \in Channels
          /\ adc_value.chan = adc_channel
          /\ ~gpi_irq
      BY <2>2, <2>3 DEF ScanUnderWay, OneUser, IsConverting
    <3>2. /\ s.channel = adc_channel
          /\ s.print
          /\ adc_values' = [adc_values EXCEPT ![adc_channel] = adc_value]
      BY <2>2, <2>3, <3>1, StoreInside
    <3>3. Incremented(s) = adc_channel + 1
      BY <3>1, <3>2, IncrementInside
    <3>4. printed' = [printed EXCEPT ![adc_channel] = adc_channel]
      BY <2>1, <3>1, <3>2 DEF ScanNext, ScanDone, WakeReaders, PrintValue
    <3>5. adc_channel + 1 \in Channels <=> ScanContinues(adc_channel + 1)
      BY <3>1, ConstantsAssumption DEF ScanContinues, Channels, ConstantsAssumption
    <3>6. /\ Scan = adc_channel
          /\ Scan' = IF adc_channel + 1 \in Channels THEN adc_channel + 1 ELSE -2
      <4>1. CASE ScanNext(s)
        <5>1. AdcStart(adc_channel + 1, FALSE) /\ adc_channel + 1 \in Channels
          BY <3>3, <3>5, <4>1 DEF ScanNext
        <5>2. adc_channel' = adc_channel + 1
          BY <5>1, ConstantsAssumption DEF AdcStart, Channels, ConstantsAssumption
        <5> QED BY <2>3, <3>1, <4>1, <5>1, <5>2 DEF ScanNext
      <4>2. CASE ScanDone(s)
        BY <2>3, <3>1, <3>3, <3>5, <4>2 DEF ScanDone
      <4> QED BY <2>1, <3>2, <4>1, <4>2 DEF WakeReaders
    <3>7. UNCHANGED <<minor, f_pos, result, pc>>
      BY <2>1, <3>2 DEF ScanNext, ScanDone, WakeReaders, files
    <3>8. Service!PrintOne
      BY ServiceConstants, <3>1, <3>4, <3>6, <3>7 DEF Service!PrintOne, Service!Off, InCall
    <3> QED BY <3>8 DEF Service!Next
  <2>4. CASE ~gpi_interrupt_print
    <3>1. PICK r \in Readers : pc[r] \in {"test", "asleep", "woken", "fetch"}
      BY <2>2, <2>4 DEF Places, OnCpu, ReadUnderWay, Unstarted
    <3>2. adc_channel \in Channels
      BY <3>1 DEF ReadUnderWay, OneUser, InCall
    <3>3. ~s.print
      BY <2>2, <2>4, <3>2, StoreInside
    <3>4. WakeReaders(s)
      BY <2>1, <3>3 DEF ScanNext, ScanDone
    <3>5. Calling' = Calling
      BY <3>4, SameCalling DEF WakeReaders, Woken
    <3> QED BY <2>4, <3>4, <3>5 DEF WakeReaders, files, Calling
  <2> QED BY <2>3, <2>4
<1>5. ASSUME NEW r \in Readers, NEW m \in Channels, DeviceOpen(r, m)
      PROVE  Service!Next
  <2>1. Service!Open(r, m)
    BY ServiceConstants, <1>5 DEF DeviceOpen, statics, InCall, Service!Open
  <2> QED BY ServiceConstants, <2>1 DEF Service!Next
<1>6. ASSUME NEW r \in Readers, DeviceRelease(r)
      PROVE  Service!Next
  <2>1. Service!Release(r)
    BY ServiceConstants, <1>6 DEF DeviceRelease, statics, InCall, Service!Release
  <2> QED BY <2>1 DEF Service!Next
<1>7. ASSUME NEW r \in Readers, ReadEof(r)
      PROVE  Service!Next
  <2>1. f_pos[r] = 1
    BY <1>7 DEF ReadEof
  <2>2. Service!EndOfFile(r)
    BY <2>1, ServiceConstants, <1>7 DEF ReadEof, statics, InCall, Service!EndOfFile
  <2> QED BY <2>2 DEF Service!Next
<1>8. ASSUME NEW r \in Readers, ReadEnter(r)
      PROVE  Service!Next
  <2>1. Quiet
    BY <1>8, MayBeginSerially DEF ReadEnter
  <2>2. Calling = {} /\ Calling' = {r}
    BY <1>8, <2>1 DEF ReadEnter, Calling, Quiet, InCall
  <2>3. Service!Call(r)
    BY ServiceConstants, <1>8, <2>1, <2>2 DEF ReadEnter, Quiet, ScanPending, Calling,
                                  Service!Call, Service!Idle, Service!Off
  <2> QED BY <2>3 DEF Service!Next
<1>9. ASSUME NEW r \in Readers,
             SelectChannel(r) \/ NameChannel(r) \/ StrobeChannel(r) \/ WaitEvent(r)
      PROVE  UNCHANGED Service!vars
  <2>1. Calling' = Calling
    BY <1>9, SameCalling DEF SelectChannel, NameChannel, StrobeChannel, WaitEvent
  <2>2. ~gpi_interrupt_print /\ ~gpi_irq
    BY <1>9 DEF SelectChannel, NameChannel, StrobeChannel, WaitEvent, OneUser, InCall, ScanPending
  <2>3. UNCHANGED <<minor, f_pos, result, printed, gpi_interrupt_print, gpi_irq>>
    <3>1. CASE SelectChannel(r)
      BY <3>1 DEF SelectChannel, statics, files
    <3>2. CASE NameChannel(r)
      BY <3>2 DEF NameChannel, files
    <3>3. CASE StrobeChannel(r)
      BY <3>3 DEF StrobeChannel, statics, files
    <3>4. CASE WaitEvent(r)
      BY <3>4 DEF WaitEvent, statics, files
    <3> QED BY <1>9, <3>1, <3>2, <3>3, <3>4
  <2> QED BY <2>1, <2>2, <2>3 DEF Calling
<1>10. ASSUME NEW r \in Readers, WaitInterrupted(r)
       PROVE  FALSE
  BY <1>10 DEF WaitInterrupted, Serial
<1>11. ASSUME NEW r \in Readers, ReadReturn(r)
       PROVE  Service!Next
  <2>1. pc[r] = "fetch"
    BY <1>11 DEF ReadReturn
  <2>2. /\ adc_channel = minor[r]
        /\ minor[r] \in Channels
        /\ InArray(minor[r])
        /\ ~gpi_interrupt_print /\ ~gpi_irq
    BY <2>1 DEF ReadUnderWay, OneUser, InCall, ScanPending
  <2>3. [status |-> "value", value |-> Fetched] = Service!Value(minor[r])
    BY <2>2 DEF Fetched, InArray, Service!Value
  <2>4. r \in Calling /\ Calling' = Calling \ {r}
    BY <1>11 DEF ReadReturn, Calling, InCall
  <2>5. Service!Return(r)
    BY ServiceConstants, <1>11, <2>2, <2>3, <2>4 DEF ReadReturn, statics, Calling, Service!Return
  <2> QED BY <2>5 DEF Service!Next
<1>12. CASE UNCHANGED vars
  BY <1>12 DEF vars, statics, files, InCall
<1> QED BY <1>1, <1>2, <1>3, <1>4, <1>5, <1>6, <1>7, <1>8, <1>9, <1>10, <1>11, <1>12
        DEF Next, ReadStep

\* The abstraction: for any number of readers and channels, a serially used
\* driver does only what AdcService allows.
THEOREM DriverImplementsService == ASSUME Serial PROVE Spec => ImplementsServiceSafely
<1>1. Init => Service!Init
  BY ServiceInit
<1>2. TypeInv /\ OneAtATime /\ [Next]_vars => [Service!Next]_(Service!vars)
  BY ServiceStep
<1> QED BY <1>1, <1>2, TypeInit, TypeStep, SerialInit, SerialStep, PTL
        DEF Spec, ImplementsServiceSafely, Service!Spec

=============================================================================
