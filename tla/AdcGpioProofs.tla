---------------------------- MODULE AdcGpioProofs ----------------------------
(***************************************************************************)
(* The pins of the measurement build show the scan, for every number of    *)
(* threads and channels and everything the environment may do.             *)
(***************************************************************************)
EXTENDS AdcGpio, AdcProofs

\* The pin of the channel a scan has reached is high, or a reader that named
\* this channel has still to set it.
MarkInv ==
  gpi_interrupt_print =>
    \/ myBit(adc_channel) \in p2_outp
    \/ \E r \in Readers : (pc[r] = "strobe" \/ r \in marking) /\ minor[r] = adc_channel

\* What the measurement build does is what the driver does, or nothing.
LEMMA BuildStepsAreDriverSteps ==
  ASSUME [GpioNext]_gpioVars
  PROVE  [Next]_vars
<1>1. MarkedGpInterrupt => GpInterrupt
  BY DEF MarkedGpInterrupt
<1>2. MarkedAdcInterrupt => AdcInterrupt
  BY DEF MarkedAdcInterrupt, AdcInterrupt
<1>3. ASSUME NEW r \in Readers, MarkedStrobe(r) \/ Mark(r) \/ UnmarkedStep(r)
      PROVE  [Next]_vars
  BY <1>3 DEF MarkedStrobe, Mark, UnmarkedStep, Next, ReadStep
<1> QED
  BY <1>1, <1>2, <1>3 DEF GpioNext, gpioVars, Next

\* Every step of the measurement build keeps the mark of a running scan.
LEMMA MarkStep ==
  ASSUME TypeInv, MarkInv, [GpioNext]_gpioVars
  PROVE  MarkInv'
<1> DEFINE Owes(r) == (pc[r] = "strobe" \/ r \in marking) /\ minor[r] = adc_channel
<1>1. CASE MarkedGpInterrupt
  <2>1. adc_channel' = 0 /\ myBit(0) \in p2_outp'
    BY <1>1, ConstantsAssumption DEF MarkedGpInterrupt, GpInterrupt, AdcStart
  <2> QED
    BY <2>1 DEF MarkInv, myBit
<1>2. CASE MarkedAdcInterrupt
  <2>1. CASE p2_outp' = ClearedFirst(p2_outp, {myBit(adc_channel')})
    <3>1. myBit(adc_channel') \in p2_outp'
      BY <2>1 DEF ClearedFirst
    <3> QED
      BY <3>1 DEF MarkInv, myBit
  <2>2. ASSUME NEW s \in Statics, ScanDone(s) \/ WakeReaders(s) PROVE MarkInv'
    BY <2>2 DEF ScanDone, WakeReaders, MarkInv
  <2> QED
    BY <1>2, <2>1, <2>2 DEF MarkedAdcInterrupt
<1>3. CASE (ConversionDone \/ ButtonPress) /\ UNCHANGED <<p2_outp, marking>>
  BY <1>3 DEF ConversionDone, ButtonPress, MarkInv, statics, files, adc, myBit
<1>4. ASSUME NEW q \in Readers, MarkedStrobe(q) PROVE MarkInv'
  <2>1. /\ pc' = [pc EXCEPT ![q] = "test"] /\ marking' = marking \cup {q}
        /\ UNCHANGED <<p2_outp, adc_channel, gpi_interrupt_print, minor>>
    BY <1>4 DEF MarkedStrobe, StrobeChannel, statics, files
  <2>2. \A r \in Readers : Owes(r) => Owes(r)'
    BY <2>1 DEF TypeInv, TypeOK
  <2> QED
    BY <2>1, <2>2 DEF MarkInv, myBit
<1>5. ASSUME NEW q \in Readers, Mark(q) PROVE MarkInv'
  <2>1. \A r \in Readers : Owes(r) => Owes(r)' \/ myBit(adc_channel) \in p2_outp'
    BY <1>5 DEF Mark, vars, files, statics
  <2> QED
    BY <1>5, <2>1 DEF Mark, MarkInv, vars, files, statics, myBit
<1>6. ASSUME NEW q \in Readers, UnmarkedStep(q) PROVE MarkInv'
  <2>1. CASE NameChannel(q)
    <3>1. Owes(q)'
      BY <2>1 DEF NameChannel, files, TypeInv, TypeOK
    <3> QED
      BY <3>1 DEF MarkInv
  <2>2. CASE ~NameChannel(q)
    <3>1. UNCHANGED <<adc_channel, gpi_interrupt_print, p2_outp, marking>>
      BY <1>6, <2>2 DEF UnmarkedStep, DeviceOpen, DeviceRelease, ReadEof, ReadEnter, SelectChannel,
         WaitEvent, WaitInterrupted, ReadReturn, statics
    <3>2. \A r \in Readers \ {q} : minor'[r] = minor[r] /\ pc'[r] = pc[r]
      BY <1>6, <2>2 DEF UnmarkedStep, DeviceOpen, DeviceRelease, ReadEof, ReadEnter, SelectChannel,
         WaitEvent, WaitInterrupted, ReadReturn, files, TypeInv, TypeOK
    <3>3. ~Owes(q)
      <4>1. q \notin marking
        BY <1>6 DEF UnmarkedStep
      <4>2. CASE pc[q] # "strobe"
        BY <4>1, <4>2
      <4>3. CASE pc[q] = "strobe"
        <5>1. minor[q] # NoFile
          BY <4>3 DEF TypeInv, FilesOpen, InCall
        <5> QED
          BY <1>6, <2>2, <4>3, <5>1 DEF UnmarkedStep, DeviceOpen, DeviceRelease, ReadEof, ReadEnter,
             SelectChannel, WaitEvent, WaitInterrupted, ReadReturn, InCall
      <4> QED
        BY <4>2, <4>3
    <3>4. \A r \in Readers : Owes(r) => Owes(r)'
      BY <3>1, <3>2, <3>3
    <3> QED
      BY <3>1, <3>4 DEF MarkInv, myBit
  <2> QED
    BY <2>1, <2>2
<1>7. CASE UNCHANGED gpioVars
  BY <1>7 DEF gpioVars, vars, files, statics, MarkInv, myBit
<1> QED
  BY <1>1, <1>2, <1>3, <1>4, <1>5, <1>6, <1>7 DEF GpioNext

\* Whatever readers and the button do, the pin of the channel a scan has reached
\* is high, unless a reader is about to set the pin of the channel it named.
THEOREM ScanIsMarked == GpioSpec => []ScanMarked
<1>1. GpioInit => TypeInv /\ MarkInv
  BY TypeInit DEF GpioInit, Init, MarkInv
<1>2. TypeInv /\ MarkInv /\ [GpioNext]_gpioVars => TypeInv' /\ MarkInv'
  BY TypeStep, MarkStep, BuildStepsAreDriverSteps
<1>3. MarkInv => ScanMarked
  BY DEF MarkInv, ScanMarked
<1> QED
  BY <1>1, <1>2, <1>3, PTL DEF GpioSpec

=============================================================================
