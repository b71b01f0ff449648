---------------------------- MODULE LpcIrqProofs ----------------------------
(***************************************************************************)
(* Proofs about LpcIrq: interrupts stay deliverable, the wake-up sources   *)
(* are armed, and the file wakeup_event names the one event that woke the  *)
(* system, for every set of interrupts.                                    *)
(***************************************************************************)
EXTENDS LpcIrq, TLAPS

\* The start controller and wakeup_irqs follow what the kernel asked for: the
\* chain of a controller is in wakeup_irqs as long as one of its interrupts is.
WakeInv ==
  /\ start_er = woken \cap Events
  /\ start_apr = apr \cap Events
  /\ wakeup_irqs = woken \cup {SubIrq(Controller(irq)) : irq \in woken}

\* What suspend has saved and set up for the sleep, which no handler interrupts.
SleepInv ==
  power # "awake" =>
    /\ (requested \ raced) \cup SubIrqs \subseteq backup_irqs
    /\ er = IF power = "standby" THEN wakeup_irqs ELSE {}
    /\ start_rs = events \cap Events
    /\ ints = {}

\* What adc_init writes back has every interrupt that was in use when it read it.
WriteBackInv == sic1 # Nothing => {irq \in requested \ raced : Controller(irq) = 1} \subseteq sic1

IrqInv == TypeOK /\ Deliverable /\ WakeInv /\ SleepInv /\ WriteBackInv

-----------------------------------------------------------------------------

\* The interrupts of the two chains are those of the MIC, and no others.
LEMMA SubIrqFacts ==
  /\ \A irq \in Irqs : irq \notin SubIrqs /\ irq \in AllIrqs
  /\ \A c : SubIrq(c) \in SubIrqs
  /\ \A irq \in SubIrqs : Controller(irq) = 0 /\ irq \in AllIrqs
  /\ \A a, b \in Irqs : SubIrq(Controller(a)) = SubIrq(Controller(b)) => Controller(a) = Controller(b)
  /\ Events \subseteq AllIrqs /\ 0 \notin Events
<1>1. \A irq \in Irqs : irq \in AllIrqs /\ Controller(irq) \in {1, 2}
  BY IrqsAssumption
<1>2. \A irq \in SubIrqs : Controller(irq) = 0 /\ irq \in AllIrqs
  BY DEF SubIrqs, SUB1IRQ, SUB2IRQ, Controller, AllIrqs, NR_IRQS
<1>3. Events \subseteq AllIrqs /\ 0 \notin Events
  BY DEF Events, PinEvents, IntEvents, AllIrqs, NR_IRQS
<1>4. \A irq \in Irqs : irq \notin SubIrqs
  <2>1. 1 # 0 /\ 2 # 0
    OBVIOUS
  <2>2. QED  BY <1>1, <1>2, <2>1
<1>5. \A c : SubIrq(c) \in SubIrqs
  BY DEF SubIrq, SubIrqs
<1>6. \A a, b \in Irqs : SubIrq(Controller(a)) = SubIrq(Controller(b)) => Controller(a) = Controller(b)
  BY <1>1 DEF SubIrq, SUB1IRQ, SUB2IRQ
<1>7. QED  BY <1>1, <1>2, <1>3, <1>4, <1>5, <1>6

\* lpc32xx_init_irq establishes the invariant.
LEMMA IrqInit == Init => IrqInv
<1> SUFFICES ASSUME Init PROVE IrqInv
  OBVIOUS
<1>1. DefaultApr \subseteq AllIrqs /\ SIC1_ATR_DEFAULT \subseteq AllIrqs
  BY DEF DefaultApr, MIC_APR_DEFAULT, SIC1_APR_DEFAULT, SIC2_APR_DEFAULT, SIC1_ATR_DEFAULT,
         AllIrqs, NR_IRQS
<1>2. {SUB1IRQ, SUB2IRQ, SUB1FIQ, SUB2FIQ} \subseteq AllIrqs
  BY DEF SUB1IRQ, SUB2IRQ, SUB1FIQ, SUB2FIQ, AllIrqs, NR_IRQS
<1>3. TypeOK
  BY <1>1, <1>2 DEF Init, TypeOK
<1>4. Deliverable /\ WakeInv /\ SleepInv /\ WriteBackInv
  BY DEF Init, Deliverable, WakeInv, SleepInv, WriteBackInv, SubIrqs
<1>5. QED  BY <1>3, <1>4 DEF IrqInv

\* Every step of the drivers, the handlers and the sleep keeps the invariant.
LEMMA IrqNext ==
  ASSUME IrqInv, [Next]_vars
  PROVE  IrqInv'
<1> USE DEF IrqInv
<1>1. ASSUME NEW irq \in Irqs, Raise(irq)
      PROVE  IrqInv'
  <2>1. TypeOK'
    BY <1>1 DEF Raise, TypeOK, statics, adcInit, handlers
  <2>2. Deliverable' /\ WakeInv' /\ WriteBackInv'
    BY <1>1 DEF Raise, Deliverable, WakeInv, WriteBackInv, statics, adcInit, handlers
  <2>3. SleepInv'
    BY <1>1 DEF Raise, SleepInv, statics, adcInit, handlers
  <2> QED  BY <2>1, <2>2, <2>3
<1>2. ASSUME NEW irq \in Irqs, Withdraw(irq)
      PROVE  IrqInv'
  BY <1>2 DEF Withdraw, TypeOK, Deliverable, WakeInv, SleepInv, WriteBackInv, startRegs, statics, kernel, adcInit, handlers
<1>3. ASSUME NEW irq \in Irqs, FreeIrq(irq)
      PROVE  IrqInv'
  <2>1. TypeOK'
    BY <1>3 DEF FreeIrq, TypeOK, startRegs, statics, adcInit, handlers
  <2>2. irq \notin SubIrqs
    BY SubIrqFacts
  <2>3. Deliverable' /\ WakeInv' /\ WriteBackInv' /\ SleepInv'
    BY <1>3, <2>2 DEF FreeIrq, InProcess, Deliverable, WakeInv, WriteBackInv, SleepInv, startRegs, statics, adcInit, handlers
  <2> QED  BY <2>1, <2>3
<1>4. ASSUME NEW r \in Requests, RequestIrq(r)
      PROVE  IrqInv'
  <2>1. r.irq \in Irqs /\ r.irq \in AllIrqs
    BY IrqsAssumption, SubIrqFacts
  <2>2. /\ apr' \subseteq AllIrqs /\ atr' \subseteq AllIrqs
        /\ start_apr' = apr' \cap Events
    BY <1>4, <2>1 DEF RequestIrq, SetIrqType, EventPolarity, WithBit, TypeOK, WakeInv
  <2>3. TypeOK'
    BY <1>4, <2>1, <2>2 DEF RequestIrq, TypeOK, statics, adcInit
  <2>4. Deliverable' /\ WriteBackInv' /\ SleepInv'
    BY <1>4 DEF RequestIrq, InProcess, Deliverable, WriteBackInv, SleepInv, statics, adcInit
  <2>5. WakeInv'
    BY <1>4, <2>2 DEF RequestIrq, WakeInv, statics
  <2> QED  BY <2>3, <2>4, <2>5
<1>5. ASSUME NEW irq \in Wakers, EnableWake(irq)
      PROVE  IrqInv'
  <2>1. irq \in Irqs /\ SubIrq(Controller(irq)) \in SubIrqs
    BY IrqsAssumption, SubIrqFacts
  <2>2. TypeOK'
    BY <1>5, <2>1 DEF EnableWake, EventOf, TypeOK, controllers, adcInit, handlers
  <2>3. WakeInv'
    <3>1. wakeup_irqs' = woken' \cup {SubIrq(Controller(i)) : i \in woken'}
      BY <1>5 DEF EnableWake, WakeInv
    <3> QED  BY <1>5, <3>1 DEF EnableWake, EventOf, WakeInv, controllers
  <2>4. Deliverable' /\ WriteBackInv' /\ SleepInv'
    BY <1>5 DEF EnableWake, InProcess, Deliverable, WriteBackInv, SleepInv, controllers, adcInit, handlers
  <2> QED  BY <2>2, <2>3, <2>4
<1>6. ASSUME NEW irq \in Wakers, DisableWake(irq)
      PROVE  IrqInv'
  <2>1. irq \in Irqs /\ woken \subseteq Irqs
    BY IrqsAssumption DEF TypeOK
  <2>2. TypeOK'
    BY <1>6 DEF DisableWake, TypeOK, controllers, adcInit, handlers
  <2>3. wakeup_irqs' = woken' \cup {SubIrq(Controller(i)) : i \in woken'}
    <3>1. \A other \in wakeup_irqs : Controller(other) = Controller(irq) => other \in woken
      <4>1. Controller(irq) # 0
        BY <2>1, IrqsAssumption
      <4>2. \A i \in woken : Controller(SubIrq(Controller(i))) = 0
        BY SubIrqFacts
      <4> QED  BY <4>1, <4>2 DEF WakeInv
    <3>2. \A i \in woken : SubIrq(Controller(i)) \notin Irqs
      BY SubIrqFacts
    <3>3. \A i \in woken : SubIrq(Controller(i)) = SubIrq(Controller(irq))
                             => Controller(i) = Controller(irq)
      BY <2>1, SubIrqFacts
    <3>4. CASE \E other \in wakeup_irqs \ {irq} : Controller(other) = Controller(irq)
      <4>1. PICK other \in woken \ {irq} : Controller(other) = Controller(irq)
        BY <3>1, <3>4
      <4>2. wakeup_irqs' = wakeup_irqs \ {irq}
        BY <1>6, <3>4 DEF DisableWake, Unneeded
      <4> QED  BY <1>6, <2>1, <3>2, <4>1, <4>2 DEF DisableWake, WakeInv
    <3>5. CASE ~\E other \in wakeup_irqs \ {irq} : Controller(other) = Controller(irq)
      <4>1. wakeup_irqs' = wakeup_irqs \ {irq, SubIrq(Controller(irq))}
        BY <1>6, <3>5 DEF DisableWake, Unneeded, AlwaysUnneeded
      <4>2. \A i \in woken \ {irq} : SubIrq(Controller(i)) # SubIrq(Controller(irq))
        BY <3>3, <3>5 DEF WakeInv
      <4>3. SubIrq(Controller(irq)) \notin woken
        BY <2>1, SubIrqFacts
      <4> QED  BY <1>6, <2>1, <3>2, <4>1, <4>2, <4>3 DEF DisableWake, WakeInv
    <3> QED  BY <3>4, <3>5
  <2>4. WakeInv'
    BY <1>6, <2>3 DEF DisableWake, WakeInv, controllers
  <2>5. Deliverable' /\ WriteBackInv' /\ SleepInv'
    BY <1>6 DEF DisableWake, InProcess, Deliverable, WriteBackInv, SleepInv, controllers, adcInit, handlers
  <2> QED  BY <2>2, <2>4, <2>5
<1>7. ASSUME NEW controller \in {1, 2}, EnterChained(controller)
      PROVE  IrqInv'
  BY <1>7 DEF EnterChained, Stat, InProcess, TypeOK, Deliverable, WakeInv, SleepInv, WriteBackInv,
              controllers, startRegs, statics, adcInit, handlers
<1>8. ASSUME HandleChained
      PROVE  IrqInv'
  <2>1. PICK irq \in ints : HandleLevelIrq(irq) /\ ints' = ints \ {irq}
    BY <1>8 DEF HandleChained, Snapshot
  <2>2. irq \in Irqs /\ irq \notin SubIrqs /\ irq \in AllIrqs
    BY SubIrqFacts DEF TypeOK
  <2>3. power = "awake"
    BY <2>1 DEF SleepInv
  <2>4. TypeOK'
    BY <2>1, <2>2 DEF HandleLevelIrq, Acked, TypeOK, statics, adcInit, handlers
  <2>5. Deliverable' /\ WriteBackInv'
    BY <2>1, <2>2 DEF HandleLevelIrq, Deliverable, WriteBackInv, statics, adcInit, handlers
  <2>6. WakeInv' /\ SleepInv'
    BY <2>1, <2>3 DEF HandleLevelIrq, WakeInv, SleepInv, statics, adcInit, handlers
  <2> QED  BY <2>4, <2>5, <2>6
<1>9. ASSUME AdcReadEr
      PROVE  IrqInv'
  <2>1. TypeOK'
    BY <1>9 DEF AdcReadEr, TypeOK, controllers, startRegs, statics, adcInit, handlers
  <2> QED
    BY <1>9, <2>1 DEF AdcReadEr, InProcess, Deliverable, WakeInv, SleepInv, WriteBackInv,
                      controllers, startRegs, statics, adcInit, handlers
<1>10. ASSUME AdcWriteEr
       PROVE  IrqInv'
  <2>1. ADC_INT \subseteq AllIrqs
    BY DEF ADC_INT, AllIrqs, NR_IRQS
  <2>2. TypeOK'
    BY <1>10, <2>1 DEF AdcWriteEr, TypeOK, startRegs, statics, adcInit, handlers
  <2>3. \A irq \in SubIrqs : Controller(irq) # 1
    BY SubIrqFacts
  <2>4. Deliverable'
    BY <1>10, <2>3 DEF AdcWriteEr, InProcess, Deliverable, WriteBackInv, handlers
  <2>5. WakeInv' /\ SleepInv' /\ WriteBackInv'
    BY <1>10 DEF AdcWriteEr, InProcess, WakeInv, SleepInv, WriteBackInv, startRegs, statics, adcInit, handlers
  <2> QED  BY <2>2, <2>4, <2>5
<1>11. ASSUME AdcReadAtr
       PROVE  IrqInv'
  <2>1. TypeOK'
    BY <1>11 DEF AdcReadAtr, TypeOK, controllers, startRegs, statics, handlers
  <2> QED
    BY <1>11, <2>1 DEF AdcReadAtr, InProcess, Deliverable, WakeInv, SleepInv, WriteBackInv,
                       controllers, startRegs, statics, handlers
<1>12. ASSUME NEW state \in {"standby", "mem"}, Suspend(state)
       PROVE  IrqInv'
  <2>1. wakeup_irqs \subseteq AllIrqs
    BY IrqsAssumption, SubIrqFacts DEF TypeOK
  <2>2. TypeOK'
    BY <1>12, <2>1 DEF Suspend, Backup, ClearEvents, TypeOK, adcInit, handlers
  <2>3. Deliverable' /\ WakeInv' /\ WriteBackInv'
    BY <1>12 DEF Suspend, Deliverable, WakeInv, WriteBackInv, adcInit, handlers
  <2>4. SleepInv'
    BY <1>12 DEF Suspend, Backup, ClearEvents, InProcess, Deliverable, SleepInv, adcInit, handlers
  <2> QED  BY <2>2, <2>3, <2>4
<1>13. ASSUME Resume
       PROVE  IrqInv'
  <2>1. WakeupIrq \in Events \cup {NotWoken}
    BY DEF WakeupIrq, TypeOK
  <2>2. TypeOK'
    BY <1>13, <2>1 DEF Resume, TypeOK, adcInit, handlers
  <2>3. Deliverable' /\ WakeInv' /\ SleepInv' /\ WriteBackInv'
    BY <1>13 DEF Resume, Deliverable, WakeInv, SleepInv, WriteBackInv, adcInit, handlers
  <2> QED  BY <2>2, <2>3
<1>14. CASE UNCHANGED vars
  BY <1>14 DEF vars, controllers, startRegs, statics, kernel, adcInit, handlers, TypeOK, Deliverable, WakeInv,
               SleepInv, WriteBackInv
<1>15. ASSUME AdcWriteAtr
       PROVE  IrqInv'
  <2>1. GPI_01 \in AllIrqs
    BY DEF GPI_01, AllIrqs, NR_IRQS
  <2>2. TypeOK'
    BY <1>15, <2>1 DEF AdcWriteAtr, TypeOK, startRegs, statics, handlers
  <2> QED
    BY <1>15, <2>2 DEF AdcWriteAtr, InProcess, Deliverable, WakeInv, SleepInv, WriteBackInv,
                       startRegs, statics, handlers
<1> QED
  BY <1>1, <1>2, <1>3, <1>4, <1>5, <1>6, <1>7, <1>8, <1>9, <1>10, <1>11, <1>12, <1>13, <1>14, <1>15 DEF Next

\* The invariant holds in every state.
THEOREM IrqInvariant == Spec => []IrqInv
<1>1. Init => IrqInv
  BY IrqInit
<1>2. IrqInv /\ [Next]_vars => IrqInv'
  BY IrqNext
<1> QED  BY <1>1, <1>2, PTL DEF Spec

-----------------------------------------------------------------------------

\* The registers and tables keep their types, for every set of interrupts.
THEOREM TypeCorrect == Spec => []TypeOK
BY IrqInvariant, PTL DEF IrqInv

\* An awake system delivers the interrupts of its drivers, after any number of
\* handlers, sleeps and reloads of adc.c, but for those requested while adc_init
\* was between reading and writing SIC1_ER.
THEOREM InterruptsStayDeliverable == Spec => []Deliverable
BY IrqInvariant, PTL DEF IrqInv

\* A sleeping system is woken by what it was asked to be woken by.
THEOREM SleepersAreArmed == Spec => []WakersArmed
<1>1. IrqInv => WakersArmed
  <2> SUFFICES ASSUME IrqInv, power # "awake"
               PROVE  WakersArmed
    BY DEF WakersArmed
  <2>1. /\ start_er = woken \cap Events
        /\ \A irq \in start_er : irq \in start_apr <=> irq \in apr
    BY DEF IrqInv, WakeInv
  <2>2. woken \subseteq Irqs /\ \A irq \in woken : irq \notin SubIrqs
    BY IrqsAssumption, SubIrqFacts DEF IrqInv, TypeOK
  <2>3. CASE power = "standby"
    <3>1. er = wakeup_irqs
      BY <2>3 DEF IrqInv, SleepInv
    <3>2. er \ SubIrqs = woken
      BY <2>2, <3>1, SubIrqFacts DEF IrqInv, WakeInv
    <3>3. \A irq \in woken : Reaches(irq)
      BY <3>1 DEF IrqInv, WakeInv, Reaches
    <3> QED  BY <2>1, <2>3, <3>2, <3>3 DEF WakersArmed
  <2>4. CASE power # "standby"
    BY <2>1, <2>4 DEF IrqInv, SleepInv, WakersArmed
  <2> QED  BY <2>3, <2>4
<1> QED  BY <1>1, IrqInvariant, PTL

\* The one event that wakes the system is the one wakeup_event names.
THEOREM WakerIsNamed == Spec => ResumeNamesWaker
<1> DEFINE Named == \A irq \in Irqs : Resume /\ events \cap start_er = {irq}
                                        => wakeupirq' = irq /\ wakeup_event'
<1>1. IrqInv /\ [Next]_vars => [Named]_vars
  <2> SUFFICES ASSUME IrqInv, NEW irq \in Irqs, Resume, events \cap start_er = {irq}
               PROVE  wakeupirq' = irq /\ wakeup_event'
    OBVIOUS
  <2>1. MaskStat = {irq} /\ irq \in Events
    BY DEF Resume, MaskStat, IrqInv, SleepInv, TypeOK
  <2>2. \A i \in Events : (MaskStat \cap PinEvents = {i} \/ MaskStat \cap IntEvents = {i}) <=> i = irq
    BY <2>1 DEF Events
  <2>3. irq \in AllIrqs /\ irq # 0
    BY <2>1, SubIrqFacts
  <2>4. WakeupIrq = irq
    <3> DEFINE alone == {i \in Events : \/ MaskStat \cap PinEvents = {i}
                                        \/ MaskStat \cap IntEvents = {i}}
    <3>1. alone = {irq}
      BY <2>1, <2>2
    <3>2. irq <= irq
      BY <2>3 DEF AllIrqs
    <3>3. (CHOOSE a \in {irq} : \A i \in {irq} : a <= i) = irq
      BY <3>2
    <3> HIDE DEF alone
    <3>4. (CHOOSE a \in alone : \A i \in alone : a <= i) = irq
      BY <3>1, <3>3
    <3> QED  BY <3>1, <3>4 DEF WakeupIrq, alone
  <2> QED  BY <2>3, <2>4 DEF Resume
<1> QED  BY <1>1, IrqInvariant, PTL DEF Spec, ResumeNamesWaker

=============================================================================
