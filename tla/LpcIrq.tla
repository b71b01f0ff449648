------------------------------- MODULE LpcIrq -------------------------------
(***************************************************************************)
(* The interrupt controllers of the LPC3250 (adc/lpc-src/irq.c, irqs.h)    *)
(* and what drivers, adc.c among them, do with them.  The main controller  *)
(* MIC has an interrupt for each of the sub controllers SIC1 and SIC2,     *)
(* whose handler goes through the interrupts of that controller.  Beside   *)
(* them a start controller latches events, which may wake the system.      *)
(*                                                                         *)
(* A register with a bit per interrupt is the set of the numbers of the    *)
(* interrupts whose bit is 1, over all three controllers.  The kernel is   *)
(* preemptive; it calls the functions of the chip, and runs handlers, with *)
(* interrupts off, so that of the accesses to the controllers only those   *)
(* of adc_init are cut.  CONFIG_PM is set.  Interrupts of the MIC itself   *)
(* need no chained handler and are left out.                               *)
(***************************************************************************)
EXTENDS Integers

CONSTANTS
  Irqs,      \* numbers of the interrupts that devices of the instance raise
  Requests,  \* the request_irq calls of the drivers: records [irq, type]
  Wakers     \* interrupts that drivers make and unmake wake-up sources

NR_IRQS      == 96
SUB1IRQ      == 0
SUB2IRQ      == 1
SUB1FIQ      == 30
SUB2FIQ      == 31
TS_IRQ       == 39
GPI_01       == 87
SubIrqs      == {SUB1IRQ, SUB2IRQ}
AllIrqs      == 0 .. NR_IRQS - 1

\* 0 is the MIC, 1 and 2 are SIC1 and SIC2.
Controller(irq) == irq \div 32

ASSUME IrqsAssumption ==
  /\ Irqs \subseteq {irq \in AllIrqs : Controller(irq) \in {1, 2}}
  /\ \A r \in Requests : r.irq \in Irqs
  /\ Wakers \subseteq Irqs

VARIABLES
  er,            \* unmasked interrupts: INTC_MASK
  apr, atr,      \* activation polarity (high) and type (edge)
  raised,        \* INTC_RAW_STAT
  start_er,      \* events that wake: INT_ER and PIN_ER
  start_apr,     \* polarity of the events: INT_AP and PIN_AP
  start_rs,      \* latched events: INT_RS and PIN_RS
  wakeup_irqs, backup_irqs, wakeupirq,
  wakeup_event,  \* the file wakeup_event exists
  ints,          \* what the running chained handler has still to serve
  sic1, sic2,    \* what adc_init has read from SIC1_ER and SIC2_ATR, or Nothing
  requested,     \* interrupts with a handler
  raced,         \* those that got it while adc_init was about to write SIC1_ER
  woken,         \* interrupts the kernel has been asked to wake up from
  power,         \* "awake", "standby" or "mem"
  events         \* interrupts raised since the system went to sleep

controllers == <<er, apr, atr, raised>>
startRegs   == <<start_er, start_apr, start_rs>>
statics     == <<wakeup_irqs, backup_irqs, wakeupirq, wakeup_event>>
adcInit     == <<sic1, sic2>>
handlers    == <<requested, raced>>
kernel      == <<ints, adcInit, handlers, woken, power, events>>
vars        == <<controllers, startRegs, statics, kernel>>

-----------------------------------------------------------------------------
(* The tables.                                                              *)

\* The interrupt of the MIC behind which a controller sits.
SubIrq(controller) == IF controller = 1 THEN SUB1IRQ ELSE SUB2IRQ

\* GPI_28; UART_IIR3 to 6, 7, 2 and 1; GPI_08, 09, 19, 07 and 00 to 06.
PinEvents == {36} \cup {7, 8, 9, 10, 24, 25, 26} \cup {73, 74, 75, 79} \cup 86 .. 92

\* MSTIMER, ETHERNET; TS_P, TS_IRQ, TS_AUX, RTC, KEY, USB_OTG_ATX, USB_HOST;
\* GPIO_00 to 05.
IntEvents == {27, 29} \cup {38, 39, 40, 52, 54, 58, 59} \cup 64 .. 69

\* Interrupts with an entry in lpc32xx_events.
Events == PinEvents \cup IntEvents

\* The bits of the APR and ATR defaults of the three controllers.
MIC_APR_DEFAULT  == 5 .. 11 \cup 13 .. 15 \cup 20 .. 29
SIC1_APR_DEFAULT == {33, 34, 39, 40, 44, 45, 46, 49, 52, 54, 55, 56, 57} \cup 59 .. 63
SIC2_APR_DEFAULT == {70, 71, 76, 83, 84, 95}
SIC1_ATR_DEFAULT == {45, 46, 49}

DefaultApr == MIC_APR_DEFAULT \cup SIC1_APR_DEFAULT \cup SIC2_APR_DEFAULT

\* adc_init sets the bits of the number of its interrupt, 0x27, in SIC1_ER.
ADC_INT == {32, 33, 34, 37}

Nothing == {-1}

\* wakeupirq is -1, and unsigned.
NotWoken == -1

\* lpc32xx_init_irq.
Init ==
  /\ er = {SUB1IRQ, SUB2IRQ, SUB1FIQ, SUB2FIQ}
  /\ apr = DefaultApr
  /\ atr = SIC1_ATR_DEFAULT
  /\ raised = {}
  /\ start_er = {}
  /\ start_apr = DefaultApr \cap Events
  /\ start_rs = {}
  /\ wakeup_irqs = {}
  /\ backup_irqs = {}
  /\ wakeupirq = NotWoken
  /\ wakeup_event = FALSE
  /\ ints = {}
  /\ sic1 = Nothing
  /\ sic2 = Nothing
  /\ requested = {}
  /\ raced = {}
  /\ woken = {}
  /\ power = "awake"
  /\ events = {}

-----------------------------------------------------------------------------
(* Delivery.                                                                *)

\* INTC_STAT of a controller.
Stat(controller) == {irq \in raised \cap er : Controller(irq) = controller}

\* A device raises its interrupt; an event is latched whether it is enabled
\* or not.
Raise(irq) ==
  /\ irq \notin raised
  /\ raised' = raised \cup {irq}
  /\ start_rs' = start_rs \cup ({irq} \cap Events)
  /\ events' = IF power = "awake" THEN events ELSE events \cup {irq}
  /\ UNCHANGED <<er, apr, atr, start_er, start_apr, statics, ints, adcInit, handlers, woken, power>>

\* A device lowers a level it has raised.
Withdraw(irq) ==
  /\ irq \in raised \ atr
  /\ raised' = raised \ {irq}
  /\ UNCHANGED <<er, apr, atr, startRegs, statics, kernel>>

\* Process context: no handler runs and the system is awake.
InProcess == ints = {} /\ power = "awake"

\* ack of the chip: an edge is forgotten, a level stays, and the wake event is
\* cleared with it.
Acked(irq) == raised \ ({irq} \cap atr)

\* handle_level_irq masks and acks, runs the driver's handler, which quiets
\* the device, and unmasks; without a handler the interrupt stays masked.
HandleLevelIrq(irq) ==
  /\ start_rs' = start_rs \ {irq}
  /\ \/ /\ irq \in requested
        /\ raised' = Acked(irq) \ {irq}
        /\ er' = er \cup {irq}
     \/ /\ irq \notin requested
        /\ raised' = Acked(irq)
        /\ er' = er \ {irq}
  /\ UNCHANGED <<apr, atr, start_er, start_apr, statics, adcInit, handlers, woken, power, events>>

\* lpc32xx_sic1_handler or lpc32xx_sic2_handler starts with a snapshot.
EnterChained(controller) ==
  /\ InProcess
  /\ SubIrq(controller) \in er
  /\ Stat(controller) # {}
  /\ ints' = Stat(controller)
  /\ UNCHANGED <<controllers, startRegs, statics, adcInit, handlers, woken, power, events>>

\* Deviation: the loop looks at the status again instead of its snapshot.
LookAgain == UNION {Stat(Controller(irq)) : irq \in ints}

Snapshot == ints

\* One turn of the loop, for the highest number left.
HandleChained ==
  \E irq \in Snapshot :
     /\ \A other \in Snapshot : other <= irq
     /\ HandleLevelIrq(irq)
     /\ ints' = ints \ {irq}

-----------------------------------------------------------------------------
(* Drivers.                                                                 *)

WithBit(bank, irq, on) == IF on THEN bank \cup {irq} ELSE bank \ {irq}

\* Deviation: the wake event keeps its polarity.
KeepEventPolarity(irq, high) == UNCHANGED start_apr

EventPolarity(irq, high) ==
  start_apr' = IF irq \in Events THEN WithBit(start_apr, irq, high) ELSE start_apr

\* lpc32xx_set_irq_type.
SetIrqType(irq, type) ==
  /\ type \in {"edge_rising", "edge_falling", "level_low", "level_high"}
  /\ apr' = WithBit(apr, irq, type \in {"edge_rising", "level_high"})
  /\ atr' = WithBit(atr, irq, type \in {"edge_rising", "edge_falling"})
  /\ EventPolarity(irq, type \in {"edge_rising", "level_high"})

\* request_irq sets the type it is given, if any, and unmasks.  A type the
\* chip refuses fails the request.
RequestIrq(r) ==
  /\ InProcess
  /\ r.irq \notin requested
  /\ \/ SetIrqType(r.irq, r.type)
     \/ r.type = "none" /\ UNCHANGED <<apr, atr, start_apr>>
  /\ er' = er \cup {r.irq}
  /\ requested' = requested \cup {r.irq}
  /\ raced' = IF sic1 # Nothing /\ Controller(r.irq) = 1 THEN raced \cup {r.irq} ELSE raced
  /\ UNCHANGED <<raised, start_er, start_rs, statics, ints, adcInit, woken, power, events>>

\* free_irq masks.
FreeIrq(irq) ==
  /\ InProcess
  /\ irq \in requested
  /\ er' = er \ {irq}
  /\ requested' = requested \ {irq}
  /\ raced' = raced \ {irq}
  /\ UNCHANGED <<apr, atr, raised, startRegs, statics, ints, adcInit, woken, power, events>>

AdcInitIdle == sic1 = Nothing /\ sic2 = Nothing

\* adc_init, which has not yet requested its interrupt, reads SIC1_ER ...
AdcReadEr ==
  /\ InProcess /\ AdcInitIdle
  /\ TS_IRQ \notin requested
  /\ sic1' = {irq \in er : Controller(irq) = 1}
  /\ UNCHANGED <<controllers, startRegs, statics, ints, sic2, handlers, woken, power, events>>

\* ... and writes it back; interrupts and other drivers may come in between.
AdcWriteEr ==
  /\ InProcess /\ sic1 # Nothing
  /\ er' = {irq \in er : Controller(irq) # 1} \cup sic1 \cup ADC_INT
  /\ sic1' = Nothing
  /\ UNCHANGED <<apr, atr, raised, startRegs, statics, ints, sic2, handlers, woken, power, events>>

\* Once it has requested its interrupt, and before it requests GPI_01, it makes
\* that one edge sensitive, past the chip: it reads SIC2_ATR ...
AdcReadAtr ==
  /\ InProcess /\ AdcInitIdle
  /\ TS_IRQ \in requested /\ GPI_01 \notin requested
  /\ sic2' = {irq \in atr : Controller(irq) = 2}
  /\ UNCHANGED <<controllers, startRegs, statics, ints, sic1, handlers, woken, power, events>>

\* ... and writes it back.
AdcWriteAtr ==
  /\ InProcess /\ sic2 # Nothing
  /\ atr' = {irq \in atr : Controller(irq) # 2} \cup sic2 \cup {GPI_01}
  /\ sic2' = Nothing
  /\ UNCHANGED <<er, apr, raised, startRegs, statics, ints, sic1, handlers, woken, power, events>>

-----------------------------------------------------------------------------
(* Sleeping and waking up.                                                  *)

\* Deviation: an interrupt without an entry is enabled too.
AnyEvent(irq) == {irq}

EventOf(irq) == {irq} \cap Events

\* irq_set_irq_wake(irq, 1).
EnableWake(irq) ==
  /\ InProcess
  /\ irq \notin woken
  /\ woken' = woken \cup {irq}
  /\ wakeup_irqs' = wakeup_irqs \cup {irq, SubIrq(Controller(irq))}
  /\ start_er' = start_er \cup EventOf(irq)
  /\ UNCHANGED <<controllers, start_apr, start_rs, backup_irqs, wakeupirq, wakeup_event,
                 ints, adcInit, handlers, power, events>>

\* Deviation: the chain is switched off with the first of its interrupts.
AlwaysUnneeded(irq) == {SubIrq(Controller(irq))}

\* The chain, when no other interrupt of its controller is a wake-up source.
Unneeded(irq) ==
  IF \E other \in wakeup_irqs \ {irq} : Controller(other) = Controller(irq)
  THEN {} ELSE AlwaysUnneeded(irq)

\* irq_set_irq_wake(irq, 0), which also forgets the latched event.
DisableWake(irq) ==
  /\ InProcess
  /\ irq \in woken
  /\ woken' = woken \ {irq}
  /\ wakeup_irqs' = wakeup_irqs \ ({irq} \cup Unneeded(irq))
  /\ start_er' = start_er \ {irq}
  /\ start_rs' = start_rs \ {irq}
  /\ UNCHANGED <<controllers, start_apr, backup_irqs, wakeupirq, wakeup_event,
                 ints, adcInit, handlers, power, events>>

\* Deviation: the masks are saved after they have been cleared.
BackupCleared == backup_irqs' = {}

Backup == backup_irqs' = er

\* Deviation: events latched while awake stay.
KeepEvents == UNCHANGED start_rs

ClearEvents == start_rs' = {}

\* lpc32xx_irq_suspend, once every process is frozen, which one in the middle of
\* adc_init is not.  In standby the wake-up sources stay unmasked, and
\* writing INTC_RAW_STAT forgets their edges.
Suspend(state) ==
  /\ InProcess /\ AdcInitIdle
  /\ Backup
  /\ er' = IF state = "standby" THEN wakeup_irqs ELSE {}
  /\ raised' = IF state = "standby" THEN raised \ (wakeup_irqs \cap atr) ELSE raised
  /\ ClearEvents
  /\ wakeup_event' = FALSE
  /\ power' = state
  /\ events' = {}
  /\ UNCHANGED <<apr, atr, start_er, start_apr, wakeup_irqs, wakeupirq, ints, adcInit, handlers, woken>>

\* INT_SR and PIN_SR.
MaskStat == start_rs \cap start_er

\* An unmasked interrupt gets through to the processor.
Reaches(irq) == irq \in er /\ SubIrq(Controller(irq)) \in er

WakesUp == MaskStat # {} \/ \E irq \in raised : Reaches(irq)

\* The first interrupt whose event is the only one latched in its group.
WakeupIrq ==
  LET alone == {irq \in Events : \/ MaskStat \cap PinEvents = {irq}
                                 \/ MaskStat \cap IntEvents = {irq}}
  IN  IF alone = {} THEN wakeupirq ELSE CHOOSE irq \in alone : \A i \in alone : irq <= i

\* lpc32xx_irq_resume.  -1 passes for a number above 0.  The saved masks are not
\* read again before the next suspend writes them, and are forgotten.
Resume ==
  /\ power # "awake"
  /\ WakesUp
  /\ wakeupirq' = WakeupIrq
  /\ start_rs' = {}
  /\ raised' = raised \ (wakeup_irqs \cap atr)
  /\ er' = backup_irqs
  /\ backup_irqs' = {}
  /\ wakeup_event' = (wakeupirq' # 0)
  /\ power' = "awake"
  /\ events' = {}
  /\ UNCHANGED <<apr, atr, start_er, start_apr, wakeup_irqs, ints, adcInit, handlers, woken>>

-----------------------------------------------------------------------------

Next ==
  \/ \E irq \in Irqs : Raise(irq) \/ Withdraw(irq) \/ FreeIrq(irq)
  \/ \E irq \in Wakers : EnableWake(irq) \/ DisableWake(irq)
  \/ \E r \in Requests : RequestIrq(r)
  \/ \E controller \in {1, 2} : EnterChained(controller)
  \/ HandleChained
  \/ AdcReadEr \/ AdcWriteEr \/ AdcReadAtr \/ AdcWriteAtr
  \/ \E state \in {"standby", "mem"} : Suspend(state)
  \/ Resume

Spec == Init /\ [][Next]_vars

\* The loop of a chained handler runs to its end.
FairSpec == Spec /\ WF_vars(HandleChained)

-----------------------------------------------------------------------------

TypeOK ==
  /\ er \subseteq AllIrqs /\ backup_irqs \subseteq AllIrqs
  /\ sic1 = Nothing \/ sic1 \subseteq AllIrqs
  /\ sic2 = Nothing \/ sic2 \subseteq AllIrqs
  /\ apr \subseteq AllIrqs /\ atr \subseteq AllIrqs
  /\ start_er \subseteq Events /\ start_apr \subseteq Events
  /\ start_rs \subseteq Events \cap Irqs
  /\ raised \subseteq Irqs /\ ints \subseteq Irqs /\ events \subseteq Irqs
  /\ wakeup_irqs \subseteq Wakers \cup SubIrqs
  /\ wakeupirq \in Events \cup {NotWoken}
  /\ wakeup_event \in BOOLEAN
  /\ requested \subseteq Irqs /\ raced \subseteq requested /\ woken \subseteq Wakers
  /\ power \in {"awake", "standby", "mem"}

\* While the system is awake a driver's interrupt is unmasked, and so are the
\* two that lead to the sub controllers, whatever was masked for handlers and
\* for sleep and whatever adc_init wrote back in between.  It does not hold of
\* interrupts of SIC1 that were requested between its read and its write.
Deliverable == power = "awake" => (requested \ raced) \cup SubIrqs \subseteq er

\* While the system sleeps exactly the interrupts it was asked to wake up from
\* can wake it: in standby each gets through its controller and the main one,
\* and an event is enabled with the polarity of its interrupt.
WakersArmed ==
  power # "awake" =>
    /\ start_er = woken \cap Events
    /\ \A irq \in start_er : irq \in start_apr <=> irq \in apr
    /\ {irq \in er \ SubIrqs : Reaches(irq)} = IF power = "standby" THEN woken ELSE {}

\* When one event woke the system, the file wakeup_event is there and names it,
\* not what woke it before or what had happened before it slept.
ResumeNamesWaker ==
  [][\A irq \in Irqs : Resume /\ events \cap start_er = {irq}
                         => wakeupirq' = irq /\ wakeup_event']_vars

\* A chained handler ends, and has then served every interrupt it had found, even
\* if a device with a higher number raises its own again and again.
HandlerEnds == ints # {} ~> ints = {}

=============================================================================
