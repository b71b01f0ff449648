---------------------------- MODULE AdcRefinement ----------------------------
(***************************************************************************)
(* The driver of AdcDriver implements AdcService when its users take turns *)
(* and no signal interrupts a wait: Env has neither "overlap" nor "signal".*)
(***************************************************************************)
EXTENDS AdcDriver

Serial == "overlap" \notin Env /\ "signal" \notin Env

Scan == IF gpi_irq THEN -1 ELSE IF gpi_interrupt_print THEN adc_channel ELSE -2

Service == INSTANCE AdcService
             WITH calling <- {r \in Readers : InCall(r)}, scan <- Scan

\* Every step of the driver is a step AdcService allows, or none of its users
\* can tell it happened; every read() it accepts returns, every scan ends.
ImplementsService == Service!FairSpec

\* The safety part alone.
ImplementsServiceSafely == Service!Spec

-----------------------------------------------------------------------------
(* Why: under Serial the driver does one thing at a time, and the one sample *)
(* under way is of the channel that adc_select and adc_channel both name.    *)

\* One user at a time: a read() in progress, or a scan.
OneUser ==
  /\ \A q, r \in Readers : InCall(q) /\ InCall(r) => q = r
  /\ \A r \in Readers : InCall(r) => ~ScanPending /\ minor[r] \in Channels /\ f_pos[r] = 0
  /\ gpi_irq => ~gpi_interrupt_print
  /\ \A r \in Readers : minor[r] = NoFile => result[r] = NoResult

Unstarted == \A r \in Readers : pc[r] \in {"idle", "select", "name", "strobe"}

\* The sample a waiting thread asked for, wherever it has got to: in the
\* converter, in ADC_VALUE, or in adc_values with the flag set.
InConverter(c) == converting = [chan |-> c, fresh |-> TRUE] /\ ~ts_irq
InRegister(c)  == ~IsConverting /\ ts_irq /\ adc_value = [chan |-> c, fresh |-> TRUE]
InArray(c)     == ~IsConverting /\ ~ts_irq /\ adc_values[c] = [chan |-> c, fresh |-> TRUE]

ReadUnderWay ==
  /\ Unstarted /\ ~gpi_interrupt_print => ~IsConverting /\ ~ts_irq
  /\ \A r \in Readers :
       /\ pc[r] \in {"select", "name", "strobe"} => ~adc_interrupt_handled
       /\ pc[r] \in {"name", "strobe"} => adc_select = minor[r]
       /\ pc[r] = "strobe" => adc_channel = minor[r]
       /\ pc[r] \in {"test", "asleep", "woken", "fetch"} =>
            /\ adc_select = minor[r]
            /\ adc_channel = minor[r]
            /\ IF adc_interrupt_handled
               THEN InArray(minor[r]) /\ pc[r] # "asleep"
               ELSE (InConverter(minor[r]) \/ InRegister(minor[r])) /\ pc[r] \in {"test", "asleep"}

ScanUnderWay ==
  gpi_interrupt_print =>
    /\ adc_channel \in Channels
    /\ adc_select = adc_channel
    /\ \/ converting.chan = adc_channel /\ ~ts_irq
       \/ ~IsConverting /\ ts_irq /\ adc_value.chan = adc_channel
    /\ \A c \in Channels : c < adc_channel => printed[c] = c

OneAtATime == OneUser /\ ReadUnderWay /\ ScanUnderWay /\ ReadReturnsRequested /\ ~overrun

\* The inductive invariant of a driver that is used serially.
SerialInv == Serial => OneAtATime

=============================================================================
