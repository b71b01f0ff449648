------------------------------ MODULE MCLpcIrq ------------------------------
(* An instance of LpcIrq for TLC.                                          *)
EXTENDS LpcIrq

\* JTAG_COMM_TX and TS_IRQ of SIC1, of which the first has no event and is
\* unmasked by adc_init; GPI_01 of SIC2.
SomeIrqs == {33, TS_IRQ, GPI_01}
SomeRequests == {[irq |-> TS_IRQ, type |-> "none"]} \cup
                {[irq |-> GPI_01, type |-> t] : t \in {"none", "edge_rising", "edge_both"}}
=============================================================================
