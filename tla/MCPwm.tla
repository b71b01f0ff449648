-------------------------------- MODULE MCPwm --------------------------------
(* An instance of PwmDriver for TLC.                                        *)
EXTENDS PwmDriver

\* Within the range and above it; -1 is what no number reads as.
Numbers == {130, 256}

\* "130" cut short.
CutNumbers == {13}

=============================================================================
