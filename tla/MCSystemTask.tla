--------------------------- MODULE MCSystemTask ---------------------------
(* Instances of SystemTask for TLC.                                        *)
EXTENDS SystemTask, TLC

\* A bit error seen by the sender, the warning level with a form error, and
\* the sender leaving the bus.
SomeStatus == {{"EWARN", "L1"}, {"BUS_OFF", "L0", "L2"}}
=============================================================================
