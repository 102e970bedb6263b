----------------------------- MODULE MCTempCtl -----------------------------
(* Instances of TempCtl for TLC. *)
EXTENDS TempCtl

\* Around the setpoints 60 and 23: every branch of the control law, and the
\* open-loop targets 23, 68 and 98.
MCTemps == {23, 45, 55, 60, 68, 98}
MCInitialTemps == {23, 98}
MCSetpointArgs == {-51, 23, 60, 401}
=============================================================================
