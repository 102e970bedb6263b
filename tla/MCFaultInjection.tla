-------------------------- MODULE MCFaultInjection --------------------------
(* Instances of FaultInjection for TLC. *)
EXTENDS FaultInjection, TLC

\* Devices are interchangeable, and so are signals.
Symmetry == Permutations(Devices) \cup Permutations(Signals)
=============================================================================
