--------------------------- MODULE MCDeviceCalls ---------------------------
(* Instances of DeviceCalls for TLC. *)
EXTENDS DeviceCalls, TLC

MCFunctionStrings == {FunctionIdString(1)}
MCLatencyArgs == {-1, 1}
RegisteredSymmetry == Permutations(Registered)
=============================================================================
