------------------------- MODULE MCDeviceFunctions -------------------------
(* Instances of DeviceFunctions for TLC. *)
EXTENDS DeviceFunctions

\* At and next to every bound the code compares with.
MCInts == -1 .. 5
MCDoubles == {-51, -50, -1, 0, 50, 100, 101, 400, 401}
=============================================================================
