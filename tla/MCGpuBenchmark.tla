--------------------------- MODULE MCGpuBenchmark ---------------------------
(***************************************************************************)
(* Instances of GpuBenchmark, and of the NIXL proxy in it, for TLC.        *)
(***************************************************************************)
EXTENDS GpuBenchmark

CONSTANTS r1, r2, other

TwoAndOther == {r1, r2, other}
Two == <<r1, r2>>
=============================================================================
