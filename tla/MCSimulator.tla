---------------------------- MODULE MCSimulator ----------------------------
(***************************************************************************)
(* Instances of Simulator for TLC: the four GPUs simulate takes by default *)
(* and requests of all three workloads, most of them sharing one prefix.   *)
(***************************************************************************)
EXTENDS SimulationReport

FourGpus == <<"RTX4090", "RTX3090", "RTX4090", "RTX3090">>

Shape(input, output, prefix, tokens, slo) ==
    [input_tokens |-> input, output_tokens |-> output, prefix |-> prefix,
     prefix_tokens |-> tokens, ttft_slo |-> slo, tpot_slo |-> 20000]

SomeShapes ==
    {Shape(128, 192, "x", 57, 150000),
     Shape(2048, 512, "x", 1600, 600000),
     Shape(8192, 256, "x", 3686, 700000),
     Shape(512, 64, Own, 102, 150000)}

SomeGaps == {0, 40000, 900000}
=============================================================================
