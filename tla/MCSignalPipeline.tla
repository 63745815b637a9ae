-------------------------- MODULE MCSignalPipeline --------------------------
(* Instances of SignalPipeline for TLC. *)
EXTENDS SignalPipeline
CONSTANT s1
MCOneSignal == {s1}
=============================================================================
