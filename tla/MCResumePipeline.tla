-------------------------- MODULE MCResumePipeline --------------------------
(* ResumePipeline for TLC.  The executions are model values; the safety runs     *)
(* treat them as interchangeable.                                               *)
EXTENDS ResumePipeline, TLC

RunSymmetry == Permutations(Runs)
=============================================================================
