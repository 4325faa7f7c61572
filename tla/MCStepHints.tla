---------------------------- MODULE MCStepHints ----------------------------
(***************************************************************************)
(* The instances of MCFilePipeline for the pipelines with their hints.     *)
(***************************************************************************)
EXTENDS StepHints, MCFilePipeline
==============================================================================
