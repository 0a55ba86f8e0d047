---------------------------- MODULE MCPromptRun ----------------------------
(* The instance of PromptRun for TLC: every kind of call.                  *)
EXTENDS PromptRun

EveryKind == AllKinds
=============================================================================
