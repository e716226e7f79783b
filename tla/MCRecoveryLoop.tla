--------------------------- MODULE MCRecoveryLoop ---------------------------
(* Small instances of RecoveryLoop. *)
EXTENDS RecoveryLoop, MCRecoveryMachine

\* The machine's live fields and the three channels.
LoopView == <<LiveFields, inbox, results, answers>>
=============================================================================
