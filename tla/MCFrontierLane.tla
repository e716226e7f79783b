--------------------------- MODULE MCFrontierLane ---------------------------
(* A small instance of FrontierLane.                                         *)
EXTENDS FrontierLane, TLC

\* Two commands in the first generation, one after its reset.
OneReset == 0 :> 1 @@ 1 :> 0
=============================================================================
