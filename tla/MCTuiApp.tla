------------------------------ MODULE MCTuiApp ------------------------------
(* TLC instances of TuiApp. *)
EXTENDS TuiApp, TLC

CONSTANTS c1, c2

\* Two calls of different Tools.
MCToolName == c1 :> "bash" @@ c2 :> "write_file"

\* A halted Run waits for both, in this order.
MCBatches == {<<c1, c2>>}
=============================================================================
