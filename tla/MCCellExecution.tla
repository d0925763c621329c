-------------------------- MODULE MCCellExecution --------------------------
(* Instances of CellExecution for TLC. *)
EXTENDS CellExecution

(* The second unit of output is one that LLDB may find half written. *)
SecondIsWide == {2}

=============================================================================
