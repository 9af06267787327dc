----------------------------- MODULE MCConsole -----------------------------
(***************************************************************************)
(* The owners' tool and the small scripts of MCDeployment.                 *)
(***************************************************************************)
EXTENDS TxTask, MCDeployment
=============================================================================
