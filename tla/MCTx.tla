-------------------------------- MODULE MCTx --------------------------------
(***************************************************************************)
(* The owners' tool on the outputs of the repository's own scripts, and on *)
(* those of the small ones.                                                *)
(***************************************************************************)
EXTENDS TxTask, DeployScripts

\* The scripts alone: they are run to their end before the owners execute a record.
ScriptsSpec ==
  TxInit /\ [][Next /\ UNCHANGED consoleVars]_txVars /\ WF_vars(Progress)

\* The names with " - " in them.
MCSpacedNames ==
  {"BaseManager - DPI", "GovernanceAdapter - DPI", "GIMExtension - DPI",
   "StreamingFeeSplitExtension - DPI", "BaseManager - MVI", "GIMExtension - MVI",
   "StreamingFeeSplitExtension - MVI", "BaseManager - BED", "GIMExtension - BED",
   "StreamingFeeSplitExtension - BED", "StakingRewardsV2 - December",
   "StakingRewardsV2 - ETHFLI", "StakingRewardsV2 - MVI",
   "OtcEscrow - 1", "OtcEscrow - 2", "OtcEscrow - 3", "OtcEscrow - 4",
   "FTCVesting - 1", "FTCVesting - 2"}

\* Hypotheses of theorems that are true of the real scripts.
ASSUME HypothesesHold == CallsDiffer /\ CallsOnce /\ NothingFailsAfterDeferral
=============================================================================
