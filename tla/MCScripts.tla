----------------------------- MODULE MCScripts -----------------------------
(***************************************************************************)
(* The repository's own deploy scripts, run by module Deployment.          *)
(***************************************************************************)
EXTENDS Deployment, DeployScripts
=============================================================================
