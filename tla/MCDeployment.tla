---------------------------- MODULE MCDeployment ----------------------------
(***************************************************************************)
(* Three runs of the script in any scenarios.  The one exit code that any  *)
(* consumer may end with is 3, the Hub cannot be reached.                  *)
(***************************************************************************)
EXTENDS Deployment
=============================================================================
