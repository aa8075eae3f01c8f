-------------------------- MODULE MCRepairPipeline --------------------------
(***************************************************************************)
(* RepairPipeline with one path of each kind the gates tell apart: the      *)
(* production file of the merge request, a test outside it, a build file.   *)
(***************************************************************************)
EXTENDS RepairPipeline, TLC

MCPaths == {"main", "test", "pom"}
MCMrFiles == {"main"}
MCBuildConfig == {"pom"}
MCProduction == {"main"}
MCTestOrDoc == {"test"}

=============================================================================
