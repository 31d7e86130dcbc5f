------------------------ MODULE SandboxOrchestratorMC ------------------------
(***************************************************************************)
(* A small instance of SandboxOrchestrator for TLC.                        *)
(***************************************************************************)
EXTENDS SandboxOrchestrator
=============================================================================
