----------------------------- MODULE Container ------------------------------
(***************************************************************************)
(* The life of the one container the server runs in: it migrates the       *)
(* database, boots, serves, and is started again whenever it stops.        *)
(*                                                                         *)
(* The services that share a container share nothing but its life, so one  *)
(* behaviour exercises one of them: the workload it was given.             *)
(***************************************************************************)
EXTENDS Naturals, Sequences, FiniteSets

CONSTANTS None, MaxCrashes   \* MaxCrashes: bound on the crashes before it serves

ASSUME ContainerAssumption == MaxCrashes \in Nat

Phases    == {"stopped", "migrating", "booting", "serving"}
Workloads == {"migrate", "roles", "messages", "media"}

VARIABLES
  phase,     \* what the container is doing
  workload,  \* the service exercised
  crashes    \* the times it was killed before it served

containerVars == <<phase, workload, crashes>>

Serves(w) == phase = "serving" /\ workload = w
=============================================================================
