----------------------------- MODULE Processes ------------------------------
(***************************************************************************)
(* The ocra processes of one machine, which share its files                *)
(* (cli/src/cloud, cli/src/io/private-file.ts) and may die at any time.    *)
(***************************************************************************)
EXTENDS Naturals, FiniteSets

CONSTANTS
  Procs,       \* ocra processes, each with its own pid
  MaxCrashes   \* bound: how many processes may die

ASSUME ProcessAssumption == IsFiniteSet(Procs) /\ MaxCrashes \in Nat
=============================================================================
