---------------------------- MODULE MCReminders -----------------------------
(* A small instance of Reminders: two runs of the job may overlap. *)
EXTENDS Reminders, TLC

RunSymmetry == Permutations(Runs)
=============================================================================
