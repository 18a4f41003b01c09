-------------------------- MODULE MC_RedactionQueue --------------------------
(***************************************************************************)
(* Small instances of RedactionQueue for TLC.                              *)
(***************************************************************************)
EXTENDS RedactionQueue

(* Workers are only ever compared with each other. *)
WorkerSymmetry == Permutations(Workers)
=============================================================================
