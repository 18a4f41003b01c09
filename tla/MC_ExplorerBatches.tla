------------------------- MODULE MC_ExplorerBatches -------------------------
(***************************************************************************)
(* Small instances of ExplorerBatches for TLC.                             *)
(***************************************************************************)
EXTENDS ExplorerBatches, TLC

(* Ticks and texts are only ever compared with each other. *)
TickAndTextSymmetry == Permutations(Ticks) \cup Permutations(Texts)
=============================================================================
