--------------------------- MODULE MC_StewardJobs ---------------------------
(***************************************************************************)
(* Small instances of StewardJobs for TLC.                                 *)
(***************************************************************************)
EXTENDS StewardJobs, TLC

(* The contexts a packet can be frozen with are interchangeable: none is    *)
(* ever compared with a constant or ordered.                                *)
ContextSymmetry == Permutations(Contexts)
=============================================================================
