----------------------------- MODULE MC_Findings -----------------------------
(***************************************************************************)
(* Small instances of Findings for TLC.                                    *)
(***************************************************************************)
EXTENDS Findings
=============================================================================
