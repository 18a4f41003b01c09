------------------------------ MODULE MC_Records ------------------------------
(***************************************************************************)
(* The two stores of what was seen, each on a small instance of its own:   *)
(* the evidence with its cards, and the frames with their redaction queue. *)
(* They share no state: a behaviour is one of the cards or one of the      *)
(* queue, chosen at the start, and the other rests.                        *)
(***************************************************************************)
EXTENDS Findings, RedactionQueue, TLC

VARIABLE part

RecordsInit ==
  /\ part \in {"cards", "queue"}
  /\ Init
  /\ QueueInit /\ (part = "cards" => ~enabled)

(* Bound: two disturbances of the cards of one version, or one of two. *)
CardsBound == \A o \in Opportunities : Len(versions'[o]) + disturbed' =< MaxVersions + 1

RecordsNext ==
  /\ UNCHANGED part
  /\ \/ part = "cards" /\ Next /\ CardsBound /\ UNCHANGED queueVars
     \/ part = "queue" /\ QueueNext /\ UNCHANGED vars

RecordsSpec == RecordsInit /\ [][RecordsNext]_<<part, vars, queueVars>>

(* Workers are only ever compared with each other. *)
WorkerSymmetry == Permutations(Workers)
=============================================================================
