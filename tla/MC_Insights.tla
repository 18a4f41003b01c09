---------------------------- MODULE MC_Insights ----------------------------
(***************************************************************************)
(* The ticks that consume what was captured, and a conversation of Ask for *)
(* a fix, each on a small instance of its own.  They share no state: a     *)
(* behaviour is of one of them, chosen at the start, and the other rests.  *)
(***************************************************************************)
EXTENDS ExplorerBatches, AskForFix, TLC

VARIABLE part

InsightsInit == part \in {"explorer", "ask"} /\ Init /\ AskInit

(* Bound: two ticks at once meet three rows and faults together, before any *)
(* deletion; one tick at a time meets all of them.                          *)
BatchBound ==
  (\A w \in Ticks : pc'[w] # "idle") => Len(rows') + faults' =< 3 /\ wipes' = 0

(* Bounds: a command begins while at most one of those that settle the row  *)
(* of the conversation is between its statements; two of a second turn, a   *)
(* question and a trouble meet, not all three.                              *)
AskBound ==
  /\ inflight' \notin {inflight, NoAskRun} =>
       Cardinality({x \in Settlers : settling'[x].at # "rest"}) =< 1
  /\ turn' + session'.questions + troubled' =< 3

InsightsNext ==
  /\ UNCHANGED part
  /\ \/ part = "explorer" /\ Next /\ BatchBound /\ UNCHANGED askVars
     \/ part = "ask" /\ AskNext /\ AskBound /\ UNCHANGED vars

InsightsSpec == InsightsInit /\ [][InsightsNext]_<<part, vars, askVars>>

(* Ticks and texts are only ever compared with each other. *)
TickAndTextSymmetry == Permutations(Ticks) \cup Permutations(Texts)
=============================================================================
