---------------------------- MODULE Consideration ----------------------------
(***************************************************************************)
(* What the Steward half of Worth Fixing promises about each observation   *)
(* the Explorer admits, with no jobs, workers or packets in sight.         *)
(*                                                                         *)
(* One batch of observations at a time is in hand.  A batch is taken from  *)
(* the oldest waiting observations, and it leaves the hand as a whole:     *)
(* considered, which is final, or set aside after an answer that stayed    *)
(* invalid.  Only "delete everything" makes an observation forgotten, and  *)
(* a forgotten observation never comes back.                               *)
(***************************************************************************)
EXTENDS Integers

CONSTANT Observations   \* a set of integers, ordered by admission

VARIABLE stage          \* stage[o]: where observation o is

At(s) == {o \in Observations : stage[o] = s}

(* Every observation of S moves to stage s, the others stay. *)
Move(S, s) == stage' = [o \in Observations |-> IF o \in S THEN s ELSE stage[o]]

Init == stage = [o \in Observations |-> "unseen"]

(* Observations are admitted in sequence order. *)
Admit(o) ==
  /\ o \in At("unseen")
  /\ \A q \in At("unseen") : o =< q
  /\ Move({o}, "waiting")

(* The oldest waiting observations are taken in hand, into an empty hand. *)
TakeUp(S) ==
  /\ At("in_hand") = {}
  /\ S # {}
  /\ S \subseteq At("waiting")
  /\ \A o \in S, q \in At("waiting") \ S : o < q
  /\ Move(S, "in_hand")

(* The batch in hand is considered, all of it in one step. *)
Consider == At("in_hand") # {} /\ Move(At("in_hand"), "considered")

SetAside == At("in_hand") # {} /\ Move(At("in_hand"), "set_aside")

(* A late provider failure puts a set-aside batch back in an empty hand. *)
Resume(S) ==
  /\ At("in_hand") = {}
  /\ S # {}
  /\ S \subseteq At("set_aside")
  /\ Move(S, "in_hand")

ForgetEverything == Move(Observations \ At("unseen"), "forgotten")

Next ==
  \/ \E o \in Observations : Admit(o)
  \/ \E S \in SUBSET Observations : TakeUp(S) \/ Resume(S)
  \/ Consider
  \/ SetAside
  \/ ForgetEverything

Spec == Init /\ [][Next]_stage
=============================================================================
