----------------------------- MODULE AskWatches -----------------------------
(***************************************************************************)
(* The watches of Ask for a fix: a user who got no full answer asks Dystil *)
(* to keep looking.  A collector, run by the background tick, shows each   *)
(* active watch the observations admitted since it last looked, and files  *)
(* what the model calls supporting or rejected; a watch with enough is     *)
(* ready for review (crates/dystil-insights/src/ask_for_fix.rs, the tables *)
(* ask_watches and ask_watch_evidence of store.rs).                        *)
(*                                                                         *)
(* An observation is its sequence number and rests on one row of evidence, *)
(* which has the same number.  What a watch asks for is left out: any      *)
(* observation may or may not be a candidate.                              *)
(***************************************************************************)
EXTENDS Integers, FiniteSets

CONSTANTS
  Watches, NoWatch,  \* bound: sessions that ask for a watch
  Capacity,          \* watches kept at once: 5 in the app
  WindowSize,        \* observations shown at once: 80
  LookBack,          \* how far guidance moves the cursor back: 200
  MaxAdmitted,       \* bound: observations admitted
  MaxUpsets          \* bound: provider failures, crashes, deletions and
                     \*   changes of the policy

ASSUME WatchAssumption ==
  /\ NoWatch \notin Watches
  /\ {Capacity, WindowSize, LookBack, MaxAdmitted, MaxUpsets} \subseteq Nat
  /\ WindowSize > 0

VARIABLES
  admitted,    \* the highest sequence of the observations
  usable,      \* evidence that is allowed, not sensitive and not deleted
  watches,     \* the rows of ask_watches
  dossier,     \* the rows of ask_watch_evidence
  starting,    \* starts that have counted and are still to insert
  reviewing,   \* reviews under way: which pass the guard of prepare
  collector,   \* the collector's locals
  offered,     \* history: what each watch was shown, in evaluations accepted
  upsets

watchVars == <<admitted, usable, watches, dossier, starting, reviewing,
               collector, offered, upsets>>

WatchStates == {"none", "active", "review_ready", "stopped", "dismissed"}
Observed    == 1..admitted
OpenWatches == {w \in Watches : watches[w].state \in {"active", "review_ready"}}

Idling == [todo |-> {}, at |-> NoWatch, shown |-> {}, found |-> {},
           supporting |-> {}, rejected |-> {}, checked |-> {},
           ready |-> FALSE, answered |-> FALSE]

WatchInit ==
  /\ admitted = 0 /\ usable = {}
  /\ watches = [w \in Watches |-> [state |-> "none", baseline |-> 0,
                                   cursor |-> 0, rechecked |-> FALSE]]
  /\ dossier = [w \in Watches |-> [supporting |-> {}, rejected |-> {}]]
  /\ starting = {} /\ reviewing = {} /\ collector = Idling
  /\ offered = [w \in Watches |-> {}]
  /\ upsets = 0

Upset == upsets < MaxUpsets /\ upsets' = upsets + 1

SetState(w, state) == watches' = [watches EXCEPT ![w].state = state]

-----------------------------------------------------------------------------
(* The user. *)

(* start_ask_for_fix_watch counts the open watches and reads the highest     *)
(* sequence ...                                                             *)
StartCounts(w) ==
  /\ watches[w].state = "none" /\ w \notin starting
  /\ Cardinality(OpenWatches) < Capacity
  /\ starting' = starting \cup {w}
  /\ watches' = [watches EXCEPT ![w].baseline = admitted]
  /\ UNCHANGED <<admitted, usable, dossier, reviewing, collector,
                 offered, upsets>>

(* ... and inserts. *)
StartInserts(w) ==
  /\ w \in starting /\ starting' = starting \ {w}
  /\ watches' = [watches EXCEPT ![w].state = "active",
                                ![w].cursor = watches[w].baseline]
  /\ UNCHANGED <<admitted, usable, dossier, reviewing, collector,
                 offered, upsets>>

(* stop_ask_for_fix_watch *)
StopWatch(w) ==
  /\ w \in OpenWatches /\ SetState(w, "stopped")
  /\ UNCHANGED <<admitted, usable, dossier, starting, reviewing,
                 collector, offered, upsets>>

(* update_ask_for_fix_watch_guidance: the first one looks back. *)
Guide(w) ==
  /\ watches[w].state = "active" /\ ~watches[w].rechecked
  /\ watches' = [watches EXCEPT ![w].rechecked = TRUE,
                                ![w].cursor = watches[w].baseline - LookBack]
  /\ UNCHANGED <<admitted, usable, dossier, starting, reviewing,
                 collector, offered, upsets>>

(* prepare_ask_for_fix_watch_review *)
ReviewBegins(w) ==
  /\ watches[w].state = "review_ready" /\ dossier[w].supporting # {}
  /\ w \notin reviewing /\ reviewing' = reviewing \cup {w}
  /\ UNCHANGED <<admitted, usable, watches, dossier, starting,
                 collector, offered, upsets>>

(* review_ask_for_fix_watch ends: a question keeps the watch on, any other   *)
(* move closes it, and a failed or cancelled one leaves it as it is.        *)
ReviewEnds(w) ==
  /\ w \in reviewing /\ reviewing' = reviewing \ {w}
  /\ \/ UNCHANGED watches
     \/ /\ watches[w].state = "review_ready"
        /\ \E state \in {"active", "dismissed"} : SetState(w, state)
  /\ UNCHANGED <<admitted, usable, dossier, starting, collector,
                 offered, upsets>>

-----------------------------------------------------------------------------
(* collect_ask_for_fix_watches *)

(* The round never gets past its first watch. *)
WholeRound(t) == [Idling EXCEPT !.todo = collector.todo]

(* One watch of the round is taken up or done with. *)
RestOf(t) == [Idling EXCEPT !.todo = collector.todo \ {t}]

(* The watches that are active now, and their cursors, are read once. *)
CollectBegins ==
  /\ collector.todo = {} /\ collector.at = NoWatch
  /\ \E w \in Watches : watches[w].state = "active"
  /\ collector' = [Idling EXCEPT
       !.todo = {[watch |-> w, from |-> watches[w].cursor] :
                   w \in {v \in Watches : watches[v].state = "active"}}]
  /\ UNCHANGED <<admitted, usable, watches, dossier, starting,
                 reviewing, offered, upsets>>

(* The first WindowSize observations after a cursor. *)
Following(from) ==
  {n \in Observed : n > from /\
                    Cardinality({k \in Observed : from < k /\ k < n}) < WindowSize}

LatestOf(seqs) == CHOOSE n \in seqs : \A k \in seqs : k =< n

(* The cursor moves to the newest observation, not to the last one shown. *)
EndOfHistory(seqs) == admitted

(* to_sequence *)
EndOf(seqs) == LatestOf(seqs)

CollectNothingNew(t) ==
  /\ collector.at = NoWatch /\ Following(t.from) = {}
  /\ collector' = RestOf(t)
  /\ UNCHANGED <<admitted, usable, watches, dossier, starting, reviewing,
                 offered, upsets>>

(* No candidate among them: the cursor moves on at once. *)
CollectNoCandidate(t) ==
  /\ collector.at = NoWatch /\ Following(t.from) # {}
  /\ watches' = [watches EXCEPT ![t.watch].cursor = EndOf(Following(t.from))]
  /\ offered' = [offered EXCEPT ![t.watch] = @ \cup Following(t.from)]
  /\ collector' = RestOf(t)
  /\ UNCHANGED <<admitted, usable, dossier, starting, reviewing, upsets>>

CollectAsks(t) ==
  /\ collector.at = NoWatch
  /\ \E found \in (SUBSET Following(t.from)) \ {{}} :
       collector' = [RestOf(t) EXCEPT !.at = t.watch, !.found = found,
                                      !.shown = Following(t.from)]
  /\ UNCHANGED <<admitted, usable, watches, dossier, starting, reviewing,
                 offered, upsets>>

(* An answer may name candidates only.  What comes first is looked up before *)
(* the write lock is taken by its insert: checked.  The decision counts if   *)
(* any supporting evidence was named.                                       *)
CollectAnswers ==
  /\ collector.at # NoWatch /\ ~collector.answered
  /\ \E supporting \in SUBSET collector.found :
     \E rejected \in SUBSET (collector.found \ supporting) :
     \E checked \in SUBSET (usable \cap (supporting \cup rejected)) :
     \E decides \in BOOLEAN :
       /\ Cardinality(checked) =< 1
       /\ checked \cap rejected # {} => supporting \cap usable = {}
       /\ collector' = [collector EXCEPT
            !.supporting = supporting, !.rejected = rejected,
            !.checked = checked, !.found = {}, !.ready = decides /\ supporting # {},
            !.answered = TRUE]
  /\ UNCHANGED <<admitted, usable, watches, dossier, starting,
                 reviewing, offered, upsets>>

(* The provider fails, or its answer is not one: the round ends for all. *)
CollectFails ==
  /\ collector.at # NoWatch /\ ~collector.answered /\ Upset
  /\ collector' = Idling
  /\ UNCHANGED <<admitted, usable, watches, dossier, starting,
                 reviewing, offered>>

(* The evaluation is written in one transaction.  It looks neither at the    *)
(* state nor at the cursor of the watch as they are by now.                 *)
CollectWrites ==
  /\ collector.answered
  /\ LET w == collector.at
         eligible == usable \cup collector.checked
         supporting == dossier[w].supporting \cup (collector.supporting \cap eligible)
     IN
     /\ dossier' = [dossier EXCEPT ![w] =
          [supporting |-> supporting,
           rejected   |-> (dossier[w].rejected
                           \cup (collector.rejected \cap eligible)) \ supporting]]
     /\ watches' = [watches EXCEPT
          ![w].state  = IF collector.ready THEN "review_ready" ELSE @,
          ![w].cursor = EndOf(collector.shown)]
     /\ offered' = [offered EXCEPT ![w] = @ \cup collector.shown]
     /\ collector' = [Idling EXCEPT !.todo = collector.todo]
  /\ UNCHANGED <<admitted, usable, starting, reviewing, upsets>>

-----------------------------------------------------------------------------
(* The rest of the app. *)

(* admit_observation, from an accepted batch of the Explorer. *)
Observe ==
  /\ admitted < MaxAdmitted /\ admitted' = admitted + 1
  /\ usable' = usable \cup {admitted + 1}
  /\ UNCHANGED <<watches, dossier, starting, reviewing, collector,
                 offered, upsets>>

(* reconcile_live_policy: an exclusion leaves every dossier as it is. *)
ExcludeEvidence(e) ==
  /\ Upset /\ e \in usable /\ usable' = usable \ {e}
  /\ UNCHANGED <<admitted, watches, dossier, starting, reviewing,
                 collector, offered>>

ReadyAgain(state) == IF state = "review_ready" THEN "active" ELSE state

(* The state is not looked at. *)
AlwaysActive(state) == "active"

(* forget_capture_evidence: a watch that relied on it looks again. *)
AfterForgetting(state) == ReadyAgain(state)

ForgetEvidence(e) ==
  /\ Upset /\ e \in Observed
  /\ usable' = usable \ {e}
  /\ watches' = [w \in Watches |->
       IF e \in dossier[w].supporting \cup dossier[w].rejected
       THEN [watches[w] EXCEPT !.state = AfterForgetting(@)] ELSE watches[w]]
  /\ dossier' = [w \in Watches |->
       [supporting |-> dossier[w].supporting \ {e},
        rejected   |-> dossier[w].rejected \ {e}]]
  /\ UNCHANGED <<admitted, starting, reviewing, collector, offered>>

WatchCrash ==
  /\ Upset
  /\ starting' = {} /\ reviewing' = {} /\ collector' = Idling
  /\ UNCHANGED <<admitted, usable, watches, dossier, offered>>

CollectStep ==
  \/ CollectBegins
  \/ \E t \in collector.todo : \/ CollectNothingNew(t)
                               \/ CollectNoCandidate(t)
                               \/ CollectAsks(t)
  \/ CollectAnswers \/ CollectFails \/ CollectWrites

WatchNext ==
  \/ CollectStep
  \/ \E w \in Watches : \/ StartCounts(w) \/ StartInserts(w) \/ StopWatch(w)
                        \/ Guide(w) \/ ReviewBegins(w) \/ ReviewEnds(w)
  \/ Observe
  \/ \E e \in Observed : ExcludeEvidence(e) \/ ForgetEvidence(e)
  \/ WatchCrash

WatchSpec == WatchInit /\ [][WatchNext]_watchVars

(* The tick returns every quarter of an hour.  It takes the watches in the   *)
(* order of the table, here in any, and finishes a round that does not fail. *)
WatchFairSpec == WatchSpec /\ WF_watchVars(CollectStep)

-----------------------------------------------------------------------------
(* Properties. *)

(* The variables hold what the columns and the locals allow. *)
WatchTypeOK ==
  /\ admitted \in 0..MaxAdmitted /\ upsets \in 0..MaxUpsets
  /\ usable \subseteq Observed
  /\ watches \in [Watches -> [state : WatchStates, baseline : Nat,
                              cursor : Int, rechecked : BOOLEAN]]
  /\ dossier \in [Watches -> [supporting : SUBSET Observed,
                              rejected : SUBSET Observed]]
  /\ starting \subseteq Watches /\ reviewing \subseteq Watches
  /\ collector \in
       [todo : SUBSET [watch : Watches, from : Int], at : Watches \cup {NoWatch}, 
        shown : SUBSET Observed, found : SUBSET Observed,
        supporting : SUBSET Observed, rejected : SUBSET Observed,
        checked : SUBSET Observed,
        ready : BOOLEAN, answered : BOOLEAN]
  /\ offered \in [Watches -> SUBSET Observed]

(* Every observation between the baseline of a watch and its cursor was      *)
(* shown to it in an evaluation that counted, whatever guidance, failures    *)
(* and crashes came between.  "Failures do not advance the cursor."         *)
NothingUnwatched ==
  \A w \in Watches : watches[w].state # "none" =>
    {n \in Observed : watches[w].baseline < n /\ n =< watches[w].cursor}
      \subseteq offered[w]

(* A watch that the user stopped or that a review closed is not taken up     *)
(* again, unless the evaluation under way when it ended says it is ready.    *)
EndedStaysEnded ==
  [][\A w \in Watches :
       watches[w].state \in {"stopped", "dismissed"} =>
         \/ watches'[w].state = watches[w].state
         \/ collector.at = w /\ collector.ready]_watchVars

(* An active watch catches up with what is admitted, or ends: a failed round *)
(* is taken up again, and no window stands still.                           *)
WatchesCatchUp ==
  \A w \in Watches :
    []<>(watches[w].state = "active" => Following(watches[w].cursor) = {})
=============================================================================
