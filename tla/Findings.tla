------------------------------- MODULE Findings -------------------------------
(***************************************************************************)
(* The cards of Worth Fixing and the evidence they rest on:                *)
(* crates/dystil-insights/src/store.rs over the tables evidence,           *)
(* opportunities, opportunity_versions, occurrences, findings,             *)
(* finding_evidence and dispositions.                                      *)
(*                                                                         *)
(* Five tasks change them with no lock in common: the background tick      *)
(* (reconcile_live_policy, then the Explorer's admission), the Steward     *)
(* that accepts a reconciliation, the user who disposes of a card or keeps *)
(* it, a scoped deletion, and retention.  Each transaction is one step: it *)
(* reads a snapshot and fails if another one wrote first.                  *)
(*                                                                         *)
(* An evidence id is its capture row's; rows are numbered by age.  One     *)
(* reconciliation changes one opportunity.  opportunities.current_status,  *)
(* which every one of these steps ends by recomputing from the active      *)
(* findings, decides nothing here and is left out.                         *)
(***************************************************************************)
EXTENDS Integers, Sequences, FiniteSets, FiniteSetsExt

CONSTANTS
  Rows,            \* capture rows, and the evidence ids they give
  Opportunities,   \* opportunity ids
  RefLimit,        \* evidence rows one tick reconciles: 10,000 in the app
  MaxVersions,     \* bound: versions of one opportunity
  Disturbances,    \* bound: which of "policy", "rewrite", "expire", "forget",
                   \*   "failure" and "crash" happen
  MaxDisturbances  \* bound: disturbances in one behaviour

ASSUME BoundsAssumption ==
  /\ Rows \subseteq Nat \ {0} /\ IsFiniteSet(Rows)
  /\ {RefLimit, MaxVersions, MaxDisturbances} \subseteq Nat
  /\ Disturbances \subseteq
       {"policy", "rewrite", "expire", "forget", "failure", "crash"}

VARIABLES
  present, excluded, rewritten,     \* capture rows: stored, excluded, rewritten
  evidence, cursor,                 \* the rows of table evidence, by id, and the
                                    \*   last row the Explorer has consumed
  versions,                         \* of each opportunity: the evidence under the
                                    \*   finding of each version, if it has one
  active, disposed,                 \* findings: active=1, with a disposition
  tick, user, forget,               \* where each task is, and its locals
  stranded,                         \* history: cards that a deletion still had to
                                    \*   withdraw when it was cut short
  disturbed                         \* how many disturbances there were

captureVars == <<present, excluded, rewritten>>
cardVars    == <<versions, active, disposed>>
taskVars    == <<tick, user, forget, stranded>>
vars        == <<captureVars, evidence, cursor, cardVars, taskVars, disturbed>>

-----------------------------------------------------------------------------
(* What the queries read. *)

(* An evidence row whose flags let it be used. *)
Admissible(e) == e \in DOMAIN evidence /\ evidence[e].allowed /\ ~evidence[e].deleted

(* What known_source_refs lists, but for its limit. *)
Tracked(e) == e \in DOMAIN evidence /\ ~evidence[e].deleted

(* A finding is named by its opportunity and its version's ordinal. *)
Basis(f) == versions[f[1]][f[2]]

Finding == {f \in Opportunities \X (1 .. MaxVersions) :
              f[2] =< Len(versions[f[1]]) /\ Basis(f) # {}}

Relying(e) == {f \in Finding : e \in Basis(f)}

-----------------------------------------------------------------------------
(* Bookkeeping. *)

Idle == [pc |-> "idle", rules |-> {}, refs |-> {}, seen |-> {}, last |-> 0]
AtRest == [pc |-> "idle", left |-> {}, rows |-> {}, owed |-> {}]

(* The user's task holds the card whose disposition it has begun, if any. *)
NoCard == <<0, 0>>

Disturb(kind) ==
  /\ kind \in Disturbances /\ disturbed < MaxDisturbances
  /\ disturbed' = disturbed + 1

Init ==
  /\ present = Rows /\ excluded = {} /\ rewritten = {}
  /\ evidence = << >> /\ cursor = 0
  /\ versions = [o \in Opportunities |-> << >>]
  /\ active = {} /\ disposed = {}
  /\ tick = Idle /\ user = NoCard /\ forget = AtRest /\ stranded = {}
  /\ disturbed = 0

-----------------------------------------------------------------------------
(* The capture side. *)

(* The user adds an exclusion that covers row e, or removes it. *)
ChangePolicy(e) ==
  /\ Disturb("policy")
  /\ excluded' = IF e \in excluded THEN excluded \ {e} ELSE excluded \cup {e}
  /\ UNCHANGED <<cursor, present, rewritten, evidence, cardVars, taskVars>>

(* redact_frame overwrites the text of a row. *)
Rewrite(e) ==
  /\ e \in present \ rewritten
  /\ Disturb("rewrite")
  /\ rewritten' = rewritten \cup {e}
  /\ UNCHANGED <<cursor, present, excluded, evidence, cardVars, taskVars>>

(* Retention deletes the oldest row. *)
Expire ==
  /\ present # {}
  /\ Disturb("expire")
  /\ present' = present \ {Min(present)}
  /\ UNCHANGED <<cursor, excluded, rewritten, evidence, cardVars, taskVars>>

-----------------------------------------------------------------------------
(* The background tick. *)

(* resolve_capture_evidence, under the rules the tick has read. *)
Resolve(e, rules) == [row |-> e, text |-> e \in rewritten, allowed |-> e \notin rules]

(* tick reads the admission rules and the oldest evidence that is not       *)
(* deleted.                                                                 *)
StartTick ==
  /\ tick.pc = "idle"
  /\ LET known == {e \in Rows : Tracked(e)} IN
     tick' = [Idle EXCEPT !.pc = "reconcile", !.rules = excluded, !.last = cursor,
                !.refs = {e \in known : Cardinality({d \in known : d < e}) < RefLimit}]
  /\ UNCHANGED <<captureVars, cursor, evidence, cardVars, user, forget, stranded, disturbed>>

(* reconcile_live_policy resolves the next known row ... *)
ReconcileRow ==
  /\ tick.pc = "reconcile" /\ tick.seen = {} /\ tick.refs # {}
  /\ Min(tick.refs) \in present
  /\ tick' = [tick EXCEPT !.refs = @ \ {Min(@)},
                          !.seen = {Resolve(Min(tick.refs), tick.rules)}]
  /\ UNCHANGED <<captureVars, cursor, evidence, cardVars, user, forget, stranded, disturbed>>

(* A row that is gone is passed over. *)
PassOverMissing ==
  /\ tick.pc = "reconcile" /\ tick.seen = {} /\ tick.refs # {}
  /\ Min(tick.refs) \notin present
  /\ tick' = [tick EXCEPT !.refs = @ \ {Min(@)}]
  /\ UNCHANGED <<captureVars, cursor, evidence, cardVars, user, forget, stranded, disturbed>>

(* ... or finds it gone: mark_source_deleted, unless a deletion marked it. *)
MarkSourceDeleted ==
  /\ tick.pc = "reconcile" /\ tick.seen = {} /\ tick.refs # {}
  /\ LET e == Min(tick.refs) IN
     /\ e \notin present
     /\ IF evidence[e].deleted
        THEN tick' = [tick EXCEPT !.refs = @ \ {e}] /\ UNCHANGED <<evidence, active>>
        ELSE /\ tick' = [tick EXCEPT !.refs = @ \ {e}]
             /\ evidence' = [evidence EXCEPT ![e].deleted = TRUE]
             /\ active' = active \ Relying(e)
  /\ UNCHANGED <<captureVars, cursor, versions, disposed,
                 user, forget, stranded, disturbed>>

(* The Explorer resolves the rows of its window and drops the excluded ones; *)
(* the whole window is dropped when compaction finds nothing new in it.     *)
OpenWindow ==
  /\ tick.pc = "reconcile" /\ tick.seen = {} /\ tick.refs = {}
  /\ \E last \in {e \in present : e > cursor}, new \in BOOLEAN :
       LET window == {e \in present : cursor < e /\ e =< last} \ tick.rules IN
       tick' = [tick EXCEPT !.pc = "explore", !.rules = {}, !.last = last,
                  !.seen = IF new THEN {Resolve(e, tick.rules) : e \in window} ELSE {}]
  /\ UNCHANGED <<captureVars, cursor, evidence, cardVars, user, forget, stranded, disturbed>>

(* The row whose record is upserted next. *)
NextSeen == CHOOSE r \in tick.seen : \A s \in tick.seen : r.row =< s.row

Collides(r) == r.row \in DOMAIN evidence /\ evidence[r.row].text # r.text

File(r) ==
  evidence' = [e \in DOMAIN evidence \cup {r.row} |->
                 IF e = r.row THEN [text |-> r.text, allowed |-> r.allowed, deleted |-> FALSE]
                 ELSE evidence[e]]

(* Evidence that is not allowed leaves the cards that rest on it alone. *)
UpsertKeepingCards ==
  /\ tick.seen # {} /\ ~Collides(NextSeen)
  /\ File(NextSeen)
  /\ tick' = [tick EXCEPT !.seen = @ \ {NextSeen}]
  /\ UNCHANGED <<captureVars, cursor, cardVars, user, forget, stranded, disturbed>>

(* Evidence that is allowed again brings its last card back. *)
UpsertRestoringCards ==
  /\ tick.seen # {} /\ ~Collides(NextSeen)
  /\ File(NextSeen)
  /\ active' = IF NextSeen.allowed
               THEN active \cup {f \in Relying(NextSeen.row) \ disposed :
                                   f[2] = Len(versions[f[1]])}
               ELSE active \ Relying(NextSeen.row)
  /\ tick' = [tick EXCEPT !.seen = @ \ {NextSeen}]
  /\ UNCHANGED <<captureVars, cursor, versions, disposed,
                 user, forget, stranded, disturbed>>

(* upsert_evidence files the record as it was resolved, not deleted; a card  *)
(* that rests on a record that is not admissible is withdrawn with it.      *)
Upsert ==
  /\ tick.seen # {} /\ ~Collides(NextSeen)
  /\ File(NextSeen)
  /\ active' = IF NextSeen.allowed THEN active ELSE active \ Relying(NextSeen.row)
  /\ tick' = [tick EXCEPT !.seen = @ \ {NextSeen}]
  /\ UNCHANGED <<captureVars, cursor, versions, disposed,
                 user, forget, stranded, disturbed>>

(* A record whose text is not the one on file is refused, and the tick ends: *)
(* the rows that follow are not looked at.                                  *)
UpsertCollides ==
  /\ tick.seen # {} /\ Collides(NextSeen)
  /\ tick' = Idle
  /\ UNCHANGED <<captureVars, cursor, evidence, cardVars, user, forget, stranded, disturbed>>

(* The tick ends with its window consumed, or postponed when the provider    *)
(* failed; there may be no window, or a resumed batch that has no rows.     *)
EndTick ==
  /\ tick.pc \in {"reconcile", "explore"} /\ tick.refs = {} /\ tick.seen = {}
  /\ cursor' \in {cursor, tick.last}
  /\ tick' = Idle
  /\ UNCHANGED <<captureVars, evidence, cardVars, user, forget, stranded, disturbed>>

-----------------------------------------------------------------------------
(* The Steward: apply_reconciliation_inner on one opportunity.              *)

(* The evidence a proposal's credible finding may rest on.  Any evidence on  *)
(* file is in the opportunity's history or may be added to it by the same    *)
(* proposal, so what is left of the checks is that it is admissible.        *)
Usable == {e \in DOMAIN evidence : Admissible(e)}

(* The version is appended and the opportunity's cards are withdrawn; its    *)
(* finding becomes the card, even when the proposal withdraws the current.  *)
(* A proposal that retires the opportunity, or has no credible finding, has  *)
(* no basis.  A new opportunity has an occurrence, hence evidence.          *)
Accept(o) ==
  /\ Len(versions[o]) < MaxVersions
  /\ versions[o] = << >> => DOMAIN evidence # {}
  /\ \E basis \in SUBSET Usable :
       LET ordinal == Len(versions[o]) + 1
           card    == IF basis = {} THEN {} ELSE {<<o, ordinal>>}
       IN /\ versions' = [versions EXCEPT ![o] = Append(@, basis)]
          /\ active' = {f \in active : f[1] # o} \cup card
  /\ UNCHANGED <<captureVars, cursor, evidence, disposed, taskVars, disturbed>>

-----------------------------------------------------------------------------
(* The user. *)

(* The transaction that record_disposition and keep_finding end with. *)
DisposeOf(f) ==
  /\ disposed' = disposed \cup {f}
  /\ active' = active \ {f}

(* record_disposition sees an active card ... *)
BeginDisposition(f) ==
  /\ user = NoCard /\ f \in active
  /\ user' = f
  /\ UNCHANGED <<captureVars, cursor, evidence, cardVars, tick, forget, stranded, disturbed>>

(* ... and then disposes of it, active or not. *)
EndDisposition ==
  /\ user # NoCard
  /\ DisposeOf(user)
  /\ user' = NoCard
  /\ UNCHANGED <<captureVars, cursor, evidence, versions, tick, forget, stranded, disturbed>>

(* keep_finding, in one transaction, of a card whose evidence is there. *)
KeepFinding(f) ==
  /\ f \in active /\ \A e \in Basis(f) : Admissible(e)
  /\ DisposeOf(f)
  /\ UNCHANGED <<captureVars, cursor, evidence, versions, taskVars, disturbed>>

-----------------------------------------------------------------------------
(* A scoped deletion: delete_capture_data and forget_capture_evidence. *)

BeginForget(scope) ==
  /\ forget.pc = "idle" /\ scope # {}
  /\ Disturb("forget")
  /\ forget' = [pc |-> "chunks", left |-> scope, rows |-> scope, owed |-> {}]
  /\ UNCHANGED <<captureVars, cursor, evidence, cardVars, tick, user, stranded>>

(* A chunk of one row: its cards are noted, its evidence is scrubbed, in a   *)
(* transaction of its own.                                                  *)
ForgetChunk ==
  /\ forget.pc = "chunks" /\ forget.left # {}
  /\ LET e == Min(forget.left) IN
     /\ forget' = [forget EXCEPT !.left = @ \ {e}, !.owed = @ \cup Relying(e)]
     /\ evidence' = [d \in DOMAIN evidence |->
                       IF d = e THEN [evidence[d] EXCEPT !.deleted = TRUE] ELSE evidence[d]]
  /\ UNCHANGED <<captureVars, cursor, cardVars, tick, user, stranded, disturbed>>

(* The cards that relied on forgotten rows are withdrawn afterwards, in      *)
(* another transaction.                                                     *)
WithdrawForgotten ==
  /\ forget.pc = "chunks" /\ forget.left = {}
  /\ active' = active \ forget.owed
  /\ forget' = [forget EXCEPT !.owed = {}, !.pc = "delete"]
  /\ UNCHANGED <<captureVars, cursor, evidence, versions, disposed,
                 tick, user, stranded, disturbed>>

(* delete_ids removes the capture rows last, chunk after chunk. *)
DeleteRow ==
  /\ forget.pc = "delete"
  /\ LET e == Min(forget.rows) IN
     /\ present' = present \ {e}
     /\ forget' = IF forget.rows = {e} THEN AtRest ELSE [forget EXCEPT !.rows = @ \ {e}]
  /\ UNCHANGED <<cursor, excluded, rewritten, evidence, cardVars, tick, user, stranded, disturbed>>

-----------------------------------------------------------------------------
(* The deletion ends before its time: the chunks it has scrubbed stay        *)
(* scrubbed, and the cards it held in memory are not withdrawn.             *)
CutShort == forget' = AtRest /\ stranded' = stranded \cup forget.owed

(* A statement fails, and the task that ran it ends with an error. *)
StatementFails ==
  /\ Disturb("failure")
  /\ \/ tick # Idle   /\ tick' = Idle    /\ UNCHANGED <<user, forget, stranded>>
     \/ user # NoCard /\ user' = NoCard  /\ UNCHANGED <<tick, forget, stranded>>
     \/ forget # AtRest /\ CutShort      /\ UNCHANGED <<tick, user>>
  /\ UNCHANGED <<captureVars, cursor, evidence, cardVars>>

(* The app ends and starts again: the tables stay, the tasks are gone. *)
Crash ==
  /\ Disturb("crash")
  /\ tick' = Idle /\ user' = NoCard /\ CutShort
  /\ UNCHANGED <<captureVars, cursor, evidence, cardVars>>

Tick ==
  \/ StartTick \/ ReconcileRow \/ MarkSourceDeleted
  \/ OpenWindow \/ Upsert \/ UpsertCollides \/ EndTick

Deletion ==
  \/ ForgetChunk \/ WithdrawForgotten \/ DeleteRow

Next ==
  \/ \E e \in Rows : ChangePolicy(e) \/ Rewrite(e)
  \/ Expire
  \/ Tick
  \/ \E o \in Opportunities : Accept(o)
  \/ \E f \in active : BeginDisposition(f) \/ KeepFinding(f)
  \/ EndDisposition
  \/ \E scope \in SUBSET present : BeginForget(scope)
  \/ Deletion
  \/ StatementFails
  \/ Crash

Spec == Init /\ [][Next]_vars

(* The loop ticks every fifteen minutes, and a tick and a deletion that have *)
(* begun go on: their awaits are on SQLite.                                 *)
FairSpec == Spec /\ WF_vars(Tick) /\ WF_vars(Deletion)

-----------------------------------------------------------------------------
(* The variables hold what the tables' types allow. *)
TypeOK ==
  /\ present \subseteq Rows /\ excluded \subseteq Rows /\ rewritten \subseteq Rows
  /\ DOMAIN evidence \subseteq Rows /\ cursor \in Rows \cup {0}
  /\ \A e \in DOMAIN evidence :
       evidence[e] \in [text : BOOLEAN, allowed : BOOLEAN, deleted : BOOLEAN]
  /\ \A o \in Opportunities, n \in 1 .. MaxVersions :
       n =< Len(versions[o]) => versions[o][n] \subseteq DOMAIN evidence
  /\ active \subseteq Finding /\ disposed \subseteq Finding
  /\ user \in Finding \cup {NoCard}

(* Every card that is shown is one that the durable record justifies: it is  *)
(* the finding of its opportunity's last version, nobody has disposed of it, *)
(* no exclusion on file covers what it rests on, and nothing under it has    *)
(* been deleted, unless a deletion under way is about to withdraw it, or one *)
(* was cut short, by a failed statement or the end of the app, between the   *)
(* transaction that scrubbed the evidence and the one that withdraws.       *)
Justified(f) ==
  /\ f[2] = Len(versions[f[1]])
  /\ f \notin disposed
  /\ \A e \in Basis(f) : /\ evidence[e].allowed
                         /\ evidence[e].deleted => f \in forget.owed \cup stranded

CardsAreJustified == \A f \in active : Justified(f)

(* A card that was withdrawn, disposed of or replaced never comes back.     *)
NoCardReturns == [][\A f \in Finding : f \notin active => f \notin active']_vars

(* source_admission.rs: a missing row "must be treated as a deletion by      *)
(* callers holding an older reference".                                     *)
GoneRowsAreDeleted ==
  \A e \in Rows : []<>(Tracked(e) => e \in present)

(* An exclusion that stays reaches the cards: in the end none rests on a row *)
(* it covers, but those a deletion that was cut short has stranded, and whose *)
(* evidence no tick looks at again.                                         *)
ExclusionsReachCards ==
  \A e \in Rows :
    <>[](e \in excluded) =>
      <>[](\A f \in active : e \in Basis(f) => f \in stranded /\ evidence[e].deleted)

(* store.rs: "Findings that relied on any forgotten source are withdrawn     *)
(* immediately": when no deletion is under way, no card rests on evidence   *)
(* that is marked deleted.                                                  *)
ForgottenIsWithdrawn ==
  forget = AtRest => \A f \in active : \A e \in Basis(f) : ~evidence[e].deleted
=============================================================================
