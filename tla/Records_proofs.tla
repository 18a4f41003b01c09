---------------------------- MODULE Records_proofs ----------------------------
(***************************************************************************)
(* Theorems about the records of the database, for every value of the      *)
(* constants: Findings, whose cards are shown and withdrawn, and           *)
(* RedactionQueue, whose rows lead a second pass over captured text.       *)
(***************************************************************************)
EXTENDS Findings, RedactionQueue, Collections, FiniteSetTheorems

-----------------------------------------------------------------------------
(* Findings and their cards (Findings).                                     *)

LEMMA BoundsAreNaturals == RefLimit \in Nat /\ MaxVersions \in Nat /\ MaxDisturbances \in Nat
<1>1. {RefLimit, MaxVersions, MaxDisturbances} \subseteq Nat
  BY BoundsAssumption
<1> QED
  BY <1>1

-----------------------------------------------------------------------------
(* The evidence and the cards hold what their tables allow. *)
Resolved == [row : Rows, text : BOOLEAN, allowed : BOOLEAN]

EvidenceTyped ==
  /\ present \subseteq Rows /\ excluded \subseteq Rows /\ rewritten \subseteq Rows
  /\ DOMAIN evidence \subseteq Rows /\ cursor \in Rows \cup {0}
  /\ \A e \in DOMAIN evidence :
       evidence[e] \in [text : BOOLEAN, allowed : BOOLEAN, deleted : BOOLEAN]

TickTyped ==
  /\ tick \in [pc : {"idle", "reconcile", "explore"}, rules : SUBSET Rows,
               refs : SUBSET Rows, seen : SUBSET Resolved, last : Rows \cup {0}]

CardsTyped ==
  /\ versions \in [Opportunities -> Seq(SUBSET Rows)]
  /\ \A o \in Opportunities : Len(versions[o]) =< MaxVersions
  /\ \A o \in Opportunities, n \in 1 .. MaxVersions :
       n =< Len(versions[o]) => versions[o][n] \subseteq DOMAIN evidence
  /\ active \subseteq Finding /\ disposed \subseteq Finding
  /\ user \in Finding \cup {NoCard}

ForgetTyped ==
  /\ forget \in [pc : {"idle", "chunks", "delete"}, left : SUBSET Rows,
                 rows : SUBSET Rows, owed : SUBSET Finding]
  /\ forget.pc # "chunks" => forget.owed = {}

RecordsTyped == EvidenceTyped /\ TickTyped /\ CardsTyped /\ ForgetTyped

-----------------------------------------------------------------------------
LEMMA RecordsInitTyped == Init => RecordsTyped
<1> SUFFICES ASSUME Init PROVE RecordsTyped
  OBVIOUS
<1>1. EvidenceTyped
  BY DEF Init, EvidenceTyped
<1>2. TickTyped
  BY DEF Init, TickTyped, Idle
<1>3. CardsTyped
  <2>1. versions \in [Opportunities -> Seq(SUBSET Rows)]
    BY DEF Init
  <2>2. \A o \in Opportunities : Len(versions[o]) = 0
    BY DEF Init
  <2> QED
    BY <2>1, <2>2, BoundsAreNaturals DEF Init, CardsTyped
<1>4. ForgetTyped
  BY DEF Init, ForgetTyped, AtRest
<1> QED
  BY <1>1, <1>2, <1>3, <1>4 DEF RecordsTyped

(* A record about to be filed is one of those that were resolved. *)
LEMMA NextSeenIsSeen ==
  ASSUME TickTyped, tick.seen # {}
  PROVE  NextSeen \in tick.seen
<1> DEFINE numbers == {r.row : r \in tick.seen}
<1>1. tick.seen \subseteq Resolved
  BY DEF TickTyped
<1>2. numbers \in SUBSET Nat /\ numbers # {}
  BY <1>1, BoundsAssumption DEF Resolved
<1>3. PICK n \in numbers : \A m \in numbers : n =< m
  BY <1>2, LeastExists
<1>4. \E r \in tick.seen : \A s \in tick.seen : r.row =< s.row
  BY <1>3
<1> QED
  BY <1>4 DEF NextSeen

-----------------------------------------------------------------------------
(* A step that leaves the versions alone and takes no row of evidence away   *)
(* keeps the cards' types, whatever it adds among the findings.             *)
LEMMA CardsStayTyped ==
  ASSUME CardsTyped, versions' = versions, DOMAIN evidence \subseteq DOMAIN evidence',
         active' \subseteq Finding, disposed' \subseteq Finding, user' \in Finding \cup {NoCard}
  PROVE  CardsTyped' /\ Finding' = Finding
<1>1. Finding' = Finding
  BY DEF Finding, Basis
<1> QED
  BY <1>1 DEF CardsTyped, NoCard

(* An acceptance adds one version, and with it the finding of that ordinal   *)
(* if it has a basis; the findings there were keep theirs.                  *)
LEMMA AcceptAddsOne ==
  ASSUME CardsTyped, NEW o \in Opportunities, Len(versions[o]) < MaxVersions,
         NEW basis \in SUBSET Rows, basis \subseteq DOMAIN evidence,
         versions' = [versions EXCEPT ![o] = Append(@, basis)],
         UNCHANGED <<evidence, disposed, user>>,
         active' \subseteq {f \in active : f[1] # o} \cup
                          (IF basis = {} THEN {} ELSE {<<o, Len(versions[o]) + 1>>})
  PROVE  /\ CardsTyped'
         /\ \A f \in Finding : f \in Finding' /\ Basis(f)' = Basis(f)
         /\ \A f \in Finding' : f \in Finding \/ (f = <<o, Len(versions[o]) + 1>> /\ Basis(f)' = basis)
         /\ Len(versions'[o]) = Len(versions[o]) + 1
         /\ \A p \in Opportunities : p # o => versions'[p] = versions[p]
         /\ <<o, Len(versions[o]) + 1>> \notin Finding
<1> DEFINE n == Len(versions[o]) + 1
<1>1. versions[o] \in Seq(SUBSET Rows) /\ n \in 1 .. MaxVersions
  BY BoundsAreNaturals DEF CardsTyped
<1>2. /\ versions'[o] = Append(versions[o], basis)
      /\ versions' \in [Opportunities -> Seq(SUBSET Rows)]
      /\ \A p \in Opportunities : p # o => versions'[p] = versions[p]
  BY <1>1 DEF CardsTyped
<1>3. /\ Len(versions'[o]) = n /\ versions'[o][n] = basis
      /\ \A k \in 1 .. MaxVersions : k =< Len(versions[o]) => versions'[o][k] = versions[o][k]
  BY <1>1, <1>2
<1>4. \A p \in Opportunities, k \in 1 .. MaxVersions :
        /\ k =< Len(versions[p]) => k =< Len(versions'[p]) /\ versions'[p][k] = versions[p][k]
        /\ k =< Len(versions'[p]) =>
             k =< Len(versions[p]) \/ (p = o /\ k = n /\ versions'[p][k] = basis)
  BY <1>1, <1>2, <1>3
<1> HIDE DEF n
<1>5. ASSUME NEW f \in Finding PROVE f \in Finding' /\ Basis(f)' = Basis(f)
  BY <1>4 DEF Finding, Basis
<1>6. ASSUME NEW f \in Finding'
      PROVE f \in Finding \/ (f = <<o, n>> /\ Basis(f)' = basis)
  BY <1>4 DEF Finding, Basis
<1>7. <<o, n>> \notin Finding
  BY <1>1 DEF Finding, n
<1>8. CardsTyped'
  <2>1. \A p \in Opportunities : Len(versions'[p]) =< MaxVersions
    BY <1>1, <1>2, <1>3 DEF CardsTyped
  <2>2. \A p \in Opportunities, k \in 1 .. MaxVersions :
          k =< Len(versions'[p]) => versions'[p][k] \subseteq DOMAIN evidence'
    BY <1>4 DEF CardsTyped
  <2>3. disposed' \subseteq Finding' /\ user' \in Finding' \cup {NoCard}
    BY <1>5 DEF CardsTyped
  <2>4. basis # {} => <<o, n>> \in Finding'
    BY <1>1, <1>3 DEF Finding, Basis
  <2>5. active' \subseteq active \cup (IF basis = {} THEN {} ELSE {<<o, n>>})
    BY DEF n
  <2>6. active' \subseteq Finding'
    BY <1>5, <2>4, <2>5 DEF CardsTyped
  <2> QED
    BY <1>2, <2>1, <2>2, <2>3, <2>6 DEF CardsTyped, NoCard
<1> QED
  BY <1>2, <1>3, <1>5, <1>6, <1>7, <1>8 DEF n

LEMMA RecordsStepTyped == RecordsTyped /\ [Next]_vars => RecordsTyped'
<1> SUFFICES ASSUME RecordsTyped, [Next]_vars PROVE RecordsTyped'
  OBVIOUS
<1> USE DEF RecordsTyped
<1>1. CASE \E e \in Rows : ChangePolicy(e) \/ Rewrite(e)
  <2>1. UNCHANGED <<cursor, present, evidence, versions, active, disposed, tick, user, forget>>
    BY <1>1 DEF ChangePolicy, Rewrite, cardVars, taskVars
  <2>2. EvidenceTyped'
    BY <1>1, <2>1 DEF ChangePolicy, Rewrite, EvidenceTyped
  <2>3. CardsTyped' /\ Finding' = Finding
    BY <2>1, CardsStayTyped DEF CardsTyped
  <2>4. TickTyped' /\ ForgetTyped'
    BY <2>1, <2>3 DEF TickTyped, ForgetTyped, Resolved
  <2> QED
    BY <2>2, <2>3, <2>4
<1>2. CASE Expire
  <2>1. UNCHANGED <<cursor, excluded, rewritten, evidence, versions, active, disposed, tick, user, forget>>
    BY <1>2 DEF Expire, cardVars, taskVars
  <2>2. EvidenceTyped'
    BY <1>2, <2>1 DEF Expire, EvidenceTyped
  <2>3. CardsTyped' /\ Finding' = Finding
    BY <2>1, CardsStayTyped DEF CardsTyped
  <2>4. TickTyped' /\ ForgetTyped'
    BY <2>1, <2>3 DEF TickTyped, ForgetTyped, Resolved
  <2> QED
    BY <2>2, <2>3, <2>4
<1>3. CASE StartTick \/ ReconcileRow \/ OpenWindow \/ UpsertCollides \/ EndTick
  <2>1. UNCHANGED <<present, excluded, rewritten, evidence, versions, active, disposed, user, forget>>
    BY <1>3 DEF StartTick, ReconcileRow, OpenWindow, UpsertCollides, EndTick, cardVars, captureVars
  <2>2. cursor' \in Rows \cup {0}
    BY <1>3 DEF StartTick, ReconcileRow, OpenWindow, UpsertCollides, EndTick, EvidenceTyped, TickTyped
  <2>3. EvidenceTyped'
    BY <2>1, <2>2 DEF EvidenceTyped
  <2>4. CardsTyped' /\ Finding' = Finding
    BY <2>1, CardsStayTyped DEF CardsTyped
  <2>5. ForgetTyped'
    BY <2>1, <2>4 DEF ForgetTyped
  <2>6. TickTyped'
    <3>1. CASE StartTick
      BY <3>1 DEF StartTick, TickTyped, EvidenceTyped, Idle
    <3>2. CASE ReconcileRow
      <4>1. Min(tick.refs) \in Rows
        BY <3>2 DEF ReconcileRow, EvidenceTyped
      <4>2. Resolve(Min(tick.refs), tick.rules) \in Resolved
        BY <4>1 DEF Resolve, Resolved
      <4> QED
        BY <3>2, <4>2 DEF ReconcileRow, TickTyped
    <3>3. CASE OpenWindow
      <4>1. PICK last \in present, new \in BOOLEAN :
              LET window == {e \in present : cursor < e /\ e =< last} \ tick.rules IN
              tick' = [tick EXCEPT !.pc = "explore", !.rules = {}, !.last = last,
                         !.seen = IF new THEN {Resolve(e, tick.rules) : e \in window} ELSE {}]
        BY <3>3 DEF OpenWindow
      <4> DEFINE window == {e \in present : cursor < e /\ e =< last} \ tick.rules
                 seen == IF new THEN {Resolve(e, tick.rules) : e \in window} ELSE {}
      <4>2. seen \in SUBSET Resolved
        <5>1. \A e \in Rows : Resolve(e, tick.rules) \in Resolved
          BY DEF Resolve, Resolved
        <5>2. window \subseteq Rows
          BY DEF EvidenceTyped
        <5> QED
          BY <5>1, <5>2
      <4>3. tick' = [tick EXCEPT !.pc = "explore", !.rules = {}, !.last = last, !.seen = seen]
        BY <4>1
      <4> HIDE DEF seen
      <4> QED
        BY <4>2, <4>3 DEF TickTyped, EvidenceTyped
    <3>4. CASE UpsertCollides \/ EndTick
      BY <3>4 DEF UpsertCollides, EndTick, TickTyped, Idle
    <3> QED
      BY <1>3, <3>1, <3>2, <3>3, <3>4
  <2> QED
    BY <2>3, <2>4, <2>5, <2>6
<1>4. CASE MarkSourceDeleted
  <2>1. /\ UNCHANGED <<present, excluded, rewritten, cursor, versions, disposed, user, forget>>
        /\ DOMAIN evidence' = DOMAIN evidence /\ active' \subseteq active
        /\ tick' \in {[tick EXCEPT !.refs = @ \ {e}] : e \in {Min(tick.refs)}}
    BY <1>4 DEF MarkSourceDeleted, captureVars
  <2>2. \A e \in DOMAIN evidence :
          evidence'[e] \in [text : BOOLEAN, allowed : BOOLEAN, deleted : BOOLEAN]
    <3>1. PICK d : evidence' = evidence \/ evidence' = [evidence EXCEPT ![d].deleted = TRUE]
      BY <1>4 DEF MarkSourceDeleted
    <3> QED
      BY <3>1 DEF EvidenceTyped
  <2>3. EvidenceTyped'
    BY <2>1, <2>2 DEF EvidenceTyped
  <2>4. CardsTyped' /\ Finding' = Finding
    BY <2>1, CardsStayTyped DEF CardsTyped
  <2>5. TickTyped' /\ ForgetTyped'
    BY <2>1, <2>4 DEF TickTyped, ForgetTyped, Resolved
  <2> QED
    BY <2>3, <2>4, <2>5
<1>5. CASE Upsert
  <2>1. NextSeen \in Resolved
    BY <1>5, NextSeenIsSeen DEF Upsert, TickTyped
  <2>2. PICK r \in Resolved : r = NextSeen
    BY <2>1
  <2>3. UNCHANGED <<present, excluded, rewritten, cursor, versions, disposed, user, forget>>
    BY <1>5 DEF Upsert, captureVars
  <2>4. evidence' = [e \in DOMAIN evidence \cup {r.row} |->
                       IF e = r.row THEN [text |-> r.text, allowed |-> r.allowed, deleted |-> FALSE]
                       ELSE evidence[e]]
    BY <1>5, <2>2 DEF Upsert, File
  <2>5. DOMAIN evidence' = DOMAIN evidence \cup {r.row}
    BY <2>4
  <2>6. r.row \in Rows /\ r.text \in BOOLEAN /\ r.allowed \in BOOLEAN
    BY DEF Resolved
  <2>7. EvidenceTyped'
    BY <2>3, <2>4, <2>5, <2>6 DEF EvidenceTyped
  <2>8. active' \subseteq active
    BY <1>5 DEF Upsert
  <2>9. CardsTyped' /\ Finding' = Finding
    BY <2>3, <2>5, <2>8, CardsStayTyped DEF CardsTyped
  <2>10. TickTyped'
    BY <1>5 DEF Upsert, TickTyped
  <2>11. ForgetTyped'
    BY <2>3, <2>9 DEF ForgetTyped
  <2> QED
    BY <2>7, <2>9, <2>10, <2>11
<1>6. ASSUME NEW o \in Opportunities, Accept(o) PROVE RecordsTyped'
  <2> DEFINE n == Len(versions[o]) + 1
  <2>1. PICK basis \in SUBSET Usable :
          /\ versions' = [versions EXCEPT ![o] = Append(@, basis)]
          /\ active' = {f \in active : f[1] # o} \cup (IF basis = {} THEN {} ELSE {<<o, n>>})
    BY <1>6 DEF Accept
  <2>2. /\ UNCHANGED <<present, excluded, rewritten, cursor, evidence, disposed, tick, user, forget>>
        /\ Len(versions[o]) < MaxVersions
    BY <1>6 DEF Accept, captureVars, taskVars
  <2>3. basis \subseteq DOMAIN evidence /\ basis \in SUBSET Rows
    BY <2>1 DEF Usable, EvidenceTyped
  <2>4. /\ CardsTyped'
        /\ \A f \in Finding : f \in Finding'
    BY <2>1, <2>2, <2>3, AcceptAddsOne
  <2>5. EvidenceTyped' /\ TickTyped' /\ ForgetTyped'
    BY <2>2, <2>4 DEF EvidenceTyped, TickTyped, ForgetTyped
  <2> QED
    BY <2>4, <2>5
<1>7. CASE EndDisposition \/ \E f \in active : BeginDisposition(f) \/ KeepFinding(f)
  <2>1. /\ UNCHANGED <<present, excluded, rewritten, cursor, evidence, versions, tick, forget>>
        /\ active' \subseteq active
    BY <1>7 DEF EndDisposition, BeginDisposition, KeepFinding, DisposeOf, captureVars, cardVars, taskVars
  <2>2. disposed' \subseteq Finding /\ user' \in Finding \cup {NoCard}
    BY <1>7 DEF EndDisposition, BeginDisposition, KeepFinding, DisposeOf, cardVars, CardsTyped, taskVars
  <2>3. EvidenceTyped' /\ TickTyped'
    BY <2>1 DEF EvidenceTyped, TickTyped
  <2>4. CardsTyped' /\ Finding' = Finding
    BY <2>1, <2>2, CardsStayTyped DEF CardsTyped
  <2>5. ForgetTyped'
    BY <2>1, <2>4 DEF ForgetTyped
  <2> QED
    BY <2>3, <2>4, <2>5
<1>8. CASE \E scope \in SUBSET present : BeginForget(scope)
  <2>1. UNCHANGED <<present, excluded, rewritten, cursor, evidence, versions, active, disposed, tick, user>>
    BY <1>8 DEF BeginForget, captureVars, cardVars
  <2>2. EvidenceTyped' /\ TickTyped'
    BY <2>1 DEF EvidenceTyped, TickTyped
  <2>3. CardsTyped' /\ Finding' = Finding
    BY <2>1, CardsStayTyped DEF CardsTyped
  <2>4. ForgetTyped'
    BY <1>8, <2>3 DEF BeginForget, ForgetTyped, EvidenceTyped
  <2> QED
    BY <2>2, <2>3, <2>4
<1>9. CASE Deletion
  <2>1. UNCHANGED <<excluded, rewritten, cursor, versions, disposed, tick, user>>
    BY <1>9 DEF Deletion, ForgetChunk, WithdrawForgotten, DeleteRow, captureVars, cardVars
  <2>2. /\ DOMAIN evidence' = DOMAIN evidence
        /\ active' \subseteq active /\ present' \subseteq present
    BY <1>9 DEF Deletion, ForgetChunk, WithdrawForgotten, DeleteRow, captureVars, cardVars
  <2>3. \A e \in DOMAIN evidence :
          evidence'[e] \in [text : BOOLEAN, allowed : BOOLEAN, deleted : BOOLEAN]
    <3>1. CASE ForgetChunk
      <4>1. PICK d : evidence' = [e \in DOMAIN evidence |->
                IF e = d THEN [evidence[e] EXCEPT !.deleted = TRUE] ELSE evidence[e]]
        BY <3>1 DEF ForgetChunk
      <4> QED
        BY <4>1 DEF EvidenceTyped
    <3> QED
      BY <1>9, <3>1 DEF Deletion, WithdrawForgotten, DeleteRow, EvidenceTyped
  <2>4. EvidenceTyped' /\ TickTyped'
    BY <2>1, <2>2, <2>3 DEF EvidenceTyped, TickTyped
  <2>5. CardsTyped' /\ Finding' = Finding
    BY <2>1, <2>2, CardsStayTyped DEF CardsTyped
  <2>6. ForgetTyped'
    <3>1. CASE ForgetChunk
      <4>1. PICK e : forget' = [forget EXCEPT !.left = @ \ {e}, !.owed = @ \cup Relying(e)]
        BY <3>1 DEF ForgetChunk
      <4>2. Relying(e) \subseteq Finding /\ forget.pc = "chunks"
        BY <3>1 DEF Relying, ForgetChunk
      <4> QED
        BY <4>1, <4>2, <2>5 DEF ForgetTyped
    <3>2. CASE WithdrawForgotten
      BY <3>2, <2>5 DEF WithdrawForgotten, ForgetTyped
    <3>3. CASE DeleteRow
      BY <3>3, <2>5 DEF DeleteRow, ForgetTyped, AtRest
    <3> QED
      BY <1>9, <3>1, <3>2, <3>3 DEF Deletion
  <2> QED
    BY <2>4, <2>5, <2>6
<1>10. CASE StatementFails \/ Crash
  <2>1. /\ UNCHANGED <<present, excluded, rewritten, cursor, evidence, versions, active, disposed>>
        /\ tick' \in {tick, Idle} /\ user' \in {user, NoCard} /\ forget' \in {forget, AtRest}
    BY <1>10 DEF StatementFails, Crash, CutShort, captureVars, cardVars
  <2>2. CardsTyped' /\ Finding' = Finding
    BY <2>1, CardsStayTyped DEF CardsTyped
  <2>3. EvidenceTyped' /\ TickTyped' /\ ForgetTyped'
    BY <2>1, <2>2 DEF EvidenceTyped, TickTyped, ForgetTyped, Idle, AtRest
  <2> QED
    BY <2>2, <2>3
<1>11. CASE UNCHANGED vars
  <2>1. UNCHANGED <<present, excluded, rewritten, cursor, evidence, versions, active, disposed, tick, user, forget>>
    BY <1>11 DEF vars, captureVars, cardVars, taskVars
  <2>2. EvidenceTyped' /\ TickTyped'
    BY <2>1 DEF EvidenceTyped, TickTyped
  <2>3. CardsTyped' /\ Finding' = Finding
    BY <2>1, CardsStayTyped DEF CardsTyped
  <2>4. ForgetTyped'
    BY <2>1, <2>3 DEF ForgetTyped
  <2> QED
    BY <2>2, <2>3, <2>4
<1> QED
  BY <1>1, <1>2, <1>3, <1>4, <1>5, <1>6, <1>7, <1>8, <1>9, <1>10, <1>11
  DEF Next, Tick, Deletion

(* The tables hold what their types allow, whatever runs beside what.  *)
THEOREM FindingsTypeCorrect == Spec => []TypeOK
<1>1. RecordsTyped => TypeOK
  BY DEF RecordsTyped, EvidenceTyped, CardsTyped, TypeOK
<1> QED
  BY RecordsInitTyped, RecordsStepTyped, <1>1, PTL DEF Spec

-----------------------------------------------------------------------------
(* What a card owes its place to, by what can be disturbed separately: it is *)
(* of its opportunity's last version and nobody has disposed of it; and its *)
(* evidence is allowed, and deleted only by a deletion that has still to    *)
(* withdraw the card, or had when it was cut short.                         *)
Current(f) == f[2] = Len(versions[f[1]]) /\ f \notin disposed

Owed == forget.owed \cup stranded

Supported(f) ==
  \A e \in Basis(f) : evidence[e].allowed /\ (evidence[e].deleted => f \in Owed)

AllSupported == \A f \in active : Current(f) /\ Supported(f)

CardsInv == RecordsTyped /\ AllSupported

(* A step that withdraws cards and leaves their versions alone has only to   *)
(* show that the evidence of those that stay is still there.                *)
LEMMA StillSupported ==
  ASSUME CardsInv, versions' = versions, active' \subseteq active,
         \A f \in active' : f \notin disposed',
         \A f \in active' : Supported(f)'
  PROVE  AllSupported'
  BY DEF CardsInv, AllSupported, Current

(* What a finding rests on is on file. *)
LEMMA BasisIsOnFile ==
  ASSUME RecordsTyped, NEW f \in Finding
  PROVE  Basis(f) \subseteq DOMAIN evidence
  BY DEF RecordsTyped, CardsTyped, Finding, Basis

LEMMA SupportedHolds ==
  ASSUME CardsInv, UNCHANGED <<evidence, versions>>, active' \subseteq active,
         \A f \in active' : f \notin disposed',
         Owed \subseteq Owed'
  PROVE  AllSupported'
<1>1. ASSUME NEW f \in active' PROVE Supported(f)'
  BY <1>1 DEF CardsInv, AllSupported, Supported, Basis
<1> QED
  BY <1>1, StillSupported

LEMMA SupportedStep == CardsInv /\ [Next]_vars => AllSupported'
<1> SUFFICES ASSUME CardsInv, [Next]_vars PROVE AllSupported'
  OBVIOUS
<1> USE DEF CardsInv
<1>0. \A f \in active : f \notin disposed /\ f \in Finding
  BY DEF AllSupported, Current, RecordsTyped, CardsTyped
<1>1. CASE \/ \E e \in Rows : ChangePolicy(e) \/ Rewrite(e)
           \/ Expire \/ StartTick \/ ReconcileRow \/ OpenWindow \/ UpsertCollides \/ EndTick
           \/ \E f \in active : BeginDisposition(f)
           \/ UNCHANGED vars
  <2>1. UNCHANGED <<evidence, versions, active, disposed, forget, stranded>>
    BY <1>1 DEF ChangePolicy, Rewrite, Expire, StartTick, ReconcileRow, OpenWindow, UpsertCollides,
                EndTick, BeginDisposition, vars, captureVars, cardVars, taskVars
  <2> QED
    BY <1>0, <2>1, SupportedHolds DEF Owed
<1>2. CASE MarkSourceDeleted
  <2> DEFINE e == Min(tick.refs)
  <2>1. UNCHANGED <<versions, disposed, forget, stranded>>
    BY <1>2 DEF MarkSourceDeleted, captureVars
  <2>2. CASE UNCHANGED <<evidence, active>>
    BY <1>0, <2>1, <2>2, SupportedHolds DEF Owed
  <2>3. CASE /\ evidence' = [evidence EXCEPT ![e].deleted = TRUE]
             /\ active' = active \ Relying(e)
    <3> HIDE DEF e
    <3>1. ASSUME NEW f \in active' PROVE Supported(f)'
      <4>1. f \in active /\ f \in Finding /\ e \notin Basis(f)
        BY <1>0, <2>3 DEF Relying
      <4>2. Supported(f) /\ Basis(f)' = Basis(f)
        BY <2>1, <4>1 DEF AllSupported, Basis
      <4>3. \A d \in Basis(f) : evidence'[d] = evidence[d]
        BY <2>3, <4>1
      <4> QED
        BY <2>1, <4>2, <4>3 DEF Supported, Owed
    <3> QED
      BY <1>0, <2>1, <2>3, <3>1, StillSupported
  <2> QED
    BY <1>2, <2>2, <2>3 DEF MarkSourceDeleted
<1>3. CASE Upsert
  <2>1. PICK r : r = NextSeen
    OBVIOUS
  <2>2. /\ UNCHANGED <<versions, disposed, forget, stranded>>
        /\ evidence' = [e \in DOMAIN evidence \cup {r.row} |->
                          IF e = r.row THEN [text |-> r.text, allowed |-> r.allowed, deleted |-> FALSE]
                          ELSE evidence[e]]
        /\ active' = IF r.allowed THEN active ELSE active \ Relying(r.row)
    BY <1>3, <2>1 DEF Upsert, File, captureVars
  <2>3. ASSUME NEW f \in active' PROVE Supported(f)'
    <3>1. f \in active /\ f \in Finding /\ (r.allowed \/ r.row \notin Basis(f))
      BY <1>0, <2>2 DEF Relying
    <3>2. Supported(f) /\ Basis(f)' = Basis(f)
      BY <2>2, <3>1 DEF AllSupported, Basis
    <3>3. \A d \in Basis(f) :
            d \in DOMAIN evidence /\ (d # r.row => evidence'[d] = evidence[d])
      BY <2>2, <3>1, BasisIsOnFile
    <3>4. r.allowed => evidence'[r.row].allowed /\ ~evidence'[r.row].deleted
      BY <2>2
    <3> QED
      BY <2>2, <3>1, <3>2, <3>3, <3>4 DEF Supported, Owed
  <2> QED
    BY <1>0, <2>2, <2>3, StillSupported
<1>4. ASSUME NEW o \in Opportunities, Accept(o) PROVE AllSupported'
  <2> DEFINE n == Len(versions[o]) + 1
  <2>1. PICK basis \in SUBSET Usable :
          /\ versions' = [versions EXCEPT ![o] = Append(@, basis)]
          /\ active' = {f \in active : f[1] # o} \cup (IF basis = {} THEN {} ELSE {<<o, n>>})
    BY <1>4 DEF Accept
  <2>2. /\ UNCHANGED <<evidence, disposed, user, forget, stranded>>
        /\ Len(versions[o]) < MaxVersions
    BY <1>4 DEF Accept, captureVars, taskVars
  <2>3. basis \subseteq DOMAIN evidence /\ basis \in SUBSET Rows
    BY <2>1 DEF Usable, RecordsTyped, EvidenceTyped
  <2>4. active' \subseteq Finding'
    BY <1>4, RecordsStepTyped DEF Next, RecordsTyped, CardsTyped
  <2>5. /\ \A f \in Finding : f \in Finding' /\ Basis(f)' = Basis(f)
        /\ \A f \in Finding' : f \in Finding \/ (f = <<o, n>> /\ Basis(f)' = basis)
        /\ Len(versions'[o]) = n
        /\ \A p \in Opportunities : p # o => versions'[p] = versions[p]
        /\ <<o, n>> \notin Finding
    BY <2>1, <2>2, <2>3, AcceptAddsOne DEF RecordsTyped
  <2>6. ASSUME NEW f \in active' PROVE Current(f)' /\ Supported(f)'
    <3>1. CASE f \in active /\ f[1] # o
      <4>1. f \in Finding /\ f[1] \in Opportunities
        BY <1>0, <3>1 DEF Finding
      <4>2. Current(f)'
        BY <2>2, <2>5, <3>1, <4>1 DEF AllSupported, Current
      <4>3. Supported(f)'
        BY <2>2, <2>5, <3>1, <4>1 DEF AllSupported, Supported, Owed
      <4> QED
        BY <4>2, <4>3
    <3>2. CASE f = <<o, n>>
      <4>1. Basis(f)' = basis /\ f \notin disposed'
        BY <2>2, <2>4, <2>5, <3>2 DEF RecordsTyped, CardsTyped
      <4>2. Current(f)'
        <5>1. Len(versions'[o]) = n
          BY <2>5
        <5> QED
          BY <3>2, <4>1, <5>1 DEF Current
      <4>3. \A d \in basis : evidence'[d].allowed /\ ~evidence'[d].deleted
        BY <2>1, <2>2 DEF Usable, Admissible
      <4> QED
        BY <4>1, <4>2, <4>3 DEF Supported
    <3> QED
      BY <2>1, <3>1, <3>2
  <2> QED
    BY <2>6 DEF AllSupported
<1>5. CASE EndDisposition \/ \E f \in active : KeepFinding(f)
  <2>1. /\ UNCHANGED <<evidence, versions, forget, stranded>> /\ active' \subseteq active
        /\ \A f \in active' : f \notin disposed'
    BY <1>0, <1>5 DEF EndDisposition, KeepFinding, DisposeOf, captureVars, taskVars
  <2> QED
    BY <2>1, SupportedHolds DEF Owed
<1>6. CASE \/ \E scope \in SUBSET present : BeginForget(scope)
           \/ DeleteRow \/ StatementFails \/ Crash
  <2>1. UNCHANGED <<evidence, versions, active, disposed>>
    BY <1>6 DEF BeginForget, DeleteRow, StatementFails, Crash, captureVars, cardVars
  <2>2. Owed \subseteq Owed'
    <3>1. CASE \/ \E scope \in SUBSET present : BeginForget(scope)
               \/ DeleteRow
      BY <3>1 DEF BeginForget, DeleteRow, RecordsTyped, ForgetTyped, Owed
    <3>2. CASE StatementFails \/ Crash
      BY <3>2 DEF StatementFails, Crash, CutShort, Owed
    <3> QED
      BY <1>6, <3>1, <3>2
  <2> QED
    BY <1>0, <2>1, <2>2, SupportedHolds
<1>7. CASE ForgetChunk
  <2>1. PICK e :
          /\ forget' = [forget EXCEPT !.left = @ \ {e}, !.owed = @ \cup Relying(e)]
          /\ evidence' = [d \in DOMAIN evidence |->
                           IF d = e THEN [evidence[d] EXCEPT !.deleted = TRUE] ELSE evidence[d]]
    BY <1>7 DEF ForgetChunk
  <2>2. UNCHANGED <<versions, active, disposed, stranded>>
    BY <1>7 DEF ForgetChunk, cardVars
  <2>3. forget'.owed = forget.owed \cup Relying(e)
    BY <2>1 DEF RecordsTyped, ForgetTyped
  <2>4. ASSUME NEW f \in active' PROVE Supported(f)'
    <3>1. f \in Finding /\ Supported(f) /\ Basis(f)' = Basis(f)
      BY <1>0, <2>2 DEF AllSupported, Basis
    <3>2. e \in Basis(f) => f \in Owed'
      BY <2>3, <3>1 DEF Relying, Owed
    <3>3. Owed \subseteq Owed'
      BY <2>2, <2>3 DEF Owed
    <3>4. \A d \in Basis(f) :
            evidence'[d].allowed = evidence[d].allowed /\ (d # e => evidence'[d] = evidence[d])
      BY <2>1, <3>1, BasisIsOnFile DEF RecordsTyped, EvidenceTyped
    <3> QED
      BY <3>1, <3>2, <3>3, <3>4 DEF Supported
  <2> QED
    BY <1>0, <2>2, <2>4, StillSupported
<1>8. CASE WithdrawForgotten
  <2>1. UNCHANGED <<evidence, versions, disposed, stranded>> /\ active' = active \ forget.owed
    BY <1>8 DEF WithdrawForgotten, captureVars
  <2>2. ASSUME NEW f \in active' PROVE Supported(f)'
    BY <2>1 DEF AllSupported, Supported, Basis, Owed
  <2> QED
    BY <1>0, <2>1, <2>2, StillSupported
<1> QED
  BY <1>1, <1>2, <1>3, <1>4, <1>5, <1>6, <1>7, <1>8 DEF Next, Tick, Deletion

(* A card that is shown is one the durable record justifies, whatever fails  *)
(* or ends the app: the cards that a deletion leaves behind are those it had *)
(* scrubbed and not yet withdrawn when it was cut short.                    *)
THEOREM CardsStayJustified == Spec => []CardsAreJustified
<1>1. Init => CardsInv
  BY RecordsInitTyped DEF Init, CardsInv, AllSupported
<1>2. CardsInv /\ [Next]_vars => CardsInv'
  BY RecordsStepTyped, SupportedStep DEF CardsInv
<1>3. CardsInv => CardsAreJustified
  BY DEF CardsInv, AllSupported, Current, Supported, Owed, CardsAreJustified, Justified
<1> QED
  BY <1>1, <1>2, <1>3, PTL DEF Spec

(* Nothing brings a card back: of the steps that touch the cards, all but an *)
(* acceptance only withdraw, and an acceptance shows a finding that is new. *)
THEOREM CardsNeverReturn == Spec => NoCardReturns
<1>1. ASSUME RecordsTyped, [Next]_vars, NEW f \in Finding, f \notin active
      PROVE  f \notin active'
  <2>1. CASE \E o \in Opportunities : Accept(o)
    <3>1. PICK o \in Opportunities : Accept(o)
      BY <2>1
    <3>2. active' \subseteq active \cup {<<o, Len(versions[o]) + 1>>}
      BY <3>1 DEF Accept
    <3>3. <<o, Len(versions[o]) + 1>> \notin Finding
      <4>1. Len(versions[o]) \in Nat
        BY <1>1 DEF RecordsTyped, CardsTyped
      <4> QED
        BY <4>1 DEF Finding
    <3> QED
      BY <1>1, <3>2, <3>3
  <2>2. CASE ~\E o \in Opportunities : Accept(o)
    <3>1. active' \subseteq active
      BY <1>1, <2>2
      DEF Next, Tick, Deletion, ChangePolicy, Rewrite, Expire, StartTick, ReconcileRow,
          MarkSourceDeleted, OpenWindow, Upsert, UpsertCollides, EndTick, BeginDisposition,
          KeepFinding, EndDisposition, DisposeOf, BeginForget, ForgetChunk, WithdrawForgotten,
          DeleteRow, StatementFails, Crash, cardVars, vars
    <3> QED
      BY <1>1, <3>1
  <2> QED
    BY <2>1, <2>2
<1>2. RecordsTyped /\ [Next]_vars => (\A f \in Finding : f \notin active => f \notin active')
  BY <1>1
<1> QED
  BY RecordsInitTyped, RecordsStepTyped, <1>2, PTL DEF Spec, NoCardReturns

-----------------------------------------------------------------------------
(* The queue of the redaction worker (RedactionQueue).                      *)

LEMMA QueueBounds ==
  /\ NoWorker \notin Workers /\ BatchSize \in Nat \ {0} /\ MaxAttempts \in Nat \ {0}
  /\ MaxFrames \in Nat /\ MaxToggles \in Nat /\ MaxFaults \in Nat
BY QueueAssumption

(* What the table, the workers and the setting hold. *)
Ids  == 1 .. captured
Busy(w) == pc[w] \in {"row", "read", "write", "mark"}
Locals == [model : BOOLEAN, batch : Seq(PendingRow), text : {"deterministic", "model"},
           outcome : {"error", "deterministic", "model"}]

SettingShape ==
  /\ enabled \in BOOLEAN /\ toggles \in 0 .. MaxToggles
  /\ cmd \in {"idle", "save", "stop", "start", "await", "settle"}
  /\ phase \in {"off", "starting", "on", "draining", "joining"}
  /\ current \in Workers \cup {NoWorker} /\ (phase = "off" => current = NoWorker)

StoreShape ==
  /\ captured \in 0 .. MaxFrames /\ DOMAIN frames \subseteq Ids /\ enqueues \subseteq Ids
  /\ \A f \in DOMAIN frames : frames[f] \in {"deterministic", "model"}
  /\ old \subseteq Ids /\ contested \subseteq Ids

RowsShape ==
  /\ queue \in Seq(StateRows)
  /\ \A i, j \in DOMAIN queue : queue[i].frame = queue[j].frame => i = j
  /\ \A r \in ToSet(queue) : r.frame \in Ids /\ (r.status = "pending" => r.attempts < MaxAttempts)

WorkersShape ==
  /\ pc \in [Workers -> {"gone", "idle", "poll", "row", "read", "write", "mark"}]
  /\ local \in [Workers -> Locals]
  /\ \A w \in Workers : Held(w) \subseteq Ids /\ (Busy(w) <=> local[w].batch # <<>>)

FaultsShape == faults \in 0 .. MaxFaults /\ lossy \in BOOLEAN

QueueShape == SettingShape /\ StoreShape /\ RowsShape /\ WorkersShape /\ FaultsShape

(* What the last opt-in found idle is nowhere on its way to a worker. *)
OldIsLeft ==
  /\ old \cap enqueues = {} /\ \A w \in Workers : old \cap Held(w) = {}
  /\ \A r \in ToSet(queue) : r.status = "pending" => r.frame \notin old

(* Frames that exist and were never held twice are held once at most, and    *)
(* what their worker knows of them is true.                                 *)
Known == (DOMAIN frames) \ contested
Alone == \A v, w \in Workers : v # w => Held(v) \cap Held(w) \cap Known = {}
HandOK(w) ==
  Busy(w) /\ InHand(w) \in Known =>
    /\ pc[w] = "write" => local[w].text = frames[InHand(w)]
    /\ pc[w] = "mark" /\ local[w].outcome = "model" => frames[InHand(w)] = "model"
HandIsTrue == \A w \in Workers : HandOK(w)

QueueInv ==
  /\ QueueShape /\ OldIsLeft /\ Alone /\ HandIsTrue /\ BackendIsHonest /\ ProcessingIsInHand

-----------------------------------------------------------------------------
(* The rows but that of a frame. *)
LEMMA OthersAre ==
  ASSUME RowsShape, NEW f
  PROVE  /\ Others(f) \in Seq(StateRows) /\ ToSet(Others(f)) = {r \in ToSet(queue) : r.frame # f}
         /\ \A i, j \in DOMAIN Others(f) : Others(f)[i].frame = Others(f)[j].frame => i = j
<1>1. queue \in Seq(StateRows) /\ Len(queue) \in Nat /\ DOMAIN queue = 1 .. Len(queue)
  BY DEF RowsShape
<1>2. CASE \E i \in DOMAIN queue : queue[i].frame = f
  <2>1. PICK k \in 1 .. Len(queue) : queue[k].frame = f /\ Others(f) = RemoveAt(queue, k)
    BY <1>1, <1>2 DEF Others
  <2>9. /\ k \in Int /\ k - 1 \in Int /\ k + 1 \in Int /\ Len(queue) \in Int /\ k >= 1 /\ k =< Len(queue)
        /\ \A i \in 1 .. Len(queue) : queue[i] \in StateRows
    BY <1>1
  <2>2. PICK left \in Seq(StateRows) :
          left = SubSeq(queue, 1, k - 1) /\ Len(left) = k - 1 /\ \A i \in 1 .. (k - 1) : left[i] = queue[i]
    <3>1. \A i \in 1 .. (k - 1) : i \in 1 .. Len(queue)
      BY <2>9
    <3>2. /\ SubSeq(queue, 1, k - 1) \in Seq(StateRows)
          /\ Len(SubSeq(queue, 1, k - 1)) = IF 1 <= k - 1 THEN (k - 1) - 1 + 1 ELSE 0
          /\ \A i \in 1 .. (k - 1) - 1 + 1 : SubSeq(queue, 1, k - 1)[i] = queue[1 + i - 1]
      BY <2>9, <3>1, SubSeqProperties
    <3>3. Len(SubSeq(queue, 1, k - 1)) = k - 1
      BY <2>9, <3>2
    <3>4. \A i \in 1 .. (k - 1) : SubSeq(queue, 1, k - 1)[i] = queue[i]
      BY <2>9, <3>2
    <3> QED
      BY <3>2, <3>3, <3>4
  <2>3. PICK right \in Seq(StateRows) :
          /\ right = SubSeq(queue, k + 1, Len(queue)) /\ Len(right) = Len(queue) - k
          /\ \A i \in 1 .. (Len(queue) - k) : right[i] = queue[k + i]
    <3>1. \A i \in (k + 1) .. Len(queue) : i \in 1 .. Len(queue)
      BY <2>9
    <3>2. /\ SubSeq(queue, k + 1, Len(queue)) \in Seq(StateRows)
          /\ Len(SubSeq(queue, k + 1, Len(queue))) =
               IF k + 1 <= Len(queue) THEN Len(queue) - (k + 1) + 1 ELSE 0
          /\ \A i \in 1 .. Len(queue) - (k + 1) + 1 :
               SubSeq(queue, k + 1, Len(queue))[i] = queue[k + 1 + i - 1]
      BY <2>9, <3>1, SubSeqProperties
    <3>3. Len(SubSeq(queue, k + 1, Len(queue))) = Len(queue) - k
      BY <2>9, <3>2
    <3>4. \A i \in 1 .. (Len(queue) - k) : SubSeq(queue, k + 1, Len(queue))[i] = queue[k + i]
      BY <2>9, <3>2
    <3> QED
      BY <3>2, <3>3, <3>4
  <2>4. PICK rest \in Seq(StateRows) :
          /\ rest = Others(f) /\ Len(rest) = Len(queue) - 1
          /\ \A i \in 1 .. Len(queue) - 1 : rest[i] = IF i < k THEN queue[i] ELSE queue[i + 1]
    <3>1. Others(f) = left \o right
      BY <2>1, <2>2, <2>3 DEF RemoveAt
    <3>2. /\ left \o right \in Seq(StateRows) /\ Len(left \o right) = Len(left) + Len(right)
          /\ \A i \in 1 .. Len(left) + Len(right) :
               (left \o right)[i] = IF i <= Len(left) THEN left[i] ELSE right[i - Len(left)]
      BY ConcatProperties
    <3>3. Len(left) + Len(right) = Len(queue) - 1
      <4>1. \A a, n \in Int : (a - 1) + (n - a) = n - 1
        OBVIOUS
      <4>2. Len(left) + Len(right) = (k - 1) + (Len(queue) - k)
        BY <2>2, <2>3, Zenon
      <4> QED
        BY <2>9, <4>1, <4>2
    <3>4. ASSUME NEW i \in 1 .. Len(queue) - 1
          PROVE  (left \o right)[i] = IF i < k THEN queue[i] ELSE queue[i + 1]
      <4>1. CASE i < k
        <5>1. i <= Len(left) /\ i \in 1 .. (k - 1)
          BY <1>1, <2>2, <4>1
        <5> QED
          BY <2>2, <3>2, <3>3, <4>1, <5>1
      <4>2. CASE ~(i < k)
        <5>1. ~(i <= Len(left)) /\ i - Len(left) \in 1 .. (Len(queue) - k) /\ k + (i - Len(left)) = i + 1
          BY <1>1, <2>2, <4>2
        <5> QED
          BY <2>3, <3>2, <3>3, <4>2, <5>1
      <4> QED
        BY <4>1, <4>2
    <3> QED
      BY <3>1, <3>2, <3>3, <3>4
  <2>5. DOMAIN rest = 1 .. Len(queue) - 1
    BY <2>4
  <2>6. ToSet(rest) \subseteq {r \in ToSet(queue) : r.frame # f}
    <3> SUFFICES ASSUME NEW i \in 1 .. Len(queue) - 1 PROVE rest[i] \in ToSet(queue) /\ rest[i].frame # f
      BY <2>5 DEF ToSet
    <3>1. PICK j \in 1 .. Len(queue) : j # k /\ rest[i] = queue[j]
      <4>1. CASE i < k
        <5>1. i \in 1 .. Len(queue) /\ i # k
          BY <2>9, <4>1
        <5> QED
          BY <2>4, <4>1, <5>1
      <4>2. CASE ~(i < k)
        <5>1. i + 1 \in 1 .. Len(queue) /\ i + 1 # k
          BY <2>9, <4>2
        <5> QED
          BY <2>4, <4>2, <5>1
      <4> QED
        BY <4>1, <4>2
    <3> QED
      BY <1>1, <2>1, <3>1 DEF RowsShape, ToSet
  <2>7. {r \in ToSet(queue) : r.frame # f} \subseteq ToSet(rest)
    <3> SUFFICES ASSUME NEW j \in 1 .. Len(queue), queue[j].frame # f PROVE queue[j] \in ToSet(rest)
      BY <1>1 DEF ToSet
    <3>1. PICK i \in 1 .. Len(queue) - 1 : rest[i] = queue[j]
      <4>1. CASE j < k
        BY <1>1, <2>4, <4>1
      <4>2. CASE j > k
        <5>1. j - 1 \in 1 .. Len(queue) - 1 /\ ~(j - 1 < k) /\ (j - 1) + 1 = j
          BY <1>1, <4>2
        <5> QED
          BY <2>4, <5>1
      <4> QED
        BY <1>1, <2>1, <4>1, <4>2
    <3> QED
      BY <2>5, <3>1 DEF ToSet
  <2>8. ASSUME NEW i \in 1 .. Len(queue) - 1, NEW j \in 1 .. Len(queue) - 1, rest[i].frame = rest[j].frame
        PROVE  i = j
    <3>1. PICK a \in 1 .. Len(queue) : rest[i] = queue[a] /\ a = IF i < k THEN i ELSE i + 1
      BY <1>1, <2>4
    <3>2. PICK b \in 1 .. Len(queue) : rest[j] = queue[b] /\ b = IF j < k THEN j ELSE j + 1
      BY <1>1, <2>4
    <3>3. a = b
      BY <1>1, <2>8, <3>1, <3>2 DEF RowsShape
    <3> QED
      BY <1>1, <3>1, <3>2, <3>3
  <2> QED
    BY <2>4, <2>5, <2>6, <2>7, <2>8
<1>3. CASE ~\E i \in DOMAIN queue : queue[i].frame = f
  <2>1. Others(f) = queue
    BY <1>3 DEF Others
  <2>2. \A r \in ToSet(queue) : r.frame # f
    BY <1>3 DEF ToSet
  <2> QED
    BY <2>1, <2>2 DEF RowsShape
<1> QED
  BY <1>2, <1>3

(* A state row is written: one row for the frame, at the end of the queue. *)
LEMMA RowRecorded ==
  ASSUME RowsShape, NEW f \in Ids, NEW status \in Unsettled \cup Settled, NEW attempts \in 0 .. MaxAttempts,
         NEW backend \in {"none", "deterministic", "model"}, f \in 1 .. MaxFrames,
         status = "pending" => attempts < MaxAttempts, RecordState(f, status, attempts, backend), captured' = captured
  PROVE  /\ RowsShape'
         /\ ToSet(queue') = {r \in ToSet(queue) : r.frame # f}
              \cup {[frame |-> f, status |-> status, attempts |-> attempts, backend |-> backend]}
<1>1. PICK row \in StateRows :
        row = [frame |-> f, status |-> status, attempts |-> attempts, backend |-> backend]
  BY DEF StateRows
<1>2. PICK rest \in Seq(StateRows) :
        /\ rest = Others(f) /\ ToSet(rest) = {r \in ToSet(queue) : r.frame # f}
        /\ \A i, j \in DOMAIN rest : rest[i].frame = rest[j].frame => i = j
  BY OthersAre
<1>3. queue' = Append(rest, row)
  BY <1>1, <1>2 DEF RecordState
<1>4. queue' \in Seq(StateRows) /\ ToSet(queue') = ToSet(rest) \cup {row}
  BY <1>3, AppendSet
<1>5. /\ DOMAIN queue' = 1 .. (Len(rest) + 1) /\ DOMAIN rest = 1 .. Len(rest) /\ Len(rest) \in Nat
      /\ \A i \in 1 .. Len(rest) : queue'[i] = rest[i]
      /\ queue'[Len(rest) + 1] = row
  BY <1>3
<1>6. \A i \in 1 .. Len(rest) : rest[i].frame # f
  BY <1>2, <1>5 DEF ToSet
<1>7. \A i, j \in DOMAIN queue' : queue'[i].frame = queue'[j].frame => i = j
  BY <1>1, <1>2, <1>5, <1>6
<1>8. \A r \in ToSet(queue') : r.frame \in Ids' /\ (r.status = "pending" => r.attempts < MaxAttempts)
  BY <1>1, <1>2, <1>4 DEF RowsShape, Ids
<1> QED
  BY <1>1, <1>2, <1>4, <1>7, <1>8 DEF RowsShape

(* The queue is settled. *)
LEMMA RowsSettled ==
  ASSUME RowsShape, queue' = SettledQueue, captured' = captured
  PROVE  /\ RowsShape'
         /\ \A r \in ToSet(queue') : r.status \in Settled /\ (r \in ToSet(queue) \/ r.backend = "deterministic")
<1>1. queue \in Seq(StateRows) /\ Len(queue) \in Nat /\ DOMAIN queue = 1 .. Len(queue)
      /\ \A i \in 1 .. Len(queue) : queue[i] \in StateRows
  BY DEF RowsShape
<1>2. \A i \in 1 .. Len(queue) :
        /\ queue'[i] \in StateRows /\ queue'[i].frame = queue[i].frame /\ queue'[i].status \in Settled
        /\ queue'[i] = queue[i] \/ queue'[i].backend = "deterministic"
  <2> SUFFICES ASSUME NEW i \in 1 .. Len(queue)
               PROVE  /\ queue'[i] \in StateRows /\ queue'[i].frame = queue[i].frame
                      /\ queue'[i].status \in Settled
                      /\ queue'[i] = queue[i] \/ queue'[i].backend = "deterministic"
    OBVIOUS
  <2>1. queue[i] \in StateRows
    BY <1>1
  <2>2. CASE queue[i].status \in Unsettled
    <3>1. queue'[i] = [queue[i] EXCEPT !.status = "deterministic_fallback", !.backend = "deterministic"]
      BY <1>1, <2>2 DEF SettledQueue
    <3> QED
      BY <2>1, <3>1 DEF StateRows, Settled
  <2>3. CASE queue[i].status \notin Unsettled
    <3>1. queue'[i] = queue[i]
      BY <1>1, <2>3 DEF SettledQueue
    <3> QED
      BY <2>1, <2>3, <3>1 DEF StateRows
  <2> QED
    BY <2>2, <2>3
<1>3. queue' \in Seq(StateRows) /\ DOMAIN queue' = 1 .. Len(queue)
  <2>1. queue' = [i \in 1 .. Len(queue) |-> queue'[i]]
    BY <1>1 DEF SettledQueue
  <2>2. queue' \in [1 .. Len(queue) -> StateRows]
    BY <1>2, <2>1
  <2> QED
    BY <1>1, <2>2
<1>4. \A i, j \in DOMAIN queue' : queue'[i].frame = queue'[j].frame => i = j
  BY <1>1, <1>2, <1>3 DEF RowsShape
<1>5. \A r \in ToSet(queue') : r.frame \in Ids /\ r.status \in Settled /\ (r \in ToSet(queue) \/ r.backend = "deterministic")
  BY <1>1, <1>2, <1>3 DEF ToSet, RowsShape
<1>6. \A r \in ToSet(queue') : r.frame \in Ids' /\ (r.status = "pending" => r.attempts < MaxAttempts)
  BY <1>5 DEF Ids, Settled
<1> QED
  BY <1>3, <1>4, <1>5, <1>6 DEF RowsShape

-----------------------------------------------------------------------------
(* What a worker has in hand it holds. *)
LEMMA InHandHeld ==
  ASSUME WorkersShape, NEW w \in Workers, Busy(w)
  PROVE  /\ InHand(w) \in Held(w) /\ InHand(w) \in Ids /\ InHand(w) \in 1 .. MaxFrames
         /\ Attempt(w) \in 1 .. MaxAttempts
         /\ Tail(local[w].batch) \in Seq(PendingRow)
         /\ {r.frame : r \in ToSet(Tail(local[w].batch))} \subseteq Held(w)
<1>1. local[w].batch \in Seq(PendingRow) /\ local[w].batch # <<>> /\ Held(w) \subseteq Ids
  BY DEF WorkersShape, Locals
<1>2. PICK batch \in Seq(PendingRow) : batch = local[w].batch /\ batch # <<>>
  BY <1>1
<1>3. /\ Head(batch) \in PendingRow /\ Tail(batch) \in Seq(PendingRow)
      /\ ToSet(batch) = {Head(batch)} \cup ToSet(Tail(batch))
  BY <1>2, TailSet
<1>4. PICK first \in PendingRow : first = Head(batch)
  BY <1>3
<1>5. first.frame \in 1 .. MaxFrames /\ first.attempts \in 0 .. MaxAttempts - 1
  BY <1>4 DEF PendingRow
<1>6. first.attempts + 1 \in 1 .. MaxAttempts
  BY <1>5, QueueBounds
<1>7. InHand(w) = first.frame /\ Attempt(w) = first.attempts + 1 /\ first \in ToSet(batch)
  BY <1>2, <1>3, <1>4 DEF InHand, Attempt
<1>8. Held(w) = {r.frame : r \in ToSet(batch)}
  BY <1>2 DEF Held
<1>9. InHand(w) \in Held(w) /\ {r.frame : r \in ToSet(Tail(batch))} \subseteq Held(w)
  BY <1>3, <1>7, <1>8
<1> QED
  BY <1>1, <1>2, <1>3, <1>5, <1>6, <1>7, <1>9

LEMMA FreshIs ==
  /\ Fresh \in Locals /\ Fresh.batch = <<>>
BY DEF Fresh, Locals

Frames(values) == {r.frame : r \in ToSet(values.batch)}

(* A step of a worker. *)
LEMMA WorkerMoves ==
  ASSUME WorkersShape, NEW w \in Workers,
         NEW point \in {"gone", "idle", "poll", "row", "read", "write", "mark"}, NEW values \in Locals,
         Worker(w, point, values), Frames(values) \subseteq Ids, captured' = captured,
         point \in {"row", "read", "write", "mark"} <=> values.batch # <<>>
  PROVE  /\ WorkersShape' /\ pc'[w] = point /\ local'[w] = values /\ Held(w)' = Frames(values)
         /\ \A v \in Workers \ {w} : pc'[v] = pc[v] /\ local'[v] = local[v] /\ Held(v)' = Held(v)
<1>1. /\ pc' = [pc EXCEPT ![w] = point] /\ local' = [local EXCEPT ![w] = values]
  BY DEF Worker
<1>2. /\ pc' \in [Workers -> {"gone", "idle", "poll", "row", "read", "write", "mark"}]
      /\ pc'[w] = point /\ \A v \in Workers \ {w} : pc'[v] = pc[v]
  BY <1>1 DEF WorkersShape
<1>3. local' \in [Workers -> Locals] /\ local'[w] = values /\ \A v \in Workers \ {w} : local'[v] = local[v]
  BY <1>1 DEF WorkersShape
<1>4. Held(w)' = Frames(values) /\ \A v \in Workers \ {w} : Held(v)' = Held(v)
  BY <1>3 DEF Held, Frames
<1>5. \A v \in Workers : Held(v)' \subseteq Ids' /\ (Busy(v)' <=> local'[v].batch # <<>>)
  <2> SUFFICES ASSUME NEW v \in Workers PROVE Held(v)' \subseteq Ids' /\ (Busy(v)' <=> local'[v].batch # <<>>)
    OBVIOUS
  <2>1. Ids' = Ids
    BY DEF Ids
  <2>2. CASE v = w
    BY <1>2, <1>3, <1>4, <2>1, <2>2 DEF Busy
  <2>3. CASE v # w
    BY <1>2, <1>3, <1>4, <2>1, <2>3 DEF Busy, WorkersShape
  <2> QED
    BY <2>2, <2>3
<1> QED
  BY <1>2, <1>3, <1>4, <1>5 DEF WorkersShape

(* The row in hand is done with. *)
LEMMA DropShows ==
  ASSUME WorkersShape, NEW w \in Workers, Busy(w), Drop(w), captured' = captured
  PROVE  /\ WorkersShape' /\ Held(w)' \subseteq Held(w) /\ pc'[w] \in {"idle", "row"}
         /\ \A v \in Workers \ {w} : pc'[v] = pc[v] /\ local'[v] = local[v] /\ Held(v)' = Held(v)
<1>1. PICK rest \in Seq(PendingRow) : rest = Tail(local[w].batch) /\ {r.frame : r \in ToSet(rest)} \subseteq Held(w)
  BY InHandHeld
<1>2. PICK values : values = [local[w] EXCEPT !.batch = rest, !.text = "deterministic", !.outcome = "error"]
  OBVIOUS
<1>3. values \in Locals /\ values.batch = rest
  BY <1>1, <1>2 DEF WorkersShape, Locals
<1>4. Worker(w, NextPoint(rest), values)
  BY <1>1, <1>2 DEF Drop
<1>5. PICK point \in {"idle", "row"} : point = NextPoint(rest) /\ (point = "row" <=> rest # <<>>)
  BY DEF NextPoint
<1>6. Frames(values) \subseteq Ids /\ Frames(values) \subseteq Held(w)
  BY <1>1, <1>3 DEF Frames, WorkersShape
<1> QED
  BY <1>3, <1>4, <1>5, <1>6, WorkerMoves

(* The local of a worker at the same rows. *)
LEMMA SameBatch ==
  ASSUME WorkersShape, NEW w \in Workers, NEW values \in Locals, values.batch = local[w].batch,
         NEW point \in {"gone", "idle", "poll", "row", "read", "write", "mark"}, Worker(w, point, values),
         point \in {"row", "read", "write", "mark"} <=> Busy(w), captured' = captured
  PROVE  /\ WorkersShape' /\ pc'[w] = point /\ local'[w] = values
         /\ \A v \in Workers : Held(v)' = Held(v) /\ InHand(v)' = InHand(v) /\ Attempt(v)' = Attempt(v)
         /\ \A v \in Workers \ {w} : pc'[v] = pc[v] /\ local'[v] = local[v]
<1>1. Frames(values) = Held(w) /\ Frames(values) \subseteq Ids
  BY DEF Frames, Held, WorkersShape
<1>2. /\ WorkersShape' /\ pc'[w] = point /\ local'[w] = values /\ Held(w)' = Frames(values)
      /\ \A v \in Workers \ {w} : pc'[v] = pc[v] /\ local'[v] = local[v] /\ Held(v)' = Held(v)
  BY <1>1, WorkerMoves DEF WorkersShape
<1>3. \A v \in Workers : local'[v].batch = local[v].batch
  BY <1>2
<1>4. \A v \in Workers : InHand(v)' = InHand(v) /\ Attempt(v)' = Attempt(v)
  BY <1>3 DEF InHand, Attempt
<1> QED
  BY <1>1, <1>2, <1>4

-----------------------------------------------------------------------------
(* What remains true as long as frames are only forgotten or new. *)
LEMMA AloneRests ==
  ASSUME WorkersShape, Alone, \A v \in Workers : Held(v)' \subseteq Held(v), Known' \cap Ids \subseteq Known
  PROVE  Alone'
BY DEF WorkersShape, Alone

LEMMA HandKept ==
  ASSUME WorkersShape, NEW v \in Workers, HandOK(v), pc'[v] = pc[v], local'[v].batch = local[v].batch,
         local'[v].text = local[v].text, local'[v].outcome = local[v].outcome,
         \A f \in Known' \cap Held(v) : f \in Known /\ frames'[f] = frames[f]
  PROVE  HandOK(v)'
<1> SUFFICES ASSUME Busy(v)', InHand(v)' \in Known'
             PROVE  /\ pc'[v] = "write" => local'[v].text = frames'[InHand(v)']
                    /\ pc'[v] = "mark" /\ local'[v].outcome = "model" => frames'[InHand(v)'] = "model"
  BY DEF HandOK
<1>1. InHand(v)' = InHand(v) /\ Busy(v)
  BY DEF InHand, Busy
<1>2. InHand(v) \in Known /\ frames'[InHand(v)] = frames[InHand(v)]
  BY <1>1, InHandHeld
<1> QED
  BY <1>1, <1>2 DEF HandOK

LEMMA ModelKept ==
  ASSUME RowsShape, BackendIsHonest,
         \A f \in Known' \cap Ids : f \in Known /\ (frames[f] = "model" => frames'[f] = "model"),
         \A r \in ToSet(queue') :
           r \in ToSet(queue) \/ ~(r.status = "complete" /\ r.backend = "model")
             \/ (r.frame \in Known' => frames'[r.frame] = "model")
  PROVE  BackendIsHonest'
BY DEF RowsShape, BackendIsHonest, Known

(* Steps in which no row is taken, and no frame is written. *)
LEMMA QueueRests ==
  ASSUME QueueInv, QueueShape',
         \A r \in ToSet(queue') : r \in ToSet(queue) \/ (r.status # "processing" /\ r.backend # "model"),
         \A f \in Known' \cap Ids : f \in Known /\ frames'[f] = frames[f],
         \A w \in Workers :
           \/ /\ pc'[w] = pc[w] /\ local'[w].batch = local[w].batch
              /\ local'[w].text = local[w].text /\ local'[w].outcome = local[w].outcome
           \/ pc'[w] \in {"gone", "idle", "poll"} /\ (lossy' \/ ~Busy(w)),
         lossy => lossy'
  PROVE  Alone' /\ HandIsTrue' /\ BackendIsHonest' /\ ProcessingIsInHand'
<1>1. WorkersShape /\ WorkersShape' /\ RowsShape /\ StoreShape /\ Alone
  BY DEF QueueInv, QueueShape
<1>2. \A w \in Workers : Held(w)' \subseteq Held(w)
  <2> SUFFICES ASSUME NEW w \in Workers PROVE Held(w)' \subseteq Held(w)
    OBVIOUS
  <2>1. CASE local'[w].batch = local[w].batch
    BY <2>1 DEF Held
  <2>2. CASE pc'[w] \in {"gone", "idle", "poll"}
    <3>1. local'[w].batch = <<>>
      BY <1>1, <2>2 DEF WorkersShape, Busy
    <3> QED
      BY <3>1, EmptySet DEF Held
  <2> QED
    BY <2>1, <2>2
<1>3. Alone'
  BY <1>1, <1>2, AloneRests
<1>4. HandIsTrue'
  <2> SUFFICES ASSUME NEW w \in Workers PROVE HandOK(w)'
    BY DEF HandIsTrue
  <2>1. CASE pc'[w] \in {"gone", "idle", "poll"}
    BY <2>1 DEF HandOK, Busy
  <2>2. CASE /\ pc'[w] = pc[w] /\ local'[w].batch = local[w].batch
             /\ local'[w].text = local[w].text /\ local'[w].outcome = local[w].outcome
    <3>1. HandOK(w) /\ Held(w) \subseteq Ids
      BY <1>1 DEF QueueInv, HandIsTrue, WorkersShape
    <3> QED
      BY <1>1, <2>2, <3>1, HandKept
  <2> QED
    BY <2>1, <2>2
<1>5. BackendIsHonest'
  BY <1>1, ModelKept DEF QueueInv
<1>6. ProcessingIsInHand'
  <2> SUFFICES ASSUME ~lossy', NEW r \in ToSet(queue'), r.status = "processing"
               PROVE  \E w \in Workers : pc'[w] \in {"read", "write", "mark"} /\ InHand(w)' = r.frame
    BY DEF ProcessingIsInHand
  <2>1. PICK w \in Workers : pc[w] \in {"read", "write", "mark"} /\ InHand(w) = r.frame
    BY DEF QueueInv, ProcessingIsInHand
  <2>2. pc'[w] = pc[w] /\ local'[w].batch = local[w].batch
    BY <2>1 DEF Busy
  <2> QED
    BY <2>1, <2>2 DEF InHand
<1> QED
  BY <1>3, <1>4, <1>5, <1>6

-----------------------------------------------------------------------------
(* The session and the setting. *)
Rests(w) ==
  /\ pc'[w] = pc[w] /\ local'[w].batch = local[w].batch
  /\ local'[w].text = local[w].text /\ local'[w].outcome = local[w].outcome

LEMMA BeginShows ==
  ASSUME WorkersShape, NEW setting, BeginStart(setting), captured' = captured
  PROVE  /\ WorkersShape' /\ current' \in Workers \cup {NoWorker} /\ phase' = "starting"
         /\ \A w \in Workers : Rests(w) \/ (pc'[w] = "idle" /\ ~Busy(w))
         /\ \A w \in Workers : Held(w)' = Held(w)
<1>1. CASE UNCHANGED workerVars /\ current' = NoWorker
  <2>1. WorkersShape'
    BY <1>1 DEF WorkersShape, workerVars, Held, Busy, Ids
  <2> QED
    BY <1>1, <2>1 DEF BeginStart, Rests, workerVars, Held
<1>2. CASE \E w \in Workers : /\ pc[w] = "gone" /\ current' = w
                              /\ pc' = [pc EXCEPT ![w] = "idle"] /\ local' = [local EXCEPT ![w] = Fresh]
  <2>1. PICK w \in Workers : /\ pc[w] = "gone" /\ current' = w
                             /\ pc' = [pc EXCEPT ![w] = "idle"] /\ local' = [local EXCEPT ![w] = Fresh]
    BY <1>2
  <2>2. Frames(Fresh) = {} /\ Fresh \in Locals /\ Fresh.batch = <<>> /\ Worker(w, "idle", Fresh)
    BY <2>1, FreshIs, EmptySet DEF Frames, Worker
  <2>3. /\ WorkersShape' /\ pc'[w] = "idle" /\ Held(w)' = {}
        /\ \A v \in Workers \ {w} : pc'[v] = pc[v] /\ local'[v] = local[v] /\ Held(v)' = Held(v)
    BY <2>2, WorkerMoves
  <2>4. local[w].batch = <<>> /\ ~Busy(w)
    BY <2>1 DEF WorkersShape, Busy
  <2>5. Held(w) = {}
    BY <2>4, EmptySet DEF Held
  <2> QED
    BY <2>1, <2>3, <2>4, <2>5 DEF BeginStart, Rests
<1> QED
  BY <1>1, <1>2 DEF BeginStart

(* Nothing but the setting, the session and the faults changes. *)
LEMMA SettingMoves ==
  ASSUME QueueInv, SettingShape', FaultsShape', UNCHANGED <<storeVars, queue, contested>>, old' \in {old, {}},
         WorkersShape', \A w \in Workers : Held(w)' = Held(w),
         \A w \in Workers : Rests(w) \/ (pc'[w] \in {"gone", "idle", "poll"} /\ ~Busy(w)), lossy => lossy'
  PROVE  QueueInv'
<1>1. QueueShape' /\ Known' = Known
  BY DEF QueueInv, QueueShape, StoreShape, RowsShape, storeVars, Ids, Known
<1>2. OldIsLeft'
  BY DEF QueueInv, OldIsLeft, storeVars
<1>3. Alone' /\ HandIsTrue' /\ BackendIsHonest' /\ ProcessingIsInHand'
  <2>1. /\ queue' = queue /\ frames' = frames
        /\ \A w \in Workers : Rests(w) \/ (pc'[w] \in {"gone", "idle", "poll"} /\ ~Busy(w))
    BY DEF storeVars
  <2> QED
    BY <2>1, <1>1, QueueRests DEF Rests
<1> QED
  BY <1>1, <1>2, <1>3 DEF QueueInv

LEMMA WorkersRest ==
  ASSUME WorkersShape, UNCHANGED <<workerVars, captured>>
  PROVE  /\ WorkersShape' /\ \A w \in Workers : Rests(w) /\ Held(w)' = Held(w)
BY DEF WorkersShape, workerVars, Held, Busy, Ids, Rests

LEMMA FaultShows ==
  ASSUME FaultsShape, NEW kind, Fault(kind)
  PROVE  FaultsShape' /\ (lossy => lossy') /\ (kind \in {"state", "crash"} => lossy')
<1>1. faults' \in 0 .. MaxFaults
  BY QueueBounds DEF FaultsShape, Fault
<1> QED
  BY <1>1 DEF FaultsShape, Fault

LEMMA SessionHolds ==
  ASSUME QueueInv, StartEnds \/ Stop \/ LanesDrained \/ StopEnds
  PROVE  QueueInv'
<1>1. SettingShape'
  BY DEF QueueInv, QueueShape, SettingShape, StartEnds, Stop, LanesDrained, StopEnds, settingVars
<1>2. UNCHANGED <<storeVars, queue, workerVars, faultVars, history>>
  BY DEF StartEnds, Stop, LanesDrained, StopEnds
<1>3. /\ FaultsShape' /\ lossy' = lossy /\ contested' = contested /\ old' = old /\ captured' = captured
  BY <1>2 DEF QueueInv, QueueShape, FaultsShape, faultVars, history, storeVars
<1>4. WorkersShape' /\ \A w \in Workers : Rests(w) /\ Held(w)' = Held(w)
  BY <1>2, <1>3, WorkersRest DEF QueueInv, QueueShape
<1> QED
  BY <1>1, <1>2, <1>3, <1>4, SettingMoves

LEMMA StartHolds ==
  ASSUME QueueInv, Start \/ CommandStarts
  PROVE  QueueInv'
<1>1. UNCHANGED <<storeVars, queue, faultVars, history>> /\ BeginStart(enabled)
  BY DEF Start, CommandStarts
<1>2. /\ FaultsShape' /\ lossy' = lossy /\ contested' = contested /\ old' = old /\ captured' = captured
  BY <1>1 DEF QueueInv, QueueShape, FaultsShape, faultVars, history, storeVars
<1>3. /\ WorkersShape' /\ current' \in Workers \cup {NoWorker} /\ phase' = "starting"
      /\ \A w \in Workers : Rests(w) \/ (pc'[w] = "idle" /\ ~Busy(w))
      /\ \A w \in Workers : Held(w)' = Held(w)
  BY <1>1, <1>2, BeginShows DEF QueueInv, QueueShape
<1>4. SettingShape'
  BY <1>3 DEF QueueInv, QueueShape, SettingShape, Start, CommandStarts, settingVars
<1> QED
  BY <1>1, <1>2, <1>3, <1>4, SettingMoves

LEMMA CommandHolds ==
  ASSUME QueueInv, OptInUnsettledByFault \/ OptInSaves \/ SaveFails \/ OptOut \/ CommandStops \/ CommandRestarted
  PROVE  QueueInv'
<1>1. SettingShape /\ FaultsShape /\ WorkersShape
  BY DEF QueueInv, QueueShape
<1>2. /\ SettingShape' /\ FaultsShape' /\ (lossy => lossy') /\ UNCHANGED <<storeVars, queue, workerVars, contested>>
      /\ old' \in {old, {}}
  <2>1. CASE OptInUnsettledByFault
    <3>1. FaultsShape' /\ (lossy => lossy')
      BY <2>1, <1>1, FaultShows DEF OptInUnsettledByFault
    <3>2. toggles' \in 0 .. MaxToggles
      BY <2>1, <1>1, QueueBounds DEF OptInUnsettledByFault, SettingShape
    <3> QED
      BY <2>1, <1>1, <3>1, <3>2 DEF OptInUnsettledByFault, SettingShape, sessionVars
  <2>2. CASE OptInSaves
    BY <2>2, <1>1 DEF OptInSaves, Save, AfterRestart, SettingShape, sessionVars, FaultsShape, faultVars, history
  <2>3. CASE SaveFails
    <3>1. FaultsShape' /\ (lossy => lossy')
      BY <2>3, <1>1, FaultShows DEF SaveFails
    <3> QED
      BY <2>3, <1>1, <3>1 DEF SaveFails, SettingShape, sessionVars, history
  <2>4. CASE OptOut
    <3>1. toggles' \in 0 .. MaxToggles
      BY <2>4, <1>1, QueueBounds DEF OptOut, SettingShape
    <3> QED
      BY <2>4, <1>1, <3>1 DEF OptOut, Save, AfterRestart, SettingShape, sessionVars, FaultsShape, faultVars, history
  <2>5. CASE CommandStops
    BY <2>5, <1>1 DEF CommandStops, SettingShape, FaultsShape, faultVars, history
  <2>6. CASE CommandRestarted
    BY <2>6, <1>1 DEF CommandRestarted, AfterRestart, SettingShape, sessionVars, FaultsShape, faultVars, history
  <2> QED
    BY <2>1, <2>2, <2>3, <2>4, <2>5, <2>6
<1>3. WorkersShape' /\ \A w \in Workers : Rests(w) /\ Held(w)' = Held(w)
  BY <1>1, <1>2, WorkersRest DEF storeVars
<1> QED
  BY <1>2, <1>3, SettingMoves

LEMMA CommandRollsBackHolds ==
  ASSUME QueueInv, CommandRollsBack
  PROVE  QueueInv'
<1>1. SettingShape /\ FaultsShape /\ WorkersShape
  BY DEF QueueInv, QueueShape
<1>2. /\ Fault("start") /\ enabled' = ~enabled /\ cmd' = "idle" /\ phase = "off"
      /\ BeginStart(~enabled) \/ UNCHANGED <<sessionVars, workerVars>>
      /\ UNCHANGED <<toggles, storeVars, queue, history>>
  BY DEF CommandRollsBack
<1>3. FaultsShape' /\ (lossy => lossy') /\ captured' = captured /\ contested' = contested /\ old' = old
  BY <1>1, <1>2, FaultShows DEF storeVars, history
<1>4. CASE BeginStart(~enabled)
  <2>1. /\ WorkersShape' /\ current' \in Workers \cup {NoWorker} /\ phase' = "starting"
        /\ \A w \in Workers : Rests(w) \/ (pc'[w] = "idle" /\ ~Busy(w))
        /\ \A w \in Workers : Held(w)' = Held(w)
    BY <1>1, <1>3, <1>4, BeginShows
  <2>2. SettingShape'
    BY <1>1, <1>2, <2>1 DEF SettingShape
  <2> QED
    BY <1>2, <1>3, <2>1, <2>2, SettingMoves
<1>5. CASE UNCHANGED <<sessionVars, workerVars>>
  <2>1. WorkersShape' /\ \A w \in Workers : Rests(w) /\ Held(w)' = Held(w)
    BY <1>1, <1>3, <1>5, WorkersRest
  <2>2. SettingShape'
    BY <1>1, <1>2, <1>5 DEF SettingShape, sessionVars
  <2> QED
    BY <1>2, <1>3, <2>1, <2>2, SettingMoves
<1> QED
  BY <1>2, <1>4, <1>5

LEMMA LoadModelHolds ==
  ASSUME QueueInv, NEW w \in Workers, LoadModel(w)
  PROVE  QueueInv'
<1>1. SettingShape /\ FaultsShape /\ WorkersShape
  BY DEF QueueInv, QueueShape
<1>2. /\ local' = [local EXCEPT ![w].model = TRUE]
      /\ UNCHANGED <<settingVars, sessionVars, storeVars, queue, pc, faultVars, history>>
  BY DEF LoadModel
<1>3. PICK values \in Locals : /\ values = [local[w] EXCEPT !.model = TRUE] /\ values.batch = local[w].batch
                               /\ values.text = local[w].text /\ values.outcome = local[w].outcome
  <2>1. local[w] \in Locals
    BY <1>1 DEF WorkersShape
  <2>2. [local[w] EXCEPT !.model = TRUE] \in Locals
    BY <2>1 DEF Locals
  <2>3. /\ [local[w] EXCEPT !.model = TRUE].batch = local[w].batch
        /\ [local[w] EXCEPT !.model = TRUE].text = local[w].text
        /\ [local[w] EXCEPT !.model = TRUE].outcome = local[w].outcome
    BY <2>1 DEF Locals
  <2> QED
    BY <2>2, <2>3
<1>4. PICK point \in {"gone", "idle", "poll", "row", "read", "write", "mark"} : point = pc[w]
  BY <1>1 DEF WorkersShape
<1>5. Worker(w, point, values)
  BY <1>1, <1>2, <1>3, <1>4 DEF Worker, WorkersShape
<1>6. /\ WorkersShape' /\ pc'[w] = point /\ local'[w] = values
      /\ \A v \in Workers : Held(v)' = Held(v)
      /\ \A v \in Workers \ {w} : pc'[v] = pc[v] /\ local'[v] = local[v]
  <2>1. point \in {"row", "read", "write", "mark"} <=> Busy(w)
    BY <1>4 DEF Busy
  <2>2. captured' = captured
    BY <1>2 DEF storeVars
  <2> QED
    <3>1. WorkersShape /\ values.batch = local[w].batch
      BY <1>1, <1>3
    <3>2. /\ WorkersShape' /\ pc'[w] = point /\ local'[w] = values
          /\ \A v \in Workers : Held(v)' = Held(v) /\ InHand(v)' = InHand(v) /\ Attempt(v)' = Attempt(v)
          /\ \A v \in Workers \ {w} : pc'[v] = pc[v] /\ local'[v] = local[v]
      BY <1>5, <2>1, <2>2, <3>1, SameBatch
    <3> QED
      BY <3>2
<1>7. \A v \in Workers : Rests(v)
  BY <1>3, <1>4, <1>6 DEF Rests
<1>8. SettingShape' /\ FaultsShape' /\ lossy' = lossy /\ contested' = contested /\ old' = old
  BY <1>1, <1>2 DEF SettingShape, FaultsShape, settingVars, sessionVars, faultVars, history
<1> QED
  BY <1>2, <1>6, <1>7, <1>8, SettingMoves

(* The setting is left as it is. *)
LEMMA SettingRests ==
  ASSUME QueueInv, UNCHANGED <<settingVars, sessionVars>>
  PROVE  SettingShape'
BY DEF QueueInv, QueueShape, SettingShape, settingVars, sessionVars

LEMMA FaultsRest ==
  ASSUME QueueInv, UNCHANGED faultVars
  PROVE  FaultsShape' /\ lossy' = lossy
BY DEF QueueInv, QueueShape, FaultsShape, faultVars

LEMMA CaptureHolds ==
  ASSUME QueueInv, Capture
  PROVE  QueueInv'
<1>1. StoreShape /\ WorkersShape /\ RowsShape
  BY DEF QueueInv, QueueShape
<1>2. /\ captured < MaxFrames /\ captured' = captured + 1
      /\ UNCHANGED <<settingVars, sessionVars, queue, workerVars, faultVars, history>>
      /\ enqueues' = enqueues \/ enqueues' = enqueues \cup {captured + 1}
  BY DEF Capture
<1>3. /\ captured \in Nat /\ captured' \in 0 .. MaxFrames /\ Ids' = Ids \cup {captured + 1} /\ captured + 1 \notin Ids
  BY <1>1, <1>2, QueueBounds DEF StoreShape, Ids
<1>4. /\ DOMAIN frames' = DOMAIN frames \cup {captured + 1} /\ frames'[captured + 1] = "deterministic"
      /\ \A f \in DOMAIN frames : frames'[f] = frames[f]
  <2>1. frames' = [f \in DOMAIN frames \cup {captured + 1} |->
                     IF f = captured + 1 THEN "deterministic" ELSE frames[f]]
    BY DEF Capture
  <2>2. \A f \in DOMAIN frames : f # captured + 1
    BY <1>1, <1>3 DEF StoreShape
  <2> QED
    BY <2>1, <2>2
<1>5. StoreShape'
  BY <1>1, <1>2, <1>3, <1>4 DEF StoreShape, history
<1>6. WorkersShape' /\ RowsShape'
  <2>1. \A w \in Workers : Held(w)' = Held(w) /\ (Busy(w)' <=> Busy(w))
    BY <1>2 DEF Held, Busy, workerVars
  <2>2. WorkersShape'
    BY <1>1, <1>2, <1>3, <2>1 DEF WorkersShape, workerVars
  <2>3. RowsShape'
    BY <1>1, <1>2, <1>3 DEF RowsShape
  <2> QED
    BY <2>2, <2>3
<1>7. QueueShape'
  BY <1>2, <1>5, <1>6, SettingRests, FaultsRest DEF QueueShape
<1>8. OldIsLeft'
  <2>1. old' = old /\ queue' = queue /\ \A w \in Workers : Held(w)' = Held(w)
    BY <1>2 DEF history, Held, workerVars
  <2>2. captured + 1 \notin old
    BY <1>1, <1>3 DEF StoreShape
  <2> QED
    BY <1>2, <2>1, <2>2 DEF QueueInv, OldIsLeft
<1>9. Alone' /\ HandIsTrue' /\ BackendIsHonest' /\ ProcessingIsInHand'
  <2>1. \A f \in Known' \cap Ids : f \in Known /\ frames'[f] = frames[f]
    <3>1. contested' = contested
      BY <1>2 DEF history
    <3> QED
      BY <1>3, <1>4, <3>1 DEF Known
  <2>2. pc' = pc /\ local' = local
    BY <1>2 DEF workerVars
  <2>3. queue' = queue /\ lossy' = lossy
    BY <1>2, FaultsRest
  <2> QED
    BY <1>7, <2>1, <2>2, <2>3, QueueRests
<1> QED
  BY <1>7, <1>8, <1>9 DEF QueueInv

LEMMA EnqueueHolds ==
  ASSUME QueueInv, NEW f, Enqueue(f)
  PROVE  QueueInv'
<1>1. StoreShape /\ WorkersShape /\ RowsShape
  BY DEF QueueInv, QueueShape
<1>2. /\ f \in enqueues /\ enqueues' = enqueues \ {f} /\ RecordState(f, "pending", 0, "none")
      /\ UNCHANGED <<settingVars, sessionVars, captured, frames, workerVars, faultVars, history>>
  BY DEF Enqueue
<1>3. f \in Ids /\ f \in 1 .. MaxFrames /\ f \notin old
  <2>1. captured \in 0 .. MaxFrames /\ f \in 1 .. captured /\ f \notin old
    BY <1>1, <1>2 DEF StoreShape, Ids, QueueInv, OldIsLeft
  <2> QED
    BY <2>1, QueueBounds DEF Ids
<1>4. /\ RowsShape'
      /\ ToSet(queue') = {r \in ToSet(queue) : r.frame # f}
           \cup {[frame |-> f, status |-> "pending", attempts |-> 0, backend |-> "none"]}
  <2>1. 0 \in 0 .. MaxAttempts /\ 0 < MaxAttempts /\ "pending" \in Unsettled \cup Settled
    BY QueueBounds DEF Unsettled
  <2> QED
    BY <1>1, <1>2, <1>3, <2>1, RowRecorded
<1>5. Ids' = Ids /\ old' = old /\ contested' = contested
  BY <1>2 DEF Ids, history
<1>6. StoreShape' /\ WorkersShape' /\ \A w \in Workers : Rests(w) /\ Held(w)' = Held(w)
  <2>1. StoreShape'
    BY <1>1, <1>2, <1>5 DEF StoreShape
  <2> QED
    BY <1>1, <1>2, <2>1, WorkersRest
<1>7. QueueShape' /\ lossy' = lossy
  BY <1>2, <1>4, <1>6, SettingRests, FaultsRest DEF QueueShape
<1>8. OldIsLeft'
  <2>1. \A r \in ToSet(queue') : r.status = "pending" => r.frame \notin old
    BY <1>3, <1>4 DEF QueueInv, OldIsLeft
  <2> QED
    BY <1>2, <1>5, <1>6, <2>1 DEF QueueInv, OldIsLeft
<1>9. Alone' /\ HandIsTrue' /\ BackendIsHonest' /\ ProcessingIsInHand'
  <2>1. \A g \in Known' \cap Ids : g \in Known /\ frames'[g] = frames[g]
    BY <1>2, <1>5 DEF Known
  <2>2. \A r \in ToSet(queue') : r \in ToSet(queue) \/ (r.status # "processing" /\ r.backend # "model")
    BY <1>4
  <2> QED
    BY <1>6, <1>7, <2>1, <2>2, QueueRests DEF Rests
<1> QED
  BY <1>7, <1>8, <1>9 DEF QueueInv

LEMMA EnqueueFailsHolds ==
  ASSUME QueueInv, NEW f, EnqueueFails(f)
  PROVE  QueueInv'
<1>1. StoreShape /\ WorkersShape /\ RowsShape /\ FaultsShape
  BY DEF QueueInv, QueueShape
<1>2. /\ enqueues' = enqueues \ {f} /\ Fault("state")
      /\ UNCHANGED <<settingVars, sessionVars, captured, frames, queue, workerVars, history>>
  BY DEF EnqueueFails
<1>3. Ids' = Ids /\ old' = old /\ contested' = contested
  BY <1>2 DEF Ids, history
<1>4. StoreShape' /\ RowsShape' /\ WorkersShape' /\ \A w \in Workers : Rests(w) /\ Held(w)' = Held(w)
  <2>1. StoreShape' /\ RowsShape'
    BY <1>1, <1>2, <1>3 DEF StoreShape, RowsShape
  <2> QED
    BY <1>1, <1>2, <2>1, WorkersRest
<1>5. QueueShape' /\ (lossy => lossy')
  BY <1>1, <1>2, <1>4, SettingRests, FaultShows DEF QueueShape
<1>6. OldIsLeft'
  BY <1>2, <1>3, <1>4 DEF QueueInv, OldIsLeft
<1>7. Alone' /\ HandIsTrue' /\ BackendIsHonest' /\ ProcessingIsInHand'
  <2>1. \A g \in Known' \cap Ids : g \in Known /\ frames'[g] = frames[g]
    BY <1>2, <1>3 DEF Known
  <2> QED
    BY <1>2, <1>4, <1>5, <2>1, QueueRests DEF Rests
<1> QED
  BY <1>5, <1>6, <1>7 DEF QueueInv

LEMMA DeleteHolds ==
  ASSUME QueueInv, NEW f, Delete(f)
  PROVE  QueueInv'
<1>1. StoreShape /\ WorkersShape /\ RowsShape
  BY DEF QueueInv, QueueShape
<1>2. /\ frames' = Restrict(frames, (DOMAIN frames) \ {f}) /\ queue' = Others(f)
      /\ contested' = contested \ {f}
      /\ UNCHANGED <<settingVars, sessionVars, captured, enqueues, workerVars, faultVars, old>>
  BY DEF Delete
<1>3. /\ DOMAIN frames' = (DOMAIN frames) \ {f} /\ \A g \in (DOMAIN frames) \ {f} : frames'[g] = frames[g]
  BY <1>2 DEF Restrict
<1>4. Ids' = Ids
  BY <1>2 DEF Ids
<1>5. RowsShape' /\ ToSet(queue') = {r \in ToSet(queue) : r.frame # f}
  <2>1. /\ queue' \in Seq(StateRows) /\ ToSet(queue') = {r \in ToSet(queue) : r.frame # f}
        /\ \A i, j \in DOMAIN queue' : queue'[i].frame = queue'[j].frame => i = j
    BY <1>1, <1>2, OthersAre
  <2> QED
    BY <1>1, <1>4, <2>1 DEF RowsShape
<1>6. StoreShape' /\ WorkersShape' /\ \A w \in Workers : Rests(w) /\ Held(w)' = Held(w)
  <2>1. StoreShape'
    BY <1>1, <1>2, <1>3, <1>4 DEF StoreShape
  <2> QED
    BY <1>1, <1>2, <2>1, WorkersRest
<1>7. QueueShape' /\ lossy' = lossy
  BY <1>2, <1>5, <1>6, SettingRests, FaultsRest DEF QueueShape
<1>8. OldIsLeft'
  BY <1>2, <1>5, <1>6 DEF QueueInv, OldIsLeft
<1>9. Alone' /\ HandIsTrue' /\ BackendIsHonest' /\ ProcessingIsInHand'
  <2>1. \A g \in Known' \cap Ids : g \in Known /\ frames'[g] = frames[g]
    BY <1>2, <1>3 DEF Known
  <2> QED
    BY <1>5, <1>6, <1>7, <2>1, QueueRests DEF Rests
<1> QED
  BY <1>7, <1>8, <1>9 DEF QueueInv

-----------------------------------------------------------------------------
(* The worker. *)
LEMMA LeaveHolds ==
  ASSUME QueueInv, NEW w \in Workers, Leave(w) \/ Wake(w)
  PROVE  QueueInv'
<1>1. /\ WorkersShape
      /\ UNCHANGED <<settingVars, sessionVars, storeVars, queue, faultVars, history>> /\ captured' = captured
  BY DEF QueueInv, QueueShape, Leave, Wake, storeVars
<1>2. ~Busy(w) /\ local[w].batch = <<>> /\ Held(w) = {}
  <2>1. ~Busy(w)
    BY DEF Leave, Wake, Busy
  <2>2. local[w].batch = <<>>
    BY <2>1, <1>1 DEF WorkersShape
  <2> QED
    BY <2>1, <2>2, EmptySet DEF Held
<1>3. PICK values \in Locals, point \in {"gone", "poll"} : values.batch = <<>> /\ Worker(w, point, values)
  <2>1. CASE Leave(w)
    BY <2>1, FreshIs DEF Leave
  <2>2. CASE Wake(w)
    <3>1. local' = [local EXCEPT ![w] = local[w]] /\ local[w] \in Locals
      BY <1>1, <2>2 DEF Wake, WorkersShape
    <3> QED
      BY <1>2, <2>2, <3>1 DEF Wake, Worker
  <2> QED
    BY <2>1, <2>2
<1>4. Frames(values) = {}
  BY <1>3, EmptySet DEF Frames
<1>5. /\ WorkersShape' /\ pc'[w] = point /\ Held(w)' = {}
      /\ \A v \in Workers \ {w} : pc'[v] = pc[v] /\ local'[v] = local[v] /\ Held(v)' = Held(v)
  BY <1>1, <1>3, <1>4, WorkerMoves
<1>6. \A v \in Workers : /\ Held(v)' = Held(v)
                         /\ Rests(v) \/ (pc'[v] \in {"gone", "idle", "poll"} /\ ~Busy(v))
  BY <1>2, <1>3, <1>5 DEF Rests
<1>7. SettingShape' /\ FaultsShape' /\ lossy' = lossy /\ old' = old /\ contested' = contested
  BY <1>1, SettingRests, FaultsRest DEF history
<1> QED
  BY <1>1, <1>5, <1>6, <1>7, SettingMoves

(* The rows of a batch were pending, each with an attempt left. *)
LEMMA BatchIs ==
  ASSUME RowsShape, NEW order \in InOrder(NextRows), NEW batch,
         batch = [i \in DOMAIN order |-> [frame |-> queue[order[i]].frame, attempts |-> queue[order[i]].attempts]]
  PROVE  /\ batch \in Seq(PendingRow)
         /\ \A r \in ToSet(batch) : \E row \in ToSet(queue) : row.status = "pending" /\ row.frame = r.frame
<1>1. queue \in Seq(StateRows) /\ Len(queue) \in Nat /\ DOMAIN queue = 1 .. Len(queue)
  BY DEF RowsShape
<1>2. NextRows \subseteq 1 .. Len(queue) /\ \A i \in NextRows : queue[i].status = "pending"
  BY <1>1 DEF NextRows
<1>3. PICK n \in Nat : n = Cardinality(NextRows)
  <2>1. IsFiniteSet(1 .. Len(queue))
    BY <1>1, FS_Interval
  <2> QED
    BY <1>2, <2>1, FS_Subset, FS_CardinalityType
<1>4. order \in [1 .. n -> NextRows] /\ DOMAIN order = 1 .. n
  BY <1>3 DEF InOrder
<1>5. \A i \in 1 .. n : /\ queue[order[i]] \in ToSet(queue) /\ queue[order[i]] \in StateRows
                        /\ queue[order[i]].status = "pending"
  BY <1>1, <1>2, <1>4, InSet
<1>6. \A i \in 1 .. n : [frame |-> queue[order[i]].frame, attempts |-> queue[order[i]].attempts] \in PendingRow
  <2> SUFFICES ASSUME NEW i \in 1 .. n
               PROVE  [frame |-> queue[order[i]].frame, attempts |-> queue[order[i]].attempts] \in PendingRow
    OBVIOUS
  <2>1. PICK row \in StateRows : row = queue[order[i]] /\ row \in ToSet(queue) /\ row.status = "pending"
    BY <1>5
  <2>2. row.frame \in 1 .. MaxFrames /\ row.attempts \in 0 .. MaxAttempts /\ row.attempts < MaxAttempts
    BY <2>1 DEF StateRows, RowsShape
  <2>3. row.attempts \in 0 .. MaxAttempts - 1
    BY <2>2, QueueBounds
  <2> QED
    BY <2>1, <2>2, <2>3 DEF PendingRow
<1>7. batch \in [1 .. n -> PendingRow]
  BY <1>4, <1>6
<1>8. batch \in Seq(PendingRow) /\ DOMAIN batch = 1 .. n
  <2>1. DOMAIN batch = 1 .. n
    BY <1>7
  <2>2. \A m \in Nat : [1 .. m -> PendingRow] \subseteq Seq(PendingRow)
    OBVIOUS
  <2> QED
    BY <1>3, <1>7, <2>1, <2>2
<1>9. \A i \in 1 .. n : batch[i].frame = queue[order[i]].frame
  BY <1>4
<1> QED
  BY <1>5, <1>8, <1>9 DEF ToSet

LEMMA PollHolds ==
  ASSUME QueueInv, NEW w \in Workers, Poll(w)
  PROVE  QueueInv' /\ old' = old /\ Held(w)' \cap old = {} /\ \A v \in Workers \ {w} : Held(v)' = Held(v)
<1>1. WorkersShape /\ RowsShape /\ StoreShape /\ captured' = captured
  BY DEF QueueInv, QueueShape, Poll, storeVars
<1>2. \E order \in InOrder(NextRows) : \E batch :
        /\ batch = [i \in DOMAIN order |-> [frame |-> queue[order[i]].frame, attempts |-> queue[order[i]].attempts]]
        /\ Worker(w, NextPoint(batch), [local[w] EXCEPT !.batch = batch])
  BY DEF Poll
<1>3. PICK batch \in Seq(PendingRow) :
        /\ Worker(w, NextPoint(batch), [local[w] EXCEPT !.batch = batch])
        /\ \A r \in ToSet(batch) : \E row \in ToSet(queue) : row.status = "pending" /\ row.frame = r.frame
  BY <1>1, <1>2, BatchIs
<1>4. PICK values \in Locals : values = [local[w] EXCEPT !.batch = batch] /\ values.batch = batch
  <2>1. local[w] \in Locals
    BY <1>1 DEF WorkersShape
  <2>2. [local[w] EXCEPT !.batch = batch] \in Locals
    BY <1>3, <2>1 DEF Locals
  <2>3. [local[w] EXCEPT !.batch = batch].batch = batch
    BY <2>1 DEF Locals
  <2> QED
    BY <2>2, <2>3
<1>5. PICK point \in {"idle", "row"} : point = NextPoint(batch) /\ (point = "row" <=> batch # <<>>)
  BY DEF NextPoint
<1>6. Worker(w, point, values)
  BY <1>3, <1>4, <1>5
<1>7. Frames(values) \subseteq Ids /\ Frames(values) \cap old = {}
  BY <1>1, <1>3, <1>4 DEF Frames, RowsShape, QueueInv, OldIsLeft
<1>8. /\ WorkersShape' /\ pc'[w] = point /\ local'[w] = values /\ Held(w)' = Frames(values)
      /\ \A v \in Workers \ {w} : pc'[v] = pc[v] /\ local'[v] = local[v] /\ Held(v)' = Held(v)
  BY <1>1, <1>4, <1>5, <1>6, <1>7, WorkerMoves
<1>9. /\ contested' = contested \cup (Held(w)' \cap UNION {Held(v) : v \in Workers \ {w}})
      /\ UNCHANGED <<settingVars, sessionVars, storeVars, queue, faultVars, old>>
  BY DEF Poll
<1>10. Ids' = Ids /\ frames' = frames /\ enqueues' = enqueues /\ queue' = queue
  BY <1>9 DEF Ids, storeVars
<1>11. StoreShape' /\ RowsShape'
  BY <1>1, <1>7, <1>8, <1>9, <1>10 DEF StoreShape, RowsShape
<1>12. QueueShape' /\ lossy' = lossy
  BY <1>8, <1>9, <1>11, SettingRests, FaultsRest DEF QueueShape
<1>13. OldIsLeft'
  BY <1>7, <1>8, <1>9, <1>10 DEF QueueInv, OldIsLeft
<1>14. Known' \subseteq Known
  BY <1>9, <1>10 DEF Known
<1>15. Alone'
  <2> SUFFICES ASSUME NEW u \in Workers, NEW v \in Workers, u # v, NEW f, f \in Held(u)', f \in Held(v)', f \in Known'
               PROVE  FALSE
    BY DEF Alone
  <2>1. f \notin contested' /\ f \in Known
    BY <1>14 DEF Known
  <2>2. CASE u = w
    BY <2>1, <2>2, <1>8, <1>9
  <2>3. CASE v = w
    BY <2>1, <2>3, <1>8, <1>9
  <2>4. CASE u # w /\ v # w
    BY <2>1, <2>4, <1>8 DEF QueueInv, Alone
  <2> QED
    BY <2>2, <2>3, <2>4
<1>16. HandIsTrue'
  <2> SUFFICES ASSUME NEW v \in Workers PROVE HandOK(v)'
    BY DEF HandIsTrue
  <2>1. CASE v = w
    BY <2>1, <1>8 DEF HandOK
  <2>2. CASE v # w
    <3>1. HandOK(v) /\ pc'[v] = pc[v] /\ local'[v] = local[v] /\ \A f \in Known' \cap Held(v) : f \in Known /\ frames'[f] = frames[f]
      BY <2>2, <1>8, <1>10, <1>14 DEF QueueInv, HandIsTrue
    <3> QED
      BY <3>1, <1>1, HandKept
  <2> QED
    BY <2>1, <2>2
<1>17. BackendIsHonest'
  BY <1>1, <1>10, <1>14, ModelKept DEF QueueInv
<1>18. ProcessingIsInHand'
  <2> SUFFICES ASSUME ~lossy', NEW r \in ToSet(queue'), r.status = "processing"
               PROVE  \E v \in Workers : pc'[v] \in {"read", "write", "mark"} /\ InHand(v)' = r.frame
    BY DEF ProcessingIsInHand
  <2>1. PICK v \in Workers : pc[v] \in {"read", "write", "mark"} /\ InHand(v) = r.frame
    BY <1>10, <1>12 DEF QueueInv, ProcessingIsInHand
  <2>2. v # w
    BY <2>1 DEF Poll
  <2> QED
    BY <1>8, <2>1, <2>2 DEF InHand
<1> QED
  BY <1>7, <1>8, <1>9, <1>12, <1>13, <1>15, <1>16, <1>17, <1>18 DEF QueueInv

(* A row of another frame is in the same hands as before. *)
LEMMA HandsRest ==
  ASSUME ProcessingIsInHand, NEW w \in Workers, lossy => lossy',
         \A v \in Workers \ {w} : pc'[v] = pc[v] /\ local'[v] = local[v],
         \A r \in ToSet(queue') : r.status = "processing" =>
           \/ r \in ToSet(queue) /\ (pc[w] \notin {"read", "write", "mark"} \/ InHand(w) # r.frame)
           \/ pc'[w] \in {"read", "write", "mark"} /\ InHand(w)' = r.frame
  PROVE  ProcessingIsInHand'
<1> SUFFICES ASSUME ~lossy', NEW r \in ToSet(queue'), r.status = "processing"
             PROVE  \E v \in Workers : pc'[v] \in {"read", "write", "mark"} /\ InHand(v)' = r.frame
  BY DEF ProcessingIsInHand
<1>1. CASE pc'[w] \in {"read", "write", "mark"} /\ InHand(w)' = r.frame
  BY <1>1
<1>2. CASE r \in ToSet(queue) /\ (pc[w] \notin {"read", "write", "mark"} \/ InHand(w) # r.frame)
  <2>1. PICK v \in Workers : pc[v] \in {"read", "write", "mark"} /\ InHand(v) = r.frame
    BY <1>2 DEF ProcessingIsInHand
  <2>2. v # w
    BY <1>2, <2>1
  <2> QED
    BY <2>1, <2>2 DEF InHand
<1> QED
  BY <1>1, <1>2

(* A step of a worker at its row. *)
LEMMA WorkHolds ==
  ASSUME QueueInv, NEW w \in Workers, Busy(w), WorkersShape', RowsShape', FaultsShape', lossy => lossy',
         UNCHANGED <<settingVars, sessionVars, captured, enqueues, history>>,
         DOMAIN frames' = DOMAIN frames,
         \A f \in DOMAIN frames : frames'[f] \in {"deterministic", "model"} /\ (f # InHand(w) => frames'[f] = frames[f]),
         \A f \in Known : frames[f] = "model" => frames'[f] = "model",
         Held(w)' \subseteq Held(w),
         \A v \in Workers \ {w} : pc'[v] = pc[v] /\ local'[v] = local[v] /\ Held(v)' = Held(v),
         HandOK(w)', ProcessingIsInHand',
         \A r \in ToSet(queue') :
           \/ r \in ToSet(queue)
           \/ /\ r.status = "pending" => r.frame \in Held(w)
              /\ r.status = "complete" /\ r.backend = "model" => (r.frame \in Known => frames'[r.frame] = "model")
  PROVE  QueueInv'
<1>1. WorkersShape /\ RowsShape /\ StoreShape /\ OldIsLeft /\ Alone
  BY DEF QueueInv, QueueShape
<1>2. Ids' = Ids /\ old' = old /\ contested' = contested /\ Known' = Known
  BY DEF Ids, history, Known
<1>3. QueueShape'
  <2>1. StoreShape'
    BY <1>1, <1>2 DEF StoreShape
  <2> QED
    BY <2>1, SettingRests DEF QueueShape
<1>4. \A v \in Workers : Held(v)' \subseteq Held(v)
  OBVIOUS
<1>5. OldIsLeft'
  BY <1>1, <1>2, <1>4 DEF OldIsLeft
<1>6. Alone'
  BY <1>1, <1>2, <1>4, AloneRests
<1>7. HandIsTrue'
  <2> SUFFICES ASSUME NEW v \in Workers PROVE HandOK(v)'
    BY DEF HandIsTrue
  <2>1. CASE v = w
    BY <2>1
  <2>2. CASE v # w
    <3>1. \A f \in Known \cap Held(v) : f # InHand(w)
      BY <1>1, <2>2, InHandHeld DEF Alone
    <3>2. \A f \in Known' \cap Held(v) : f \in Known /\ frames'[f] = frames[f]
      BY <1>2, <3>1 DEF Known
    <3>3. HandOK(v) /\ pc'[v] = pc[v] /\ local'[v] = local[v]
      BY <2>2 DEF QueueInv, HandIsTrue
    <3> QED
      BY <1>1, <3>2, <3>3, HandKept
  <2> QED
    BY <2>1, <2>2
<1>8. BackendIsHonest'
  BY <1>1, <1>2, ModelKept DEF QueueInv
<1> QED
  BY <1>3, <1>5, <1>6, <1>7, <1>8 DEF QueueInv

LEMMA TakeRowHolds ==
  ASSUME QueueInv, NEW w \in Workers, TakeRow(w)
  PROVE  QueueInv' /\ \A v \in Workers : Held(v)' = Held(v)
<1>1. /\ WorkersShape /\ RowsShape /\ StoreShape /\ Busy(w) /\ pc[w] = "row"
      /\ UNCHANGED <<settingVars, sessionVars, storeVars, faultVars, history>>
  BY DEF QueueInv, QueueShape, TakeRow, Busy
<1>2. InHand(w) \in Ids /\ InHand(w) \in 1 .. MaxFrames /\ Attempt(w) \in 1 .. MaxAttempts
  BY <1>1, InHandHeld
<1>3. ~(Attempt(w) > MaxAttempts) /\ Attempt(w) \in 0 .. MaxAttempts
  BY <1>2, QueueBounds
<1>4. RecordState(InHand(w), "processing", Attempt(w), "deterministic") /\ Worker(w, "read", local[w])
  BY <1>3 DEF TakeRow
<1>5. PICK row : row = [frame |-> InHand(w), status |-> "processing", attempts |-> Attempt(w),
                        backend |-> "deterministic"]
  OBVIOUS
<1>6. captured' = captured /\ enqueues' = enqueues /\ frames' = frames
  BY <1>1 DEF storeVars
<1>7. RowsShape' /\ ToSet(queue') = {r \in ToSet(queue) : r.frame # InHand(w)} \cup {row}
  <2>1. "processing" \in Unsettled \cup Settled
    BY DEF Unsettled
  <2> QED
    BY <1>1, <1>2, <1>3, <1>4, <1>5, <1>6, <2>1, RowRecorded
<1>8. /\ WorkersShape' /\ pc'[w] = "read"
      /\ \A v \in Workers : Held(v)' = Held(v) /\ InHand(v)' = InHand(v)
      /\ \A v \in Workers \ {w} : pc'[v] = pc[v] /\ local'[v] = local[v]
  <2>1. local[w] \in Locals
    BY <1>1 DEF WorkersShape
  <2> QED
    BY <1>1, <1>4, <1>6, <2>1, SameBatch
<1>9. FaultsShape' /\ lossy' = lossy
  BY <1>1, FaultsRest
<1>10. ProcessingIsInHand'
  <2>1. ProcessingIsInHand
    BY DEF QueueInv
  <2>2. \A r \in ToSet(queue') : r \in ToSet(queue) \/ r.frame = InHand(w)
    BY <1>5, <1>7
  <2> QED
    BY <1>1, <1>8, <1>9, <2>1, <2>2, HandsRest
<1>11. HandOK(w)'
  BY <1>8 DEF HandOK
<1>12. \A f \in DOMAIN frames : frames[f] \in {"deterministic", "model"}
  BY <1>1 DEF StoreShape
<1>13. \A r \in ToSet(queue') : r \in ToSet(queue) \/ r.status = "processing"
  BY <1>5, <1>7
<1> QED
  BY <1>1, <1>6, <1>7, <1>8, <1>9, <1>10, <1>11, <1>12, <1>13, WorkHolds

(* A step that keeps the row in hand. *)
LEMMA HandMoves ==
  ASSUME WorkersShape, NEW w \in Workers, pc[w] \in {"read", "write", "mark"}, captured' = captured,
         NEW point \in {"write", "mark"}, NEW values \in Locals, values.batch = local[w].batch,
         Worker(w, point, values)
  PROVE  /\ WorkersShape' /\ pc'[w] = point /\ local'[w] = values
         /\ \A v \in Workers : Held(v)' = Held(v) /\ InHand(v)' = InHand(v)
         /\ \A v \in Workers \ {w} : pc'[v] = pc[v] /\ local'[v] = local[v]
<1>1. point \in {"row", "read", "write", "mark"} <=> Busy(w)
  BY DEF Busy
<1>2. /\ WorkersShape' /\ pc'[w] = point /\ local'[w] = values
      /\ \A v \in Workers : Held(v)' = Held(v) /\ InHand(v)' = InHand(v) /\ Attempt(v)' = Attempt(v)
      /\ \A v \in Workers \ {w} : pc'[v] = pc[v] /\ local'[v] = local[v]
  BY <1>1, SameBatch
<1> QED
  BY <1>2

LEMMA ReadFrameHolds ==
  ASSUME QueueInv, NEW w \in Workers, ReadFrame(w) \/ FrameFails(w)
  PROVE  QueueInv' /\ \A v \in Workers : Held(v)' = Held(v)
<1>1. /\ WorkersShape /\ RowsShape /\ StoreShape /\ Busy(w) /\ pc[w] \in {"read", "write", "mark"}
      /\ UNCHANGED <<settingVars, sessionVars, storeVars, queue, faultVars, history>>
  BY DEF QueueInv, QueueShape, ReadFrame, FrameFails, Busy
<1>2. captured' = captured /\ enqueues' = enqueues /\ frames' = frames /\ queue' = queue /\ contested' = contested
  BY <1>1 DEF storeVars, history
<1>3. \A f \in DOMAIN frames : frames[f] \in {"deterministic", "model"}
  BY <1>1 DEF StoreShape
<1>4. PICK point \in {"write", "mark"}, values \in Locals :
        /\ values.batch = local[w].batch /\ Worker(w, point, values)
        /\ point = "write" => values.text = frames[InHand(w)]
        /\ point = "mark" => values.outcome # "model"
  <2>0. local[w] \in Locals
    BY <1>1 DEF WorkersShape
  <2>1. CASE ReadFrame(w) /\ InHand(w) \in DOMAIN frames
    <3>1. PICK text \in {"deterministic", "model"} : text = frames[InHand(w)]
      BY <1>3, <2>1
    <3>2. /\ Worker(w, "write", [local[w] EXCEPT !.text = text]) /\ [local[w] EXCEPT !.text = text].text = text
          /\ [local[w] EXCEPT !.text = text] \in Locals
          /\ [local[w] EXCEPT !.text = text].batch = local[w].batch
      BY <2>0, <2>1, <3>1 DEF ReadFrame, Locals
    <3> QED
      BY <3>1, <3>2
  <2>2. CASE ReadFrame(w) /\ InHand(w) \notin DOMAIN frames
    <3>1. /\ Worker(w, "mark", [local[w] EXCEPT !.outcome = "deterministic"])
          /\ [local[w] EXCEPT !.outcome = "deterministic"].outcome = "deterministic"
          /\ [local[w] EXCEPT !.outcome = "deterministic"] \in Locals
          /\ [local[w] EXCEPT !.outcome = "deterministic"].batch = local[w].batch
      BY <2>0, <2>2 DEF ReadFrame, Locals
    <3> QED
      BY <3>1
  <2>3. CASE FrameFails(w)
    <3>1. /\ Worker(w, "mark", [local[w] EXCEPT !.text = "deterministic", !.outcome = "error"])
          /\ [local[w] EXCEPT !.text = "deterministic", !.outcome = "error"].outcome = "error"
          /\ [local[w] EXCEPT !.text = "deterministic", !.outcome = "error"] \in Locals
          /\ [local[w] EXCEPT !.text = "deterministic", !.outcome = "error"].batch = local[w].batch
      BY <2>0, <2>3 DEF FrameFails, Locals
    <3> QED
      BY <3>1
  <2> QED
    BY <2>1, <2>2, <2>3
<1>5. /\ WorkersShape' /\ pc'[w] = point /\ local'[w] = values
      /\ \A v \in Workers : Held(v)' = Held(v) /\ InHand(v)' = InHand(v)
      /\ \A v \in Workers \ {w} : pc'[v] = pc[v] /\ local'[v] = local[v]
  <2>1. values.batch = local[w].batch /\ Worker(w, point, values)
    BY <1>4
  <2>2. WorkersShape /\ pc[w] \in {"read", "write", "mark"} /\ captured' = captured
    BY <1>1, <1>2
  <2> QED
    BY <2>1, <2>2, HandMoves
<1>6. FaultsShape' /\ lossy' = lossy /\ RowsShape'
  BY <1>1, <1>2, FaultsRest DEF RowsShape, Ids
<1>7. ProcessingIsInHand'
  <2>1. ProcessingIsInHand
    BY DEF QueueInv
  <2>2. pc'[w] \in {"read", "write", "mark"}
    BY <1>5
  <2>3. ~lossy' => \A r \in ToSet(queue') : r.status = "processing" =>
          \E v \in Workers : pc'[v] \in {"read", "write", "mark"} /\ InHand(v)' = r.frame
    <3> SUFFICES ASSUME ~lossy', NEW r \in ToSet(queue'), r.status = "processing"
                 PROVE  \E v \in Workers : pc'[v] \in {"read", "write", "mark"} /\ InHand(v)' = r.frame
      OBVIOUS
    <3>1. PICK v \in Workers : pc[v] \in {"read", "write", "mark"} /\ InHand(v) = r.frame
      BY <1>2, <1>6, <2>1 DEF ProcessingIsInHand
    <3>2. pc'[v] \in {"read", "write", "mark"} /\ InHand(v)' = r.frame
      BY <1>5, <2>2, <3>1
    <3> QED
      BY <3>2
  <2> QED
    BY <2>3 DEF ProcessingIsInHand
<1>8. HandOK(w)'
  <2> SUFFICES /\ pc'[w] = "write" => local'[w].text = frames'[InHand(w)']
               /\ pc'[w] = "mark" /\ local'[w].outcome = "model" => frames'[InHand(w)'] = "model"
    BY DEF HandOK
  <2>1. InHand(w)' = InHand(w)
    BY <1>5
  <2> QED
    BY <1>2, <1>4, <1>5, <2>1
<1> QED
  BY <1>1, <1>2, <1>3, <1>5, <1>6, <1>7, <1>8, WorkHolds

LEMMA WriteFrameHolds ==
  ASSUME QueueInv, NEW w \in Workers, WriteFrame(w)
  PROVE  QueueInv' /\ \A v \in Workers : Held(v)' = Held(v)
<1>1. /\ WorkersShape /\ RowsShape /\ StoreShape /\ Busy(w) /\ pc[w] = "write" /\ HandOK(w)
      /\ UNCHANGED <<settingVars, sessionVars, captured, enqueues, queue, faultVars, history>>
  BY DEF QueueInv, QueueShape, WriteFrame, Busy, HandIsTrue
<1>2. local[w] \in Locals /\ local[w].text \in {"deterministic", "model"}
  BY <1>1 DEF WorkersShape, Locals
<1>3. PICK text \in {"deterministic", "model"}, outcome \in {"deterministic", "model"} :
        /\ StoreText(w, text, outcome) /\ (outcome = "model" => text = "model")
        /\ text = "model" \/ text = local[w].text
  BY <1>2 DEF WriteFrame
<1>4. /\ DOMAIN frames' = DOMAIN frames
      /\ \A f \in DOMAIN frames : frames'[f] = IF f = InHand(w) THEN text ELSE frames[f]
  BY <1>3 DEF StoreText
<1>5. PICK values \in Locals :
        /\ values.outcome = outcome /\ values.batch = local[w].batch /\ Worker(w, "mark", values)
  <2>1. /\ [local[w] EXCEPT !.text = "deterministic", !.outcome = outcome] \in Locals
        /\ [local[w] EXCEPT !.text = "deterministic", !.outcome = outcome].outcome = outcome
        /\ [local[w] EXCEPT !.text = "deterministic", !.outcome = outcome].batch = local[w].batch
    BY <1>2 DEF Locals
  <2> QED
    BY <1>3, <2>1 DEF StoreText
<1>6. /\ WorkersShape' /\ pc'[w] = "mark" /\ local'[w] = values
      /\ \A v \in Workers : Held(v)' = Held(v) /\ InHand(v)' = InHand(v)
      /\ \A v \in Workers \ {w} : pc'[v] = pc[v] /\ local'[v] = local[v]
  BY <1>1, <1>5, HandMoves
<1>7. FaultsShape' /\ lossy' = lossy /\ RowsShape'
  BY <1>1, FaultsRest DEF RowsShape, Ids
<1>8. ProcessingIsInHand'
  <2>1. ProcessingIsInHand
    BY DEF QueueInv
  <2>2. \A r \in ToSet(queue') : r \in ToSet(queue)
    BY <1>1
  <2> QED
    BY <1>6, <1>7, <2>1, <2>2, HandsRest
<1>9. HandOK(w)'
  <2> SUFFICES ASSUME InHand(w)' \in Known', local'[w].outcome = "model" PROVE frames'[InHand(w)'] = "model"
    BY <1>6 DEF HandOK
  <2>1. InHand(w)' = InHand(w) /\ InHand(w) \in DOMAIN frames
    BY <1>4, <1>6 DEF Known
  <2> QED
    BY <1>3, <1>4, <1>5, <1>6, <2>1
<1>10. \A f \in DOMAIN frames : frames'[f] \in {"deterministic", "model"} /\ (f # InHand(w) => frames'[f] = frames[f])
  BY <1>1, <1>4 DEF StoreShape
<1>11. \A f \in Known : frames[f] = "model" => frames'[f] = "model"
  BY <1>1, <1>3, <1>4 DEF Known, HandOK
<1>12. ToSet(queue') = ToSet(queue)
  BY <1>1
<1> QED
  BY <1>1, <1>4, <1>6, <1>7, <1>8, <1>9, <1>10, <1>11, <1>12, WorkHolds

LEMMA MarkRowHolds ==
  ASSUME QueueInv, NEW w \in Workers, MarkRow(w)
  PROVE  QueueInv' /\ \A v \in Workers : Held(v)' \subseteq Held(v)
<1>1. /\ WorkersShape /\ RowsShape /\ StoreShape /\ Busy(w) /\ pc[w] = "mark" /\ HandOK(w)
      /\ UNCHANGED <<settingVars, sessionVars, storeVars, faultVars, history>>
  BY DEF QueueInv, QueueShape, MarkRow, Busy, HandIsTrue
<1>2. /\ InHand(w) \in Ids /\ InHand(w) \in 1 .. MaxFrames /\ Attempt(w) \in 1 .. MaxAttempts
      /\ InHand(w) \in Held(w)
  BY <1>1, InHandHeld
<1>3. PICK status \in {"complete", "deterministic_fallback", "pending"}, backend \in {"model", "deterministic"} :
        /\ RecordState(InHand(w), status, Attempt(w), backend) /\ Drop(w)
        /\ status = "pending" => Attempt(w) < MaxAttempts
        /\ backend = "model" => local[w].outcome = "model"
  <2>1. StatusAfter(w) \in {"complete", "deterministic_fallback", "pending"}
    BY DEF StatusAfter
  <2>2. StatusAfter(w) = "pending" => Attempt(w) < MaxAttempts
    BY <1>2, QueueBounds DEF StatusAfter
  <2> QED
    BY <2>1, <2>2 DEF MarkRow
<1>4. captured' = captured /\ enqueues' = enqueues /\ frames' = frames
  BY <1>1 DEF storeVars
<1>5. PICK row : row = [frame |-> InHand(w), status |-> status, attempts |-> Attempt(w), backend |-> backend]
  OBVIOUS
<1>6. RowsShape' /\ ToSet(queue') = {r \in ToSet(queue) : r.frame # InHand(w)} \cup {row}
  <2>1. status \in Unsettled \cup Settled /\ Attempt(w) \in 0 .. MaxAttempts
    BY <1>2, <1>3, QueueBounds DEF Unsettled, Settled
  <2>2. status = "pending" => Attempt(w) < MaxAttempts
    BY <1>3
  <2>3. backend \in {"none", "deterministic", "model"}
    BY <1>3
  <2>4. RecordState(InHand(w), status, Attempt(w), backend)
    BY <1>3
  <2> QED
    BY <1>1, <1>2, <1>4, <1>5, <2>1, <2>2, <2>3, <2>4, RowRecorded
<1>7. /\ WorkersShape' /\ Held(w)' \subseteq Held(w) /\ pc'[w] \in {"idle", "row"}
      /\ \A v \in Workers \ {w} : pc'[v] = pc[v] /\ local'[v] = local[v] /\ Held(v)' = Held(v)
  BY <1>1, <1>3, <1>4, DropShows
<1>8. FaultsShape' /\ lossy' = lossy
  BY <1>1, FaultsRest
<1>9. ProcessingIsInHand'
  <2>1. ProcessingIsInHand
    BY DEF QueueInv
  <2>2. \A r \in ToSet(queue') : r.status = "processing" => r \in ToSet(queue) /\ InHand(w) # r.frame
    BY <1>3, <1>5, <1>6
  <2> QED
    BY <1>7, <1>8, <2>1, <2>2, HandsRest
<1>10. HandOK(w)'
  BY <1>7 DEF HandOK
<1>11. \A f \in DOMAIN frames : frames[f] \in {"deterministic", "model"}
  BY <1>1 DEF StoreShape
<1>12. \A r \in ToSet(queue') :
         \/ r \in ToSet(queue)
         \/ /\ r.status = "pending" => r.frame \in Held(w)
            /\ r.status = "complete" /\ r.backend = "model" => (r.frame \in Known => frames[r.frame] = "model")
  <2>1. row.frame = InHand(w) /\ row.backend = backend
    BY <1>5
  <2>2. backend = "model" => (InHand(w) \in Known => frames[InHand(w)] = "model")
    BY <1>1, <1>3 DEF HandOK
  <2> QED
    BY <1>2, <1>6, <2>1, <2>2
<1> QED
  BY <1>1, <1>4, <1>6, <1>7, <1>8, <1>9, <1>10, <1>11, <1>12, WorkHolds

LEMMA StateFailsHolds ==
  ASSUME QueueInv, NEW w \in Workers, StateFails(w)
  PROVE  QueueInv' /\ \A v \in Workers : Held(v)' \subseteq Held(v)
<1>1. /\ WorkersShape /\ RowsShape /\ StoreShape /\ FaultsShape /\ Busy(w) /\ Drop(w) /\ Fault("state")
      /\ UNCHANGED <<settingVars, sessionVars, storeVars, queue, history>>
  BY DEF QueueInv, QueueShape, StateFails, Busy
<1>2. captured' = captured /\ enqueues' = enqueues /\ frames' = frames /\ queue' = queue
  BY <1>1 DEF storeVars
<1>3. /\ WorkersShape' /\ Held(w)' \subseteq Held(w) /\ pc'[w] \in {"idle", "row"}
      /\ \A v \in Workers \ {w} : pc'[v] = pc[v] /\ local'[v] = local[v] /\ Held(v)' = Held(v)
  BY <1>1, <1>2, DropShows
<1>4. FaultsShape' /\ lossy'
  BY <1>1, FaultShows
<1>5. RowsShape' /\ ProcessingIsInHand' /\ HandOK(w)'
  BY <1>1, <1>2, <1>3, <1>4 DEF RowsShape, Ids, ProcessingIsInHand, HandOK
<1>6. \A f \in DOMAIN frames : frames[f] \in {"deterministic", "model"}
  BY <1>1 DEF StoreShape
<1> QED
  BY <1>1, <1>2, <1>3, <1>4, <1>5, <1>6, WorkHolds

-----------------------------------------------------------------------------
(* The settling, and the end of the process. *)
LEMMA SettlesHolds ==
  ASSUME QueueInv, queue' = SettledQueue, UNCHANGED <<storeVars, workerVars, contested>>, SettingShape',
         FaultsShape', lossy => lossy', old' \in {old, Ids \ UnderWay}
  PROVE  QueueInv'
<1>1. /\ StoreShape /\ WorkersShape /\ RowsShape /\ OldIsLeft /\ Ids' = Ids
      /\ captured' = captured /\ enqueues' = enqueues /\ frames' = frames /\ pc' = pc /\ local' = local
  BY DEF QueueInv, QueueShape, storeVars, workerVars, Ids
<1>2. /\ RowsShape'
      /\ \A r \in ToSet(queue') : r.status \in Settled /\ (r \in ToSet(queue) \/ r.backend = "deterministic")
  BY <1>1, RowsSettled
<1>3. WorkersShape' /\ \A w \in Workers : Rests(w) /\ Held(w)' = Held(w)
  BY <1>1, WorkersRest
<1>4. old' \subseteq Ids /\ old' \cap enqueues = {} /\ \A w \in Workers : old' \cap Held(w) = {}
  BY <1>1 DEF StoreShape, OldIsLeft, UnderWay
<1>5. StoreShape'
  BY <1>1, <1>4 DEF StoreShape
<1>6. QueueShape'
  BY <1>2, <1>3, <1>5 DEF QueueShape
<1>7. \A r \in ToSet(queue') : r.status # "pending" /\ r.status # "processing"
  BY <1>2 DEF Settled
<1>8. OldIsLeft'
  BY <1>1, <1>3, <1>4, <1>7 DEF OldIsLeft
<1>9. Alone' /\ HandIsTrue' /\ BackendIsHonest' /\ ProcessingIsInHand'
  <2>1. \A f \in Known' \cap Ids : f \in Known /\ frames'[f] = frames[f]
    BY <1>1 DEF Known
  <2>2. \A r \in ToSet(queue') : r \in ToSet(queue) \/ (r.status # "processing" /\ r.backend # "model")
    BY <1>2, <1>7
  <2>3. \A w \in Workers : /\ pc'[w] = pc[w] /\ local'[w].batch = local[w].batch
                           /\ local'[w].text = local[w].text /\ local'[w].outcome = local[w].outcome
    BY <1>1
  <2> QED
    BY <1>6, <2>1, <2>2, <2>3, QueueRests
<1> QED
  BY <1>6, <1>8, <1>9 DEF QueueInv

LEMMA OptInHolds ==
  ASSUME QueueInv, OptIn
  PROVE  QueueInv'
<1>1. /\ SettingShape /\ toggles < MaxToggles /\ toggles' = toggles + 1 /\ cmd' = "save" /\ queue' = SettledQueue
      /\ old' = Ids \ UnderWay
      /\ UNCHANGED <<enabled, sessionVars, storeVars, workerVars, faultVars, contested>>
  BY DEF QueueInv, QueueShape, OptIn, Ids
<1>2. toggles' \in 0 .. MaxToggles
  BY <1>1, QueueBounds DEF SettingShape
<1>3. SettingShape'
  BY <1>1, <1>2 DEF SettingShape, sessionVars
<1>4. FaultsShape' /\ lossy' = lossy
  BY <1>1, FaultsRest
<1> QED
  BY <1>1, <1>3, <1>4, SettlesHolds

LEMMA OptOutSettlesHolds ==
  ASSUME QueueInv, OptOutSettles
  PROVE  QueueInv'
<1>1. /\ SettingShape /\ FaultsShape /\ cmd' = "idle" /\ old' = old /\ contested' = contested
      /\ UNCHANGED <<enabled, toggles, sessionVars, storeVars, workerVars>>
  BY DEF QueueInv, QueueShape, OptOutSettles, history
<1>2. SettingShape'
  BY <1>1 DEF SettingShape, sessionVars
<1>3. CASE queue' = SettledQueue /\ UNCHANGED faultVars
  <2>1. FaultsShape' /\ lossy' = lossy
    BY <1>3, FaultsRest
  <2> QED
    BY <1>1, <1>2, <1>3, <2>1, SettlesHolds
<1>4. CASE Fault("settle") /\ UNCHANGED queue
  <2>1. FaultsShape' /\ (lossy => lossy')
    BY <1>1, <1>4, FaultShows
  <2>2. WorkersShape' /\ \A w \in Workers : Rests(w) /\ Held(w)' = Held(w)
    BY <1>1, WorkersRest DEF storeVars, QueueInv, QueueShape
  <2> QED
    BY <1>1, <1>2, <1>4, <2>1, <2>2, SettingMoves
<1> QED
  BY <1>3, <1>4 DEF OptOutSettles

LEMMA CrashHolds ==
  ASSUME QueueInv, QueueCrash
  PROVE  QueueInv' /\ \A w \in Workers : Held(w)' = {}
<1>1. /\ SettingShape /\ StoreShape /\ RowsShape /\ FaultsShape /\ OldIsLeft /\ Fault("crash")
      /\ cmd' = "idle" /\ phase' = "off" /\ current' = NoWorker /\ enqueues' = {}
      /\ pc' = [w \in Workers |-> "gone"] /\ local' = [w \in Workers |-> Fresh]
      /\ UNCHANGED <<enabled, toggles, captured, frames, queue, history>>
  BY DEF QueueInv, QueueShape, QueueCrash
<1>2. /\ Ids' = Ids /\ captured' = captured /\ frames' = frames /\ queue' = queue /\ old' = old
      /\ contested' = contested
  BY <1>1 DEF Ids, history
<1>3. \A w \in Workers : local'[w].batch = <<>> /\ pc'[w] = "gone" /\ Held(w)' = {} /\ ~Busy(w)'
  <2> SUFFICES ASSUME NEW w \in Workers
               PROVE  local'[w].batch = <<>> /\ pc'[w] = "gone" /\ Held(w)' = {} /\ ~Busy(w)'
    OBVIOUS
  <2>1. local'[w].batch = <<>> /\ pc'[w] = "gone"
    BY <1>1, FreshIs
  <2> QED
    BY <2>1, EmptySet DEF Held, Busy
<1>4. WorkersShape'
  BY <1>1, <1>3, FreshIs DEF WorkersShape
<1>5. FaultsShape' /\ lossy'
  BY <1>1, FaultShows
<1>6. QueueShape'
  BY <1>1, <1>2, <1>4, <1>5 DEF QueueShape, SettingShape, StoreShape, RowsShape
<1>7. OldIsLeft'
  BY <1>1, <1>2, <1>3 DEF OldIsLeft
<1>8. Alone' /\ HandIsTrue' /\ BackendIsHonest' /\ ProcessingIsInHand'
  <2>1. \A f \in Known' \cap Ids : f \in Known /\ frames'[f] = frames[f]
    BY <1>2 DEF Known
  <2> QED
    BY <1>2, <1>3, <1>5, <1>6, <2>1, QueueRests
<1> QED
  BY <1>3, <1>6, <1>7, <1>8 DEF QueueInv

-----------------------------------------------------------------------------
LEMMA InitHolds ==
  ASSUME QueueInit
  PROVE  QueueInv
<1>1. /\ enabled \in BOOLEAN /\ cmd = "idle" /\ toggles = 0 /\ phase = "off" /\ current = NoWorker
      /\ captured = 0 /\ frames = <<>> /\ queue = <<>> /\ enqueues = {}
      /\ pc = [w \in Workers |-> "gone"] /\ local = [w \in Workers |-> Fresh]
      /\ faults = 0 /\ lossy = FALSE /\ old = {} /\ contested = {}
  BY DEF QueueInit
<1>2. Ids = {} /\ ToSet(queue) = {} /\ DOMAIN queue = {} /\ DOMAIN frames = {} /\ queue \in Seq(StateRows)
  <2>1. DOMAIN <<>> = {} /\ <<>> \in Seq(StateRows)
    OBVIOUS
  <2> QED
    BY <1>1, <2>1, EmptySet DEF Ids
<1>3. \A w \in Workers : local[w].batch = <<>> /\ pc[w] = "gone" /\ Held(w) = {} /\ ~Busy(w)
  <2> SUFFICES ASSUME NEW w \in Workers
               PROVE  local[w].batch = <<>> /\ pc[w] = "gone" /\ Held(w) = {} /\ ~Busy(w)
    OBVIOUS
  <2>1. local[w].batch = <<>> /\ pc[w] = "gone"
    BY <1>1, FreshIs
  <2> QED
    BY <2>1, EmptySet DEF Held, Busy
<1>4. WorkersShape
  BY <1>1, <1>3, FreshIs DEF WorkersShape
<1>5. SettingShape /\ StoreShape /\ RowsShape /\ FaultsShape
  <2>1. 0 \in 0 .. MaxToggles /\ 0 \in 0 .. MaxFrames /\ 0 \in 0 .. MaxFaults
    BY QueueBounds
  <2>2. SettingShape /\ FaultsShape
    BY <1>1, <2>1 DEF SettingShape, FaultsShape
  <2>3. StoreShape
    BY <1>1, <1>2, <2>1 DEF StoreShape
  <2>4. RowsShape
    BY <1>1, <1>2 DEF RowsShape
  <2> QED
    BY <2>2, <2>3, <2>4
<1>6. OldIsLeft /\ Alone /\ HandIsTrue /\ BackendIsHonest /\ ProcessingIsInHand
  BY <1>1, <1>2, <1>3 DEF OldIsLeft, Alone, HandIsTrue, HandOK, BackendIsHonest, ProcessingIsInHand
<1> QED
  BY <1>4, <1>5, <1>6 DEF QueueInv, QueueShape

(* No step takes up what the opt-in left. *)
LEMMA NoneIsTakenUp ==
  ASSUME QueueInv, UNCHANGED local \/ \A w \in Workers : Held(w)' \subseteq Held(w)
  PROVE  \A w \in Workers : (Held(w)' \ Held(w)) \cap old' = {}
BY DEF Held

LEMMA StepHolds ==
  ASSUME QueueInv, [QueueNext]_queueVars
  PROVE  QueueInv' /\ \A w \in Workers : (Held(w)' \ Held(w)) \cap old' = {}
<1>1. CASE Start \/ CommandStarts \/ CommandRollsBack
  <2>1. \A w \in Workers : Held(w)' = Held(w)
    <3>1. WorkersShape /\ captured' = captured
      BY <1>1 DEF QueueInv, QueueShape, Start, CommandStarts, CommandRollsBack, storeVars
    <3>2. CASE BeginStart(enabled) \/ BeginStart(~enabled)
      BY <3>1, <3>2, BeginShows
    <3>3. CASE UNCHANGED workerVars
      BY <3>3 DEF workerVars, Held
    <3> QED
      BY <1>1, <3>2, <3>3 DEF Start, CommandStarts, CommandRollsBack
  <2> QED
    BY <1>1, <2>1, StartHolds, CommandRollsBackHolds, NoneIsTakenUp
<1>2. CASE Stop \/ SessionStep
  <2>1. UNCHANGED local
    BY <1>2 DEF Stop, SessionStep, StartEnds, LanesDrained, StopEnds, workerVars
  <2> QED
    BY <1>2, <2>1, SessionHolds, NoneIsTakenUp DEF SessionStep
<1>3. CASE OptIn \/ OptOutSettles
  <2>1. UNCHANGED local
    BY <1>3 DEF OptIn, OptOutSettles, workerVars
  <2> QED
    BY <1>3, <2>1, OptInHolds, OptOutSettlesHolds, NoneIsTakenUp
<1>4. CASE OptInUnsettledByFault \/ OptInSaves \/ SaveFails \/ OptOut \/ CommandStops \/ CommandRestarted
  <2>1. UNCHANGED local
    BY <1>4 DEF OptInUnsettledByFault, OptInSaves, SaveFails, OptOut, Save, CommandStops, CommandRestarted, workerVars
  <2> QED
    BY <1>4, <2>1, CommandHolds, NoneIsTakenUp
<1>5. CASE Capture
  <2>1. UNCHANGED local
    BY <1>5 DEF Capture, workerVars
  <2> QED
    BY <1>5, <2>1, CaptureHolds, NoneIsTakenUp
<1>6. CASE \E f \in 1 .. MaxFrames : Enqueue(f) \/ EnqueueFails(f) \/ Delete(f)
  <2>1. PICK f \in 1 .. MaxFrames : Enqueue(f) \/ EnqueueFails(f) \/ Delete(f)
    BY <1>6
  <2>2. UNCHANGED local
    BY <2>1 DEF Enqueue, EnqueueFails, Delete, workerVars
  <2> QED
    BY <2>1, <2>2, EnqueueHolds, EnqueueFailsHolds, DeleteHolds, NoneIsTakenUp
<1>7. CASE \E w \in Workers : LoadModel(w) \/ WorkerStep(w) \/ StateFails(w)
  <2>1. PICK w \in Workers : LoadModel(w) \/ WorkerStep(w) \/ StateFails(w)
    BY <1>7
  <2>2. CASE LoadModel(w) \/ Leave(w) \/ Wake(w)
    <3>1. \A v \in Workers : Held(v)' \subseteq Held(v)
      <4>1. WorkersShape /\ \A v \in Workers : local[v].batch = <<>> => Held(v) = {}
        BY EmptySet DEF QueueInv, QueueShape, Held
      <4>2. \A v \in Workers : local'[v].batch = local[v].batch \/ local'[v].batch = <<>>
        <5> SUFFICES ASSUME NEW v \in Workers
                     PROVE  local'[v].batch = local[v].batch \/ local'[v].batch = <<>>
          OBVIOUS
        <5>1. local \in [Workers -> Locals] /\ local[w] \in Locals /\ local[v] \in Locals
          BY <4>1 DEF WorkersShape
        <5>2. CASE LoadModel(w)
          <6>1. local'[v] = IF v = w THEN [local[v] EXCEPT !.model = TRUE] ELSE local[v]
            BY <5>1, <5>2 DEF LoadModel
          <6>2. [local[v] EXCEPT !.model = TRUE].batch = local[v].batch
            BY <5>1 DEF Locals
          <6> QED
            BY <6>1, <6>2
        <5>3. CASE Leave(w)
          <6>1. local'[v] = IF v = w THEN Fresh ELSE local[v]
            BY <5>1, <5>3 DEF Leave, Worker
          <6> QED
            BY <6>1, FreshIs
        <5>4. CASE Wake(w)
          BY <5>4 DEF Wake
        <5> QED
          BY <2>2, <5>2, <5>3, <5>4
      <4> QED
        BY <4>2, EmptySet DEF Held
    <3> QED
      BY <2>2, <3>1, LoadModelHolds, LeaveHolds, NoneIsTakenUp
  <2>3. CASE Poll(w)
    <3>1. QueueInv' /\ old' = old /\ Held(w)' \cap old = {} /\ \A v \in Workers \ {w} : Held(v)' = Held(v)
      BY <2>3, PollHolds
    <3> QED
      BY <3>1
  <2>4. CASE TakeRow(w) \/ ReadFrame(w) \/ FrameFails(w) \/ WriteFrame(w) \/ MarkRow(w) \/ StateFails(w)
    <3>1. QueueInv' /\ \A v \in Workers : Held(v)' \subseteq Held(v)
      BY <2>4, TakeRowHolds, ReadFrameHolds, WriteFrameHolds, MarkRowHolds, StateFailsHolds
    <3> QED
      BY <3>1, NoneIsTakenUp
  <2> QED
    BY <2>1, <2>2, <2>3, <2>4 DEF WorkerStep
<1>8. CASE QueueCrash
  <2>1. QueueInv' /\ \A w \in Workers : Held(w)' \subseteq Held(w)
    BY <1>8, CrashHolds
  <2> QED
    BY <2>1, NoneIsTakenUp
<1>9. CASE UNCHANGED queueVars
  <2>1. /\ SettingShape' /\ FaultsShape' /\ lossy' = lossy /\ UNCHANGED <<storeVars, queue, contested>>
        /\ old' = old /\ UNCHANGED <<workerVars, captured>>
    BY <1>9, SettingRests, FaultsRest DEF queueVars, history, storeVars
  <2>2. WorkersShape' /\ \A w \in Workers : Rests(w) /\ Held(w)' = Held(w)
    BY <2>1, WorkersRest DEF QueueInv, QueueShape
  <2> QED
    BY <2>1, <2>2, SettingMoves, NoneIsTakenUp
<1> QED
  BY <1>1, <1>2, <1>3, <1>4, <1>5, <1>6, <1>7, <1>8, <1>9 DEF QueueNext, CommandStep

LEMMA QueueInvariant == QueueSpec => []QueueInv
<1>1. QueueInit => QueueInv
  BY InitHolds
<1>2. QueueInv /\ [QueueNext]_queueVars => QueueInv'
  BY StepHolds
<1> QED
  BY <1>1, <1>2, PTL DEF QueueSpec

(* Type correctness.  A pending row always has an attempt left, so that the   *)
(* branch of process_row for exhausted rows never runs.                       *)
THEOREM QueueTypeCorrect == QueueSpec => []QueueTypeOK
<1>1. QueueInv => QueueTypeOK
  BY DEF QueueInv, QueueShape, SettingShape, StoreShape, RowsShape, WorkersShape, FaultsShape, QueueTypeOK,
         Locals, Ids
<1> QED
  BY <1>1, QueueInvariant, PTL

(* What process_row records as redacted by the model has been: frames that    *)
(* exist and that no two workers held at once are the hypothesis, as in the   *)
(* property.                                                                  *)
THEOREM BackendsAreHonest == QueueSpec => []BackendIsHonest
<1>1. QueueInv => BackendIsHonest
  BY DEF QueueInv
<1> QED
  BY <1>1, QueueInvariant, PTL

(* Whatever stops, restarts and settlings run beside a batch, no row stays    *)
(* "processing" that no worker is about to mark.                              *)
THEOREM ProcessingRowsAreInHand == QueueSpec => []ProcessingIsInHand
<1>1. QueueInv => ProcessingIsInHand
  BY DEF QueueInv
<1> QED
  BY <1>1, QueueInvariant, PTL

(* set_ai_pii_redaction_enabled is forward-looking: what the opt-in found     *)
(* with nobody at work on it no poll ever selects.                            *)
THEOREM HistoryIsLeftAlone == QueueSpec => NoHistoricalSweep
<1>1. QueueInv /\ [QueueNext]_queueVars =>
        [\A w \in Workers : (Held(w)' \ Held(w)) \cap old' = {}]_queueVars
  BY StepHolds
<1> QED
  BY <1>1, QueueInvariant, PTL DEF QueueSpec, NoHistoricalSweep
=============================================================================
