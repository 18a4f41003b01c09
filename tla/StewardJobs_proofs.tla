-------------------------- MODULE StewardJobs_proofs --------------------------
(***************************************************************************)
(* Theorems about StewardJobs, for every value of its constants.           *)
(*                                                                         *)
(* The proofs share two facts.  The inductive invariant Typed adds to      *)
(* TypeOK what the types of the tables cannot say: a wake past its freeze  *)
(* holds a packet, and no packet is empty.  And every step changes the     *)
(* tables in one of seven ways (StoreStep), so an invariant of the tables  *)
(* is proved once per way and not once per action.                         *)
(***************************************************************************)
EXTENDS StewardJobs, TLAPS, WellFoundedInduction, FiniteSetTheorems

(* The wake of w has recovered or frozen a packet. *)
HoldsPacket(w) == pc[w] \notin {"idle", "recover", "freeze"}

Filled(p) == p \in Packet /\ p.observations # {}

Typed ==
  /\ TypeOK
  /\ \A w \in Workers : HoldsPacket(w) => Filled(packet[w])
  /\ \A p \in Jobs : Filled(p)

-----------------------------------------------------------------------------
(* The ways a step changes the tables. *)

KeepsTables ==
  /\ UNCHANGED <<status, log, reconciled, cursor>>
  /\ observations \subseteq observations'

Inserts(p) ==
  /\ \E w \in Workers : pc[w] = "insert" /\ packet[w] = p
  /\ Filled(p) /\ Insertable(p)
  /\ status' = [status EXCEPT ![p] = "pending"]
  /\ UNCHANGED <<observations, log, reconciled, cursor>>

Activates(p, s) ==
  /\ p \in Jobs /\ status[p] # "accepted"
  /\ p \in Active \/ Active \subseteq {p}
  /\ s \in {"pending", "running"}
  /\ status' = [status EXCEPT ![p] = s]
  /\ UNCHANGED <<observations, log, reconciled, cursor>>

Records(p, outcome) ==
  /\ p \in Jobs
  /\ outcome \in {"provider_error", "invalid_output"}
  /\ log' = [log EXCEPT ![p] = Append(@, outcome)]
  /\ UNCHANGED <<observations, status, reconciled, cursor>>

Commits(p) ==
  /\ p \in Active
  /\ CommitReconciliation(p)
  /\ UNCHANGED observations

Rejects(p) ==
  /\ p \in Jobs /\ status[p] # "accepted"
  /\ status' = [status EXCEPT ![p] = "rejected"]
  /\ UNCHANGED <<observations, log, reconciled, cursor>>

Wipes ==
  /\ observations' = {}
  /\ status' = [p \in Packet |-> "absent"]
  /\ log' = [p \in Packet |-> << >>]
  /\ reconciled' = {} /\ cursor' = 0

StoreStep ==
  \/ KeepsTables
  \/ \E p \in Packet : \/ Inserts(p)
                       \/ Activates(p, "pending") \/ Activates(p, "running")
                       \/ Records(p, "provider_error") \/ Records(p, "invalid_output")
                       \/ Commits(p)
                       \/ Rejects(p)
  \/ Wipes

(* Every step of the specification is one of them. *)
LEMMA StoreSteps ==
  ASSUME Typed, [Next]_vars
  PROVE  StoreStep
<1> USE DEF StoreStep
<1>1. CASE Admit
  BY <1>1 DEF Admit, KeepsTables
<1>2. CASE TickWake
  BY <1>2 DEF TickWake, KeepsTables, storeVars
<1>3. ASSUME NEW w \in Workers, RefreshWake(w)
      PROVE  StoreStep
  BY <1>3 DEF RefreshWake, KeepsTables, storeVars
<1>4. ASSUME NEW w \in Workers, Advance(w)
      PROVE  StoreStep
  <2>1. HoldsPacket(w) => Filled(packet[w])
    BY DEF Typed
  <2>2. CASE RecoverJob(w) \/ FreezePacket(w) \/ LookupJob(w) \/ ProviderAnswers(w)
    BY <2>2 DEF RecoverJob, FreezePacket, LookupJob, ProviderAnswers, KeepsTables, storeVars
  <2>3. CASE AlreadyAccepted(w) \/ RefuseOutput(w) \/ NumberAttempt(w)
    BY <2>3 DEF AlreadyAccepted, RefuseOutput, NumberAttempt, KeepsTables, storeVars
  <2>4. CASE InsertJob(w)
    <3>1. Filled(packet[w])
      BY <2>1, <2>4 DEF InsertJob, HoldsPacket
    <3>2. packet[w] \in Packet
      BY <3>1 DEF Filled
    <3>3. CASE Insertable(packet[w])
      BY <2>4, <3>1, <3>2, <3>3 DEF InsertJob, Inserts
    <3>4. CASE ~Insertable(packet[w])
      BY <2>4, <3>4 DEF InsertJob, KeepsTables
    <3> QED  BY <3>3, <3>4
  <2>5. CASE ClaimJob(w)
    <3>1. CASE packet[w] \in Active
      <4>1. packet[w] \in Packet /\ packet[w] \in Jobs /\ status[packet[w]] # "accepted"
        BY <3>1 DEF Active, Jobs
      <4>2. Activates(packet[w], "running")
        BY <2>5, <3>1, <4>1 DEF ClaimJob, Activates
      <4> QED  BY <4>1, <4>2
    <3>2. CASE packet[w] \notin Active
      BY <2>5, <3>2 DEF ClaimJob, KeepsTables
    <3> QED  BY <3>1, <3>2
  <2>6. CASE Accept(w)
    BY <2>6 DEF Accept, Commits, Active
  <2>7. CASE RecordAttempt(w)
    <3>1. CASE Recordable(w)
      <4>1. packet[w] \in Packet /\ packet[w] \in Jobs
        BY <3>1 DEF Recordable, Jobs
      <4>2. CASE pc[w] = "record_error"
        BY <2>7, <3>1, <4>1, <4>2 DEF RecordAttempt, Records
      <4>3. CASE pc[w] # "record_error"
        BY <2>7, <3>1, <4>1, <4>3 DEF RecordAttempt, Records
      <4> QED  BY <4>2, <4>3
    <3>2. CASE ~Recordable(w)
      BY <2>7, <3>2 DEF RecordAttempt, KeepsTables
    <3> QED  BY <3>1, <3>2
  <2>8. CASE MarkJobFailed(w)
    <3>1. packet[w] \in Packet
      BY <2>1, <2>8 DEF MarkJobFailed, HoldsPacket, Filled
    <3>2. CASE /\ status[packet[w]] \notin {"absent", "accepted"}
               /\ Active \subseteq {packet[w]}
      <4>1. Activates(packet[w], "pending")
        BY <2>8, <3>1, <3>2 DEF MarkJobFailed, Activates, Jobs
      <4> QED  BY <3>1, <4>1
    <3>3. CASE ~(/\ status[packet[w]] \notin {"absent", "accepted"}
                 /\ Active \subseteq {packet[w]})
      BY <2>8, <3>3 DEF MarkJobFailed, KeepsTables
    <3> QED  BY <3>2, <3>3
  <2>9. CASE MarkJobRejected(w)
    <3>1. packet[w] \in Packet
      BY <2>1, <2>9 DEF MarkJobRejected, HoldsPacket, Filled
    <3>2. CASE status[packet[w]] \in {"absent", "accepted"}
      BY <2>9, <3>2 DEF MarkJobRejected, KeepsTables
    <3>3. CASE status[packet[w]] \notin {"absent", "accepted"}
      <4>1. Rejects(packet[w])
        BY <2>9, <3>1, <3>3 DEF MarkJobRejected, Rejects, Jobs
      <4> QED  BY <3>1, <4>1
    <3> QED  BY <3>2, <3>3
  <2> QED
    BY <1>4, <2>2, <2>3, <2>4, <2>5, <2>6, <2>7, <2>8, <2>9 DEF Advance
<1>5. ASSUME NEW w \in Workers, ProviderFails(w)
      PROVE  StoreStep
  BY <1>5 DEF ProviderFails, KeepsTables, storeVars
<1>6. ASSUME NEW w \in Workers, AcceptThenSurfaceFails(w)
      PROVE  StoreStep
  BY <1>6 DEF AcceptThenSurfaceFails, Commits, Active
<1>7. CASE Wipe
  BY <1>7 DEF Wipe, Wipes
<1>8. CASE Crash
  BY <1>8 DEF Crash, KeepsTables, storeVars
<1>9. CASE UNCHANGED vars
  BY <1>9 DEF vars, storeVars, KeepsTables
<1> QED
  BY <1>1, <1>2, <1>3, <1>4, <1>5, <1>6, <1>7, <1>8, <1>9 DEF Next

-----------------------------------------------------------------------------
(* Bounded non-empty sets of numbers have a least and a greatest element.   *)

LEMMA LeastElement ==
  ASSUME NEW S \in SUBSET Nat, S # {}
  PROVE  \E m \in S : \A x \in S : m =< x
<1> DEFINE R == {ss \in Nat \X Nat : ss[1] < ss[2]}
<1>1. IsWellFoundedOn(R, Nat)
  BY NatLessThanWellFounded DEF OpToRel
<1> HIDE DEF R
<1>2. PICK m \in S : \A y \in S : ~(<<y, m>> \in R)
  BY <1>1, WFMin
<1>3. \A x \in S : ~(x < m)
  BY <1>2 DEF R
<1> QED  BY <1>3

LEMMA GreatestElement ==
  ASSUME NEW N \in Nat, NEW S \in SUBSET (1 .. N), S # {}
  PROVE  Max(S) \in S
<1> DEFINE T == {N - x : x \in S}
<1>1. \A x \in S : x \in Int /\ N - x \in Nat
  OBVIOUS
<1>11. T \in SUBSET Nat /\ T # {}
  BY <1>1
<1>2. PICK m \in T : \A x \in T : m =< x
  BY <1>11, LeastElement
<1>3. PICK g \in S : m = N - g
  BY <1>2
<1>4. \A x \in S : g >= x
  BY <1>1, <1>2, <1>3
<1> QED  BY <1>4 DEF Max

(* A packet is frozen only when an observation is pending, and holds some.  *)
LEMMA FrozenPacketIsFilled ==
  ASSUME TypeOK, Pending # {}
  PROVE  OldestPending # {} /\ OldestPending \subseteq SequenceNumbers
<1>1. observations \subseteq SequenceNumbers
  <2>1. lastSequence \in 0 .. MaxObservations /\ observations \subseteq 1 .. lastSequence
    BY DEF TypeOK
  <2> QED  BY <2>1, BoundsAssumption DEF SequenceNumbers
<1>2. Pending \in SUBSET Nat
  <2>1. \A x \in SequenceNumbers : x \in Nat
    BY BoundsAssumption DEF SequenceNumbers
  <2> QED  BY <1>1, <2>1 DEF Pending
<1>3. PICK m \in Pending : \A x \in Pending : m =< x
  BY <1>2, LeastElement
<1>4. \A q \in Pending : ~(q < m)
  BY <1>2, <1>3
<1>5. {q \in Pending : q < m} = {}
  BY <1>4
<1>6. m \in OldestPending
  BY <1>5, FS_EmptySet, BoundsAssumption DEF OldestPending
<1> QED  BY <1>1, <1>6 DEF OldestPending, Pending

-----------------------------------------------------------------------------
(* Typed is inductive. *)

LEMMA TypedInit == Init => Typed
  BY BoundsAssumption
  DEF Init, Typed, TypeOK, HoldsPacket, Filled, Jobs, Statuses, Points

(* The job tables keep their types, and jobs keep non-empty packets. *)
LEMMA TablesTyped ==
  ASSUME Typed, StoreStep
  PROVE  /\ status' \in [Packet -> Statuses]
         /\ log' \in [Packet -> Seq(Outcomes)]
         /\ reconciled' \subseteq Packet
         /\ cursor' \in 0 .. MaxObservations
         /\ \A p \in Jobs' : Filled(p)
<1>1. /\ status \in [Packet -> Statuses]
      /\ log \in [Packet -> Seq(Outcomes)]
      /\ reconciled \subseteq Packet
      /\ cursor \in 0 .. MaxObservations
      /\ \A p \in Jobs : Filled(p)
  BY DEF Typed, TypeOK
<1>2. CASE KeepsTables
  BY <1>1, <1>2 DEF KeepsTables, Jobs
<1>3. ASSUME NEW p \in Packet, Inserts(p)
      PROVE  /\ status' \in [Packet -> Statuses]
             /\ \A q \in Jobs' : Filled(q)
             /\ UNCHANGED <<log, reconciled, cursor>>
  BY <1>1, <1>3 DEF Inserts, Jobs, Statuses
<1>4. ASSUME NEW p \in Packet, NEW s \in {"pending", "running"}, Activates(p, s)
      PROVE  /\ status' \in [Packet -> Statuses]
             /\ \A q \in Jobs' : Filled(q)
             /\ UNCHANGED <<log, reconciled, cursor>>
  BY <1>1, <1>4 DEF Activates, Jobs, Statuses
<1>5. ASSUME NEW p \in Packet, NEW o \in {"provider_error", "invalid_output"}, Records(p, o)
      PROVE  /\ log' \in [Packet -> Seq(Outcomes)]
             /\ \A q \in Jobs' : Filled(q)
             /\ UNCHANGED <<status, reconciled, cursor>>
  BY <1>1, <1>5 DEF Records, Jobs, Outcomes
<1>6. ASSUME NEW p \in Packet, Commits(p)
      PROVE  /\ status' \in [Packet -> Statuses]
             /\ log' \in [Packet -> Seq(Outcomes)]
             /\ reconciled' \subseteq Packet
             /\ cursor' \in 0 .. MaxObservations
             /\ \A q \in Jobs' : Filled(q)
  <2>1. p \in Active /\ CommitReconciliation(p)
    BY <1>6 DEF Commits
  <2>2. Filled(p)
    BY <1>1, <2>1 DEF Active, Jobs
  <2>3. p.observations \in SUBSET (1 .. MaxObservations) /\ p.observations # {}
    BY <2>2 DEF Filled, Packet, SequenceNumbers
  <2>4. Max(p.observations) \in 1 .. MaxObservations
    BY <2>3, GreatestElement, BoundsAssumption
  <2>5. cursor' \in 0 .. MaxObservations
    BY <2>1, <2>4, BoundsAssumption DEF CommitReconciliation
  <2>6. status' \in [Packet -> Statuses] /\ \A q \in Jobs' : Filled(q)
    BY <1>1, <2>1, <2>2 DEF CommitReconciliation, Jobs, Statuses
  <2>7. log' \in [Packet -> Seq(Outcomes)] /\ reconciled' \subseteq Packet
    BY <1>1, <2>1 DEF CommitReconciliation, Outcomes
  <2> QED  BY <2>5, <2>6, <2>7
<1>7. ASSUME NEW p \in Packet, Rejects(p)
      PROVE  /\ status' \in [Packet -> Statuses]
             /\ \A q \in Jobs' : Filled(q)
             /\ UNCHANGED <<log, reconciled, cursor>>
  BY <1>1, <1>7 DEF Rejects, Jobs, Statuses
<1>8. CASE Wipes
  BY <1>8, BoundsAssumption DEF Wipes, Jobs, Statuses
<1> QED
  BY <1>1, <1>2, <1>3, <1>4, <1>5, <1>6, <1>7, <1>8 DEF StoreStep

(* So do the observations and the counters of the bounds. *)
LEMMA CountersTyped ==
  ASSUME Typed, [Next]_vars
  PROVE  /\ lastSequence' \in 0 .. MaxObservations
         /\ observations' \subseteq 1 .. lastSequence'
         /\ faults' \in 0 .. MaxFaults
         /\ refreshes' \in 0 .. MaxRefreshes
         /\ wipes' \in 0 .. MaxWipes
<1> DEFINE Now == /\ lastSequence \in 0 .. MaxObservations
                  /\ observations \subseteq 1 .. lastSequence
                  /\ faults \in 0 .. MaxFaults
                  /\ refreshes \in 0 .. MaxRefreshes
                  /\ wipes \in 0 .. MaxWipes
<1>1. Now
  BY DEF Typed, TypeOK
<1> USE BoundsAssumption
<1>2. CASE Admit
  BY <1>1, <1>2 DEF Admit, boundVars
<1>3. CASE TickWake
  BY <1>1, <1>3 DEF TickWake, storeVars, boundVars
<1>4. ASSUME NEW w \in Workers, RefreshWake(w)
      PROVE  Now'
  BY <1>1, <1>4 DEF RefreshWake, storeVars
<1>5. ASSUME NEW w \in Workers, Advance(w)
      PROVE  UNCHANGED <<lastSequence, observations, boundVars>>
  BY <1>5 DEF Advance, RecoverJob, FreezePacket, LookupJob, InsertJob, ClaimJob,
    ProviderAnswers, Accept, AlreadyAccepted, RefuseOutput, NumberAttempt,
    RecordAttempt, MarkJobFailed, MarkJobRejected, storeVars
<1>6. ASSUME NEW w \in Workers, ProviderFails(w) \/ AcceptThenSurfaceFails(w)
      PROVE  Now'
  BY <1>1, <1>6 DEF ProviderFails, AcceptThenSurfaceFails, Fault, storeVars
<1>7. CASE Wipe
  BY <1>1, <1>7 DEF Wipe
<1>8. CASE Crash
  BY <1>1, <1>8 DEF Crash, Fault, storeVars
<1>9. CASE UNCHANGED vars
  BY <1>1, <1>9 DEF vars, storeVars, boundVars
<1> QED
  BY <1>1, <1>2, <1>3, <1>4, <1>5, <1>6, <1>7, <1>8, <1>9 DEF Next, boundVars

(* The part of Typed about the wakes. *)
WorkersTyped ==
  /\ pc \in [Workers -> Points]
  /\ packet \in [Workers -> Packet \cup {NoPacket}]
  /\ repair \in [Workers -> BOOLEAN]
  /\ number \in [Workers -> Nat]
  /\ \A w \in Workers : HoldsPacket(w) => Filled(packet[w])

LEMMA ReturnKeepsWorkersTyped ==
  ASSUME WorkersTyped, NEW w \in Workers, Return(w)
  PROVE  WorkersTyped'
BY DEF WorkersTyped, Return, Goto, HoldsPacket, Points

(* A wake that moves on needs a packet wherever it gets past its freeze. *)
LEMMA GotoKeepsWorkersTyped ==
  ASSUME WorkersTyped, NEW w \in Workers, NEW s \in Points, Goto(w, s),
         packet' \in [Workers -> Packet \cup {NoPacket}],
         \A v \in Workers : v # w => packet'[v] = packet[v],
         s \in {"recover", "freeze"} \/ Filled(packet'[w]),
         repair' \in [Workers -> BOOLEAN], number' \in [Workers -> Nat]
  PROVE  WorkersTyped'
BY DEF WorkersTyped, Goto, HoldsPacket, Filled

LEMMA WorkersStayTyped ==
  ASSUME Typed, [Next]_vars
  PROVE  WorkersTyped'
<1>1. WorkersTyped
  BY DEF Typed, TypeOK, WorkersTyped
<1>2. \A w \in Workers : HoldsPacket(w) => Filled(packet[w])
  BY DEF Typed
<1>3. CASE Admit
  BY <1>1, <1>3 DEF Admit, workerVars, WorkersTyped, HoldsPacket
<1>4. CASE TickWake
  BY <1>1, <1>4, GotoKeepsWorkersTyped, WorkersAssumption
  DEF TickWake, WorkersTyped, Points
<1>5. ASSUME NEW w \in Workers, RefreshWake(w)
      PROVE  WorkersTyped'
  BY <1>1, <1>5, GotoKeepsWorkersTyped DEF RefreshWake, WorkersTyped, Points
<1>6. ASSUME NEW w \in Workers, Advance(w)
      PROVE  WorkersTyped'
  <2>1. CASE RecoverJob(w)
    <3>1. ASSUME NEW p \in Active, packet' = [packet EXCEPT ![w] = p], Goto(w, "claim")
          PROVE  WorkersTyped'
      <4>1. Filled(p) /\ p \in Packet
        BY DEF Typed, Active, Jobs
      <4>2. /\ packet' \in [Workers -> Packet \cup {NoPacket}]
            /\ packet'[w] = p
            /\ \A v \in Workers : v # w => packet'[v] = packet[v]
        BY <1>1, <3>1, <4>1 DEF WorkersTyped
      <4>3. repair' \in [Workers -> BOOLEAN] /\ number' \in [Workers -> Nat]
        BY <1>1, <2>1 DEF WorkersTyped, RecoverJob
      <4> QED  BY <1>1, <3>1, <4>1, <4>2, <4>3, GotoKeepsWorkersTyped DEF Points
    <3>2. CASE Goto(w, "freeze") /\ UNCHANGED packet
      BY <1>1, <2>1, <3>2, GotoKeepsWorkersTyped DEF RecoverJob, WorkersTyped, Points
    <3> QED  BY <2>1, <3>1, <3>2 DEF RecoverJob
  <2>2. CASE FreezePacket(w)
    <3>1. CASE Return(w)
      BY <1>1, <3>1, ReturnKeepsWorkersTyped
    <3>2. ASSUME Pending # {}, NEW c \in Contexts,
                 packet' = [packet EXCEPT ![w] =
                              [observations |-> OldestPending, context |-> c]],
                 Goto(w, "lookup"), UNCHANGED <<repair, number>>
          PROVE  WorkersTyped'
      <4> DEFINE p == [observations |-> OldestPending, context |-> c]
      <4>1. Filled(p)
        BY <3>2, FrozenPacketIsFilled DEF Filled, Packet, Typed
      <4> HIDE DEF p
      <4>2. /\ packet' \in [Workers -> Packet \cup {NoPacket}]
            /\ packet'[w] = p
            /\ \A v \in Workers : v # w => packet'[v] = packet[v]
        BY <1>1, <3>2, <4>1 DEF WorkersTyped, Filled, p
      <4>3. repair' \in [Workers -> BOOLEAN] /\ number' \in [Workers -> Nat]
        BY <1>1, <3>2 DEF WorkersTyped
      <4> QED  BY <1>1, <3>2, <4>1, <4>2, <4>3, GotoKeepsWorkersTyped DEF Points
    <3> QED  BY <2>2, <3>1, <3>2 DEF FreezePacket
  <2>3. CASE LookupJob(w)
    BY <1>1, <1>2, <2>3, GotoKeepsWorkersTyped
    DEF LookupJob, HoldsPacket, WorkersTyped, Points
  <2>4. CASE InsertJob(w) \/ ClaimJob(w)
    <3>1. Filled(packet[w])
      BY <1>2, <2>4 DEF InsertJob, ClaimJob, HoldsPacket
    <3>2. CASE Return(w)
      BY <1>1, <3>2, ReturnKeepsWorkersTyped
    <3>3. ASSUME NEW s \in {"claim", "infer"}, Goto(w, s), UNCHANGED <<packet, repair, number>>
          PROVE  WorkersTyped'
      BY <1>1, <3>1, <3>3, GotoKeepsWorkersTyped DEF WorkersTyped, Points
    <3> QED  BY <2>4, <3>2, <3>3 DEF InsertJob, ClaimJob
  <2>5. CASE ProviderAnswers(w) \/ RefuseOutput(w)
    BY <1>1, <1>2, <2>5, GotoKeepsWorkersTyped
    DEF ProviderAnswers, RefuseOutput, HoldsPacket, WorkersTyped, Points
  <2>6. CASE Accept(w) \/ AlreadyAccepted(w) \/ MarkJobFailed(w) \/ MarkJobRejected(w)
    BY <1>1, <2>6, ReturnKeepsWorkersTyped
    DEF Accept, AlreadyAccepted, MarkJobFailed, MarkJobRejected
  <2>7. CASE NumberAttempt(w)
    <3>1. Filled(packet[w])
      BY <1>2, <2>7 DEF NumberAttempt, HoldsPacket
    <3>2. log[packet[w]] \in Seq(Outcomes)
      BY <3>1 DEF Typed, TypeOK, Filled
    <3>3. Len(log[packet[w]]) + 1 \in Nat
      BY <3>2
    <3>4. number' \in [Workers -> Nat]
      BY <1>1, <2>7, <3>3 DEF NumberAttempt, WorkersTyped
    <3>5. PICK s \in {"record_error", "record_invalid"} : Goto(w, s)
      BY <2>7 DEF NumberAttempt
    <3>6. s \in Points
      BY <3>5 DEF Points
    <3>7. UNCHANGED <<packet, repair>>
      BY <2>7 DEF NumberAttempt
    <3> QED  BY <1>1, <3>1, <3>4, <3>5, <3>6, <3>7, GotoKeepsWorkersTyped DEF WorkersTyped
  <2>8. CASE RecordAttempt(w)
    <3>1. Filled(packet[w])
      BY <1>2, <2>8 DEF RecordAttempt, HoldsPacket
    <3>2. CASE Recordable(w)
      <4>1. PICK s \in {"fail", "infer", "reject"} : s = AfterRecord(w)
        BY DEF AfterRecord
      <4>2. /\ Goto(w, s) /\ UNCHANGED packet
            /\ repair' = [repair EXCEPT ![w] = (s = "infer")]
            /\ number' = [number EXCEPT ![w] = 0]
        BY <2>8, <3>2, <4>1 DEF RecordAttempt
      <4>3. repair' \in [Workers -> BOOLEAN] /\ number' \in [Workers -> Nat]
        BY <1>1, <4>2 DEF WorkersTyped
      <4>4. s \in Points
        BY <4>1 DEF Points
      <4> QED  BY <1>1, <3>1, <4>2, <4>3, <4>4, GotoKeepsWorkersTyped DEF WorkersTyped
    <3>3. CASE ~Recordable(w)
      BY <1>1, <2>8, <3>3, ReturnKeepsWorkersTyped DEF RecordAttempt
    <3> QED  BY <3>2, <3>3
  <2> QED
    BY <1>6, <2>1, <2>2, <2>3, <2>4, <2>5, <2>6, <2>7, <2>8 DEF Advance
<1>7. ASSUME NEW w \in Workers, ProviderFails(w) \/ AcceptThenSurfaceFails(w)
      PROVE  WorkersTyped'
  BY <1>1, <1>2, <1>7, GotoKeepsWorkersTyped
  DEF ProviderFails, AcceptThenSurfaceFails, HoldsPacket, WorkersTyped, Points
<1>8. CASE Wipe
  BY <1>1, <1>8 DEF Wipe, workerVars, WorkersTyped, HoldsPacket
<1>9. CASE Crash
  BY <1>9 DEF Crash, WorkersTyped, HoldsPacket, Points
<1>10. CASE UNCHANGED vars
  BY <1>1, <1>10 DEF vars, workerVars, WorkersTyped, HoldsPacket
<1> QED
  BY <1>3, <1>4, <1>5, <1>6, <1>7, <1>8, <1>9, <1>10 DEF Next

LEMMA TypedNext == Typed /\ [Next]_vars => Typed'
<1> SUFFICES ASSUME Typed, [Next]_vars PROVE Typed'
  OBVIOUS
<1>1. StoreStep
  BY StoreSteps
<1>2. TypeOK'
  BY <1>1, TablesTyped, CountersTyped, WorkersStayTyped DEF TypeOK, WorkersTyped
<1>3. \A p \in Jobs' : Filled(p)
  BY <1>1, TablesTyped
<1>4. (\A w \in Workers : HoldsPacket(w) => Filled(packet[w]))'
  BY WorkersStayTyped DEF WorkersTyped
<1> QED  BY <1>2, <1>3, <1>4 DEF Typed

LEMMA TypedAlways == Spec => []Typed
  BY TypedInit, TypedNext, PTL DEF Spec

(* Every variable holds what its table or local can hold, always. *)
THEOREM TypeCorrect == Spec => []TypeOK
<1>1. Typed => TypeOK
  BY DEF Typed
<1> QED  BY <1>1, TypedAlways, PTL

-----------------------------------------------------------------------------
(* The invariants of the tables, from the ways a step changes them. *)

(* However wakes overlap, at most one job is unfinished: the job a wake      *)
(* activates is active already, or no other one is.                         *)
THEOREM AtMostOneActiveJob == Spec => []OneActiveJob
<1>1. Init => OneActiveJob
  BY DEF Init, OneActiveJob, Active
<1>2. Typed /\ OneActiveJob /\ [Next]_vars => OneActiveJob'
  <2> SUFFICES ASSUME Typed, OneActiveJob, [Next]_vars PROVE OneActiveJob'
    OBVIOUS
  <2>0. status \in [Packet -> Statuses]
    BY DEF Typed, TypeOK
  <2>1. CASE KeepsTables
    BY <2>1 DEF KeepsTables, OneActiveJob, Active
  <2>2. ASSUME NEW p \in Packet, Inserts(p)
        PROVE  Active' = {p}
    BY <2>0, <2>2 DEF Inserts, Insertable, Active
  <2>3. ASSUME NEW p \in Packet, NEW s \in {"pending", "running"}, Activates(p, s)
        PROVE  Active' = {p}
    <3>1. Active \subseteq {p}
      BY <2>3 DEF Activates, OneActiveJob
    <3> QED  BY <2>0, <2>3, <3>1 DEF Activates, Active
  <2>4. ASSUME NEW p \in Packet, NEW o \in {"provider_error", "invalid_output"}, Records(p, o)
        PROVE  Active' = Active
    BY <2>4 DEF Records, Active
  <2>5. ASSUME NEW p \in Packet, Commits(p) \/ Rejects(p)
        PROVE  Active' \subseteq Active
    BY <2>0, <2>5 DEF Commits, CommitReconciliation, Rejects, Active
  <2>6. CASE Wipes
    BY <2>6 DEF Wipes, Active, OneActiveJob
  <2> QED
    BY <2>1, <2>2, <2>3, <2>4, <2>5, <2>6, StoreSteps DEF StoreStep, OneActiveJob
<1> QED  BY <1>1, <1>2, TypedAlways, PTL DEF Spec

(* No observation is ever reserved by two jobs: a job is inserted only over  *)
(* observations no job owns, and a job never changes its packet.            *)
THEOREM NoObservationOwnedTwice == Spec => []SingleOwner
<1>1. Init => SingleOwner
  BY DEF Init, SingleOwner, Jobs
<1>2. Typed /\ SingleOwner /\ [Next]_vars => SingleOwner'
  <2> SUFFICES ASSUME Typed, SingleOwner, [Next]_vars PROVE SingleOwner'
    OBVIOUS
  <2>0. status \in [Packet -> Statuses]
    BY DEF Typed, TypeOK
  <2>1. CASE KeepsTables
    BY <2>1 DEF KeepsTables, SingleOwner, Jobs
  <2>2. ASSUME NEW p \in Packet, Inserts(p)
        PROVE  SingleOwner'
    <3>1. Jobs' = Jobs \cup {p}
      BY <2>0, <2>2 DEF Inserts, Jobs
    <3>2. \A q \in Jobs : p.observations \cap q.observations = {}
      BY <2>2 DEF Inserts, Insertable, Pending, Owned
    <3> QED  BY <3>1, <3>2 DEF SingleOwner
  <2>3. ASSUME NEW p \in Packet,
               \/ Activates(p, "pending") \/ Activates(p, "running")
               \/ Records(p, "provider_error") \/ Records(p, "invalid_output")
               \/ Commits(p) \/ Rejects(p)
        PROVE  Jobs' \subseteq Jobs
    BY <2>0, <2>3 DEF Activates, Records, Commits, CommitReconciliation, Rejects, Active, Jobs
  <2>4. CASE Wipes
    BY <2>4 DEF Wipes, Jobs, SingleOwner
  <2> QED
    BY <2>1, <2>2, <2>3, <2>4, StoreSteps DEF StoreStep, SingleOwner
<1> QED  BY <1>1, <1>2, TypedAlways, PTL DEF Spec

(* After "delete everything" no wake still in flight brings anything back:  *)
(* the foreign keys tie every job to live observations and every attempt    *)
(* to its job.                                                              *)
THEOREM NothingSurvivesAWipe == Spec => []WipeLeavesNothing
<1>1. Init => WipeLeavesNothing
  BY DEF Init, WipeLeavesNothing, Owned, Jobs
<1>2. Typed /\ WipeLeavesNothing /\ [Next]_vars => WipeLeavesNothing'
  <2> SUFFICES ASSUME Typed, WipeLeavesNothing, [Next]_vars PROVE WipeLeavesNothing'
    OBVIOUS
  <2>0. status \in [Packet -> Statuses] /\ log \in [Packet -> Seq(Outcomes)]
    BY DEF Typed, TypeOK
  <2>1. CASE KeepsTables
    BY <2>1 DEF KeepsTables, WipeLeavesNothing, Owned, Jobs
  <2>2. ASSUME NEW p \in Packet, Inserts(p)
        PROVE  WipeLeavesNothing'
    <3>1. Jobs' = Jobs \cup {p} /\ log' = log /\ observations' = observations
      BY <2>0, <2>2 DEF Inserts, Jobs
    <3>2. p.observations \subseteq observations
      BY <2>2 DEF Inserts, Insertable, Pending
    <3> QED  BY <3>1, <3>2 DEF WipeLeavesNothing, Owned
  <2>3. ASSUME NEW p \in Packet,
               \/ Activates(p, "pending") \/ Activates(p, "running")
               \/ Records(p, "provider_error") \/ Records(p, "invalid_output")
               \/ Commits(p) \/ Rejects(p)
        PROVE  WipeLeavesNothing'
    <3>1. Jobs' = Jobs /\ p \in Jobs /\ observations' = observations
      BY <2>0, <2>3 DEF Activates, Records, Commits, CommitReconciliation, Rejects, Active, Jobs
    <3>2. \A q \in Packet : q # p => log'[q] = log[q]
      BY <2>0, <2>3 DEF Activates, Records, Commits, CommitReconciliation, Rejects
    <3> QED  BY <3>1, <3>2 DEF WipeLeavesNothing, Owned
  <2>4. CASE Wipes
    BY <2>4 DEF Wipes, Jobs, Owned, WipeLeavesNothing
  <2> QED
    BY <2>1, <2>2, <2>3, <2>4, StoreSteps DEF StoreStep
<1> QED  BY <1>1, <1>2, TypedAlways, PTL DEF Spec

(* An accepted job stays accepted until everything is deleted: no late       *)
(* failure, rejection or claim touches it.                                  *)
THEOREM AcceptanceIsFinal == Spec => AcceptedIsFinal
<1> DEFINE Kept == \A p \in Accepted : status'[p] \in {"accepted", "absent"}
<1>1. Typed /\ [Next]_vars => Kept
  <2> SUFFICES ASSUME Typed, [Next]_vars PROVE Kept
    OBVIOUS
  <2>0. status \in [Packet -> Statuses]
    BY DEF Typed, TypeOK
  <2>1. CASE KeepsTables
    BY <2>1 DEF KeepsTables, Accepted
  <2>2. ASSUME NEW p \in Packet,
               \/ Inserts(p)
               \/ Activates(p, "pending") \/ Activates(p, "running")
               \/ Records(p, "provider_error") \/ Records(p, "invalid_output")
               \/ Commits(p) \/ Rejects(p)
        PROVE  Kept
    <3>1. CASE Commits(p)
      BY <2>0, <3>1 DEF Commits, CommitReconciliation, Accepted
    <3>2. CASE Records(p, "provider_error") \/ Records(p, "invalid_output")
      BY <3>2 DEF Records, Accepted
    <3>3. CASE Inserts(p) \/ Activates(p, "pending") \/ Activates(p, "running") \/ Rejects(p)
      <4>1. p \notin Accepted
        BY <3>3 DEF Inserts, Insertable, Activates, Rejects, Accepted, Jobs
      <4>2. \A q \in Packet : q # p => status'[q] = status[q]
        BY <2>0, <3>3 DEF Inserts, Activates, Rejects
      <4> QED  BY <4>1, <4>2 DEF Accepted
    <3> QED  BY <2>2, <3>1, <3>2, <3>3
  <2>3. CASE Wipes
    BY <2>3 DEF Wipes, Accepted
  <2> QED  BY <2>1, <2>2, <2>3, StoreSteps DEF StoreStep
<1> QED  BY <1>1, TypedAlways, PTL DEF Spec, AcceptedIsFinal

(* What AcceptanceIsWhole counts, said without counting.                     *)
OneAcceptedAttempt ==
  \A p \in Packet :
    IF p \in Accepted THEN \E i \in Nat : AcceptedAttempts(p) = {i}
                      ELSE AcceptedAttempts(p) = {}

CursorAtAnEnd == cursor # 0 => \E p \in Accepted : cursor = Max(p.observations)

(* Appending an outcome adds its place if it is an acceptance, and nothing   *)
(* otherwise.                                                               *)
LEMMA AppendedAttempt ==
  ASSUME Typed, NEW p \in Packet, NEW outcome \in Outcomes,
         log' = [log EXCEPT ![p] = Append(@, outcome)]
  PROVE  /\ AcceptedAttempts(p)' = IF outcome = "accepted"
                                   THEN AcceptedAttempts(p) \cup {Len(log[p]) + 1}
                                   ELSE AcceptedAttempts(p)
         /\ Len(log[p]) + 1 \in Nat
         /\ \A q \in Packet : q # p => AcceptedAttempts(q)' = AcceptedAttempts(q)
<1>1. log[p] \in Seq(Outcomes) /\ log \in [Packet -> Seq(Outcomes)]
  BY DEF Typed, TypeOK
<1>2. log'[p] = Append(log[p], outcome) /\ \A q \in Packet : q # p => log'[q] = log[q]
  BY <1>1
<1> DEFINE n == Len(log[p])
<1>3. n \in Nat /\ DOMAIN log[p] = 1 .. n /\ DOMAIN log'[p] = 1 .. n + 1
  BY <1>1, <1>2
<1>4. log'[p][n + 1] = outcome /\ \A i \in 1 .. n : log'[p][i] = log[p][i]
  BY <1>1, <1>2
<1>5. 1 .. n + 1 = (1 .. n) \cup {n + 1} /\ n + 1 \notin 1 .. n
  BY <1>3
<1> QED
  BY <1>2, <1>3, <1>4, <1>5 DEF AcceptedAttempts

(* An acceptance is whole: one transaction writes the status, the attempt,   *)
(* the reconciliation and the cursor, and nothing else writes any of them    *)
(* over (store.rs, apply_reconciliation_inner).                             *)
THEOREM AcceptancesAreWhole == Spec => []AcceptanceIsWhole
<1> DEFINE Whole == reconciled = Accepted /\ OneAcceptedAttempt /\ CursorAtAnEnd
<1>1. Init => Whole
  BY DEF Init, Accepted, OneAcceptedAttempt, AcceptedAttempts, CursorAtAnEnd
<1>2. Typed /\ Whole /\ [Next]_vars => Whole'
  <2> SUFFICES ASSUME Typed, Whole, [Next]_vars PROVE Whole'
    OBVIOUS
  <2>0. status \in [Packet -> Statuses]
    BY DEF Typed, TypeOK
  <2>1. ASSUME Accepted' = Accepted, UNCHANGED <<log, reconciled, cursor>>
        PROVE  Whole'
    BY <2>1 DEF OneAcceptedAttempt, AcceptedAttempts, CursorAtAnEnd
  <2>2. CASE KeepsTables
    BY <2>1, <2>2 DEF KeepsTables, Accepted
  <2>3. ASSUME NEW p \in Packet,
               Inserts(p) \/ Activates(p, "pending") \/ Activates(p, "running") \/ Rejects(p)
        PROVE  Whole'
    <3>1. p \notin Accepted /\ p \notin Accepted'
      BY <2>0, <2>3 DEF Inserts, Insertable, Activates, Rejects, Accepted, Jobs
    <3>2. \A q \in Packet : q # p => status'[q] = status[q]
      BY <2>0, <2>3 DEF Inserts, Activates, Rejects
    <3>3. Accepted' = Accepted
      BY <3>1, <3>2 DEF Accepted
    <3> QED
      BY <2>1, <2>3, <3>3 DEF Inserts, Activates, Rejects
  <2>4. ASSUME NEW p \in Packet, NEW o \in {"provider_error", "invalid_output"}, Records(p, o)
        PROVE  Whole'
    <3>1. o \in Outcomes /\ o # "accepted"
      BY DEF Outcomes
    <3>2. \A q \in Packet : AcceptedAttempts(q)' = AcceptedAttempts(q)
      BY <2>4, <3>1, AppendedAttempt DEF Records
    <3>3. Accepted' = Accepted /\ UNCHANGED <<reconciled, cursor>>
      BY <2>4 DEF Records, Accepted
    <3> QED
      BY <3>2, <3>3 DEF OneAcceptedAttempt, CursorAtAnEnd
  <2>5. ASSUME NEW p \in Packet, Commits(p)
        PROVE  Whole'
    <3>1. p \notin Accepted /\ Accepted' = Accepted \cup {p}
      BY <2>0, <2>5 DEF Commits, CommitReconciliation, Active, Accepted, Statuses
    <3>2. reconciled' = reconciled \cup {p} /\ cursor' = Max(p.observations)
      BY <2>5 DEF Commits, CommitReconciliation
    <3>3. "accepted" \in Outcomes /\ log' = [log EXCEPT ![p] = Append(@, "accepted")]
      BY <2>5 DEF Commits, CommitReconciliation, Outcomes
    <3>4. AcceptedAttempts(p) = {}
      BY <3>1 DEF OneAcceptedAttempt
    <3>5. /\ AcceptedAttempts(p)' = {Len(log[p]) + 1} /\ Len(log[p]) + 1 \in Nat
          /\ \A q \in Packet : q # p => AcceptedAttempts(q)' = AcceptedAttempts(q)
      BY <3>3, <3>4, AppendedAttempt
    <3>6. OneAcceptedAttempt'
      BY <3>1, <3>5 DEF OneAcceptedAttempt
    <3> QED
      BY <3>1, <3>2, <3>6 DEF CursorAtAnEnd
  <2>6. CASE Wipes
    BY <2>6 DEF Wipes, Accepted, OneAcceptedAttempt, AcceptedAttempts, CursorAtAnEnd
  <2> QED
    BY <2>2, <2>3, <2>4, <2>5, <2>6, StoreSteps DEF StoreStep
<1>3. Whole => AcceptanceIsWhole
  <2> SUFFICES ASSUME Whole PROVE AcceptanceIsWhole
    OBVIOUS
  <2>1. ASSUME NEW p \in Packet
        PROVE  Cardinality(AcceptedAttempts(p)) = IF p \in Accepted THEN 1 ELSE 0
    <3>1. CASE p \in Accepted
      BY <3>1, FS_Singleton DEF OneAcceptedAttempt
    <3>2. CASE p \notin Accepted
      BY <3>2, FS_EmptySet DEF OneAcceptedAttempt
    <3> QED  BY <3>1, <3>2
  <2> QED
    BY <2>1 DEF AcceptanceIsWhole, CursorAtAnEnd
<1> QED  BY <1>1, <1>2, <1>3, TypedAlways, PTL DEF Spec

-----------------------------------------------------------------------------
(* The jobs implement Consideration: Init maps to its initial state, and     *)
(* every step to one of its steps or to none (KeepsPromise).                *)

(* S comes before everything else that is pending. *)
Leads(S) == \A o \in S, q \in Pending \ S : o < q

(* A packet that is frozen and not inserted yet may be stale; if all of it   *)
(* is still pending, it is still the oldest part of what is.                *)
FrozenIsOldest ==
  \A w \in Workers : pc[w] \in {"lookup", "insert"} =>
    /\ packet[w].observations \subseteq 1 .. lastSequence
    /\ packet[w].observations \subseteq Pending => Leads(packet[w].observations)

PromiseInv ==
  Typed /\ OneActiveJob /\ SingleOwner /\ WipeLeavesNothing /\ FrozenIsOldest

-----------------------------------------------------------------------------
(* Only an admission and a deletion change the observations. *)
LEMMA SequenceSteps ==
  ASSUME [Next]_vars
  PROVE  \/ Admit
         \/ UNCHANGED lastSequence /\ (UNCHANGED observations \/ Wipes)
<1>1. CASE TickWake
  BY <1>1 DEF TickWake, storeVars
<1>2. ASSUME NEW w \in Workers,
             RefreshWake(w) \/ Advance(w) \/ ProviderFails(w) \/ AcceptThenSurfaceFails(w)
      PROVE  UNCHANGED <<lastSequence, observations>>
  BY <1>2 DEF RefreshWake, ProviderFails, AcceptThenSurfaceFails,
    Advance, RecoverJob, FreezePacket, LookupJob, InsertJob, ClaimJob,
    ProviderAnswers, Accept, AlreadyAccepted, RefuseOutput, NumberAttempt,
    RecordAttempt, MarkJobFailed, MarkJobRejected, storeVars
<1>3. CASE Wipe
  BY <1>3 DEF Wipe, Wipes
<1>4. CASE Crash
  BY <1>4 DEF Crash, storeVars
<1>5. CASE UNCHANGED vars
  BY <1>5 DEF vars, storeVars
<1> QED
  BY <1>1, <1>2, <1>3, <1>4, <1>5 DEF Next

(* What is pending only shrinks, but for an admission. *)
LEMMA PendingSteps ==
  ASSUME Typed, [Next]_vars
  PROVE  \/ Admit /\ Pending' \subseteq Pending \cup {lastSequence'}
                  /\ lastSequence' = lastSequence + 1
         \/ Pending' \subseteq Pending /\ lastSequence' = lastSequence
<1>1. status \in [Packet -> Statuses]
  BY DEF Typed, TypeOK
<1>2. CASE Admit
  BY <1>2 DEF Admit, Pending, Owned, Jobs
<1>3. CASE Wipes /\ UNCHANGED lastSequence
  BY <1>3 DEF Wipes, Pending
<1>4. CASE UNCHANGED <<observations, lastSequence>> /\ ~Wipes
  <2>1. \A p \in Jobs : p \in Jobs'
    BY <1>1, <1>4, StoreSteps DEF StoreStep, KeepsTables, Inserts, Activates, Records, Commits,
      CommitReconciliation, Rejects, Jobs
  <2> QED
    BY <1>4, <2>1 DEF Pending, Owned
<1> QED
  BY <1>2, <1>3, <1>4, SequenceSteps

LEMMA PendingTyped ==
  ASSUME Typed
  PROVE  Pending \in SUBSET Nat /\ Pending \subseteq 1 .. lastSequence /\ lastSequence \in Nat
<1>1. lastSequence \in 0 .. MaxObservations /\ observations \subseteq 1 .. lastSequence
  BY DEF Typed, TypeOK
<1>2. lastSequence \in Nat
  BY <1>1, BoundsAssumption
<1>3. 1 .. lastSequence \subseteq Nat
  BY <1>2
<1> QED
  BY <1>1, <1>2, <1>3 DEF Pending

(* The oldest pending observations, up to the limit, come before the rest.   *)
LEMMA OldestLeads ==
  ASSUME Typed
  PROVE  Leads(OldestPending) /\ OldestPending \subseteq 1 .. lastSequence
<1>1. Pending \in SUBSET Nat /\ Pending \subseteq 1 .. lastSequence /\ lastSequence \in Nat
  BY PendingTyped
<1>2. ASSUME NEW o \in OldestPending, NEW q \in Pending \ OldestPending, ~(o < q)
      PROVE  FALSE
  <2> DEFINE Before(n) == {x \in Pending : x < n}
  <2>1. o \in Pending /\ o \in Nat /\ q \in Nat
    BY <1>1 DEF OldestPending
  <2>2. q < o
    BY <1>2, <2>1
  <2>3. Before(q) \subseteq Before(o)
    <3>1. ASSUME NEW x \in Pending, x < q PROVE x < o
      <4>1. x \in Nat
        BY <1>1
      <4> QED
        BY <2>1, <2>2, <3>1, <4>1
    <3> QED
      BY <3>1
  <2>4. IsFiniteSet(Before(o))
    <3>1. IsFiniteSet(1 .. lastSequence)
      BY <1>1, FS_Interval
    <3>2. Before(o) \subseteq 1 .. lastSequence
      BY <1>1
    <3> QED
      BY <3>1, <3>2, FS_Subset
  <2>5. Cardinality(Before(q)) =< Cardinality(Before(o))
    BY <2>3, <2>4, FS_Subset
  <2>6. Cardinality(Before(o)) < ObservationLimit /\ ~(Cardinality(Before(q)) < ObservationLimit)
    BY DEF OldestPending
  <2>7. Cardinality(Before(o)) \in Nat /\ Cardinality(Before(q)) \in Nat
    BY <2>3, <2>4, FS_Subset, FS_CardinalityType
  <2> HIDE DEF Before
  <2> QED
    BY <2>5, <2>6, <2>7, BoundsAssumption
<1> QED
  BY <1>1, <1>2 DEF Leads, OldestPending

(* Where a packet at its insertion comes from. *)
LEMMA FrozenSteps ==
  ASSUME Typed, [Next]_vars, NEW w \in Workers, pc'[w] \in {"lookup", "insert"}
  PROVE  \/ pc[w] \in {"lookup", "insert"} /\ packet'[w] = packet[w]
         \/ packet'[w].observations = OldestPending /\ UNCHANGED storeVars
<1>1. /\ pc \in [Workers -> Points] /\ packet \in [Workers -> Packet \cup {NoPacket}]
  BY DEF Typed, TypeOK
<1>2. CASE Admit \/ Wipe \/ UNCHANGED vars
  BY <1>2 DEF Admit, Wipe, vars, workerVars
<1>3. CASE TickWake
  BY <1>1, <1>3 DEF TickWake, Goto
<1>4. ASSUME NEW v \in Workers, RefreshWake(v) \/ ProviderFails(v) \/ AcceptThenSurfaceFails(v)
      PROVE  pc[w] \in {"lookup", "insert"} /\ packet'[w] = packet[w]
  BY <1>1, <1>4 DEF RefreshWake, ProviderFails, AcceptThenSurfaceFails, Goto
<1>5. ASSUME NEW v \in Workers, FreezePacket(v)
      PROVE  \/ pc[w] \in {"lookup", "insert"} /\ packet'[w] = packet[w]
             \/ packet'[w].observations = OldestPending /\ UNCHANGED storeVars
  <2>1. CASE Return(v)
    BY <1>1, <2>1 DEF Return, Goto
  <2>2. ASSUME NEW c \in Contexts, Goto(v, "lookup"),
               packet' = [packet EXCEPT ![v] = [observations |-> OldestPending, context |-> c]]
        PROVE  \/ pc[w] \in {"lookup", "insert"} /\ packet'[w] = packet[w]
               \/ packet'[w].observations = OldestPending
    BY <1>1, <2>2 DEF Goto
  <2> QED
    BY <1>5, <2>1, <2>2 DEF FreezePacket
<1>6. ASSUME NEW v \in Workers, NEW s \in Points \ {"lookup"}, Goto(v, s),
             s = "insert" => pc[v] = "lookup" /\ packet'[v] = packet[v],
             \A u \in Workers \ {v} : packet'[u] = packet[u]
      PROVE  pc[w] \in {"lookup", "insert"} /\ packet'[w] = packet[w]
  BY <1>1, <1>6 DEF Goto
<1>7. ASSUME NEW v \in Workers, Return(v)
      PROVE  pc[w] \in {"lookup", "insert"} /\ packet'[w] = packet[w]
  BY <1>1, <1>7 DEF Return, Goto
<1>8. ASSUME NEW v \in Workers, Advance(v), ~FreezePacket(v)
      PROVE  pc[w] \in {"lookup", "insert"} /\ packet'[w] = packet[w]
  <2>1. CASE Return(v)
    BY <1>7, <2>1
  <2>2. CASE RecoverJob(v)
    <3>1. PICK s \in {"claim", "freeze"} : Goto(v, s)
      BY <2>2 DEF RecoverJob
    <3>2. s \in Points \ {"lookup"} /\ s # "insert"
      BY DEF Points
    <3>3. \A u \in Workers \ {v} : packet'[u] = packet[u]
      BY <1>1, <2>2 DEF RecoverJob
    <3> QED
      BY <1>6, <3>1, <3>2, <3>3
  <2>3. CASE LookupJob(v)
    <3>1. PICK s \in {"claim", "insert"} : Goto(v, s)
      BY <2>3 DEF LookupJob
    <3>2. s \in Points \ {"lookup"}
      BY DEF Points
    <3> QED
      BY <1>6, <2>3, <3>1, <3>2 DEF LookupJob
  <2>4. ASSUME NEW s \in {"claim", "infer", "answered", "number_invalid", "record_error",
                          "record_invalid", "fail", "reject"},
               Goto(v, s), UNCHANGED packet
        PROVE  pc[w] \in {"lookup", "insert"} /\ packet'[w] = packet[w]
    <3>1. s \in Points \ {"lookup"} /\ s # "insert"
      BY DEF Points
    <3> QED
      BY <1>6, <2>4, <3>1
  <2>5. CASE InsertJob(v) \/ ClaimJob(v)
    BY <2>1, <2>4, <2>5 DEF InsertJob, ClaimJob
  <2>6. CASE ProviderAnswers(v) \/ RefuseOutput(v)
    BY <2>4, <2>6 DEF ProviderAnswers, RefuseOutput
  <2>7. CASE NumberAttempt(v)
    <3>1. PICK s \in {"record_error", "record_invalid"} : Goto(v, s)
      BY <2>7 DEF NumberAttempt
    <3> QED
      BY <2>4, <2>7, <3>1 DEF NumberAttempt
  <2>8. CASE RecordAttempt(v)
    <3>1. AfterRecord(v) \in {"fail", "infer", "reject"}
      BY DEF AfterRecord
    <3> QED
      BY <2>1, <2>4, <2>8, <3>1 DEF RecordAttempt
  <2>9. CASE Accept(v) \/ AlreadyAccepted(v) \/ MarkJobFailed(v) \/ MarkJobRejected(v)
    BY <2>1, <2>9 DEF Accept, AlreadyAccepted, MarkJobFailed, MarkJobRejected
  <2> QED
    BY <1>8, <2>2, <2>3, <2>5, <2>6, <2>7, <2>8, <2>9 DEF Advance
<1>9. CASE Crash
  BY <1>9 DEF Crash
<1> QED
  BY <1>2, <1>3, <1>4, <1>5, <1>8, <1>9 DEF Next

LEMMA FrozenInit == Init => FrozenIsOldest
  BY DEF Init, FrozenIsOldest

LEMMA FrozenNext == Typed /\ FrozenIsOldest /\ [Next]_vars => FrozenIsOldest'
<1> SUFFICES ASSUME Typed, FrozenIsOldest, [Next]_vars,
                    NEW w \in Workers, pc'[w] \in {"lookup", "insert"}
             PROVE  /\ packet'[w].observations \subseteq 1 .. lastSequence'
                    /\ packet'[w].observations \subseteq Pending' =>
                         \A o \in packet'[w].observations,
                            q \in Pending' \ packet'[w].observations : o < q
  BY DEF FrozenIsOldest, Leads
<1>1. lastSequence \in Nat /\ Pending \subseteq 1 .. lastSequence
  BY PendingTyped
<1>2. CASE pc[w] \in {"lookup", "insert"} /\ packet'[w] = packet[w]
  <2> DEFINE S == packet[w].observations
  <2>1. S \subseteq 1 .. lastSequence /\ (S \subseteq Pending => \A o \in S, q \in Pending \ S : o < q)
    BY <1>2 DEF FrozenIsOldest, Leads
  <2>2. packet'[w].observations = S
    BY <1>2
  <2> HIDE DEF S
  <2>3. S \subseteq 1 .. lastSequence'
    BY <1>1, <2>1, PendingSteps
  <2>4. ASSUME S \subseteq Pending'
        PROVE  \A o \in S, q \in Pending' \ S : o < q
    BY <1>1, <2>1, <2>4, PendingSteps
  <2> QED
    BY <2>2, <2>3, <2>4
<1>3. CASE packet'[w].observations = OldestPending /\ UNCHANGED storeVars
  <2>1. lastSequence' = lastSequence /\ Pending' = Pending
    BY <1>3 DEF storeVars, Pending, Owned, Jobs
  <2> QED
    BY <1>3, <2>1, OldestLeads DEF Leads
<1> QED
  BY <1>2, <1>3, FrozenSteps

LEMMA FrozenAlways == Spec => []FrozenIsOldest
  BY FrozenInit, FrozenNext, TypedAlways, PTL DEF Spec

-----------------------------------------------------------------------------
(* The stages, and what a step does to them. *)

Stages == [o \in SequenceNumbers |-> StageOf(o)]

(* The observations of S go to stage s, the others stay where they are. *)
Moves(S, s) == \A o \in SequenceNumbers : StageOf(o)' = IF o \in S THEN s ELSE StageOf(o)

StageOfStatus(s) ==
  IF s \in {"pending", "running"} THEN "in_hand"
  ELSE IF s = "accepted" THEN "considered" ELSE "set_aside"

(* An observation stands where the one job that owns it stands. *)
LEMMA OwnStage ==
  ASSUME SingleOwner, WipeLeavesNothing, status \in [Packet -> Statuses],
         NEW p \in Jobs, NEW o \in p.observations
  PROVE  StageOf(o) = StageOfStatus(status[p])
<1>1. o \in observations /\ o \notin Pending
  BY DEF WipeLeavesNothing, Owned, Pending
<1>2. \A q \in Jobs : o \in q.observations => q = p
  BY DEF SingleOwner
<1>3. /\ (\E q \in Active : o \in q.observations) <=> p \in Active
      /\ (\E q \in Accepted : o \in q.observations) <=> p \in Accepted
  BY <1>2 DEF Active, Accepted, Jobs
<1>4. p \in Packet
  BY DEF Jobs
<1> QED
  BY <1>1, <1>3, <1>4 DEF StageOf, StageOfStatus, Active, Accepted

(* A step that sets the status of one job moves its observations. *)
LEMMA StatusMoves ==
  ASSUME status \in [Packet -> Statuses], NEW p \in Packet, NEW s \in Statuses \ {"absent"},
         status' = [status EXCEPT ![p] = s], UNCHANGED <<observations, lastSequence>>,
         SingleOwner', WipeLeavesNothing'
  PROVE  Moves(p.observations, StageOfStatus(s))
<1>1. /\ status'[p] = s /\ \A q \in Packet : q # p => status'[q] = status[q]
      /\ p \in Jobs'
  BY DEF Jobs
<1>2. ASSUME NEW o \in p.observations
      PROVE  StageOf(o)' = StageOfStatus(s)
  <2>1. o \in observations' /\ o \notin Pending'
    BY <1>1 DEF WipeLeavesNothing, Owned, Pending
  <2>2. \A q \in Jobs' : o \in q.observations => q = p
    BY <1>1 DEF SingleOwner
  <2>3. /\ (\E q \in Active' : o \in q.observations) <=> s \in {"pending", "running"}
        /\ (\E q \in Accepted' : o \in q.observations) <=> s = "accepted"
    BY <1>1, <2>2 DEF Active, Accepted, Jobs
  <2> QED
    BY <2>1, <2>3 DEF StageOf, StageOfStatus
<1>3. ASSUME NEW o \in SequenceNumbers, o \notin p.observations
      PROVE  StageOf(o)' = StageOf(o)
  <2>1. /\ o \in observations' <=> o \in observations
        /\ o \in Pending' <=> o \in Pending
    BY <1>1, <1>3 DEF Pending, Owned, Jobs
  <2>2. /\ (\E q \in Active' : o \in q.observations) <=> \E q \in Active : o \in q.observations
        /\ (\E q \in Accepted' : o \in q.observations) <=> \E q \in Accepted : o \in q.observations
    BY <1>1, <1>3 DEF Active, Accepted
  <2> QED
    BY <2>1, <2>2 DEF StageOf
<1> QED
  BY <1>2, <1>3 DEF Moves

LEMMA MovesAre ==
  ASSUME NEW S, NEW s, Moves(S, s)
  PROVE  Promise!Move(S, s)
BY DEF Moves, Promise!Move

(* With no job active the hand is empty; with one it holds its packet. *)
LEMMA HandHolds ==
  ASSUME PromiseInv
  PROVE  /\ Active = {} => Promise!At("in_hand") = {}
         /\ \A p \in Active : Promise!At("in_hand") = p.observations
<1>1. \A o \in SequenceNumbers : StageOf(o) = "in_hand" => \E p \in Active : o \in p.observations
  BY DEF StageOf
<1>2. ASSUME NEW p \in Active, NEW o \in p.observations
      PROVE  o \in SequenceNumbers /\ StageOf(o) = "in_hand"
  <2>1. p \in Jobs /\ status \in [Packet -> Statuses]
    BY DEF Active, Jobs, PromiseInv, Typed, TypeOK
  <2>2. StageOf(o) = StageOfStatus(status[p])
    BY <2>1, OwnStage DEF PromiseInv
  <2>3. o \in SequenceNumbers
    BY <2>1 DEF Jobs, Packet
  <2> QED
    BY <2>2, <2>3 DEF StageOfStatus, Active
<1>3. \A p, q \in Active : p = q
  BY DEF PromiseInv, OneActiveJob
<1> QED
  BY <1>1, <1>2, <1>3 DEF Promise!At

LEMMA PromiseInit == Init => Promise!Init
<1> SUFFICES ASSUME Init PROVE Promise!Init
  OBVIOUS
<1>1. \A o \in SequenceNumbers : o \in Nat /\ o > 0
  BY BoundsAssumption DEF SequenceNumbers
<1>2. \A o \in SequenceNumbers : StageOf(o) = "unseen"
  BY <1>1 DEF Init, StageOf
<1> QED
  BY <1>2 DEF Promise!Init

LEMMA PromiseStep ==
  PromiseInv /\ PromiseInv' /\ [Next]_vars => [Promise!Next]_Stages
<1> SUFFICES ASSUME PromiseInv, PromiseInv', [Next]_vars
             PROVE  Promise!Next \/ UNCHANGED Stages
  BY DEF Stages
<1>0. /\ status \in [Packet -> Statuses] /\ lastSequence \in Nat
      /\ observations \subseteq 1 .. lastSequence
      /\ \A o \in SequenceNumbers : o \in Nat
  BY BoundsAssumption DEF PromiseInv, Typed, TypeOK, SequenceNumbers
<1>1. ASSUME \A o \in SequenceNumbers : StageOf(o)' = StageOf(o)
      PROVE  UNCHANGED Stages
  BY <1>1 DEF Stages
<1>2. ASSUME UNCHANGED <<status, observations, lastSequence>>
      PROVE  UNCHANGED Stages
  BY <1>1, <1>2 DEF StageOf, Pending, Owned, Jobs, Active, Accepted
<1>3. CASE Admit
  <2> PICK new \in Nat : new = lastSequence + 1
    BY <1>0
  <2>1. /\ new \in SequenceNumbers /\ lastSequence' = new
        /\ observations' = observations \cup {new} /\ status' = status
    BY <1>0, <1>3, BoundsAssumption DEF Admit, SequenceNumbers
  <2>2. new \notin observations /\ new \notin Owned
    <3>1. new \notin observations
      BY <1>0
    <3> QED
      BY <3>1 DEF PromiseInv, WipeLeavesNothing
  <2>3. StageOf(new) = "unseen" /\ StageOf(new)' = "waiting"
    <3>1. ~(new =< lastSequence)
      BY <1>0
    <3>2. Owned' = Owned
      BY <2>1 DEF Owned, Jobs
    <3>3. new \in observations' /\ new \in Pending'
      BY <2>1, <2>2, <3>2 DEF Pending
    <3> QED
      BY <2>2, <3>1, <3>3 DEF StageOf
  <2>4. ASSUME NEW o \in SequenceNumbers, o # new
        PROVE  StageOf(o)' = StageOf(o)
    BY <1>0, <2>1, <2>4 DEF StageOf, Pending, Owned, Jobs, Active, Accepted
  <2>5. \A o \in SequenceNumbers : StageOf(o) = "unseen" => new =< o
    BY <1>0 DEF StageOf
  <2>6. Promise!Move({new}, "waiting")
    <3>1. Moves({new}, "waiting")
      BY <2>3, <2>4 DEF Moves
    <3> QED
      BY <3>1, MovesAre
  <2>7. Promise!Admit(new)
    BY <2>1, <2>3, <2>5, <2>6 DEF Promise!Admit, Promise!At
  <2> QED
    BY <2>1, <2>7 DEF Promise!Next
<1>4. CASE Wipes /\ UNCHANGED lastSequence
  <2>1. \A o \in SequenceNumbers :
          StageOf(o)' = IF o =< lastSequence THEN "forgotten" ELSE "unseen"
    BY <1>4 DEF Wipes, StageOf
  <2>2. \A o \in SequenceNumbers : StageOf(o) = "unseen" <=> ~(o =< lastSequence)
    BY <1>0 DEF StageOf
  <2>3. Promise!Move(SequenceNumbers \ Promise!At("unseen"), "forgotten")
    BY <2>1, <2>2, MovesAre DEF Moves, Promise!At
  <2> QED
    BY <2>3 DEF Promise!Next, Promise!ForgetEverything
<1>5. ASSUME NEW p \in Packet, NEW s \in Statuses \ {"absent"},
             status' = [status EXCEPT ![p] = s], UNCHANGED <<observations, lastSequence>>
      PROVE  /\ Promise!Move(p.observations, StageOfStatus(s))
             /\ p \in Jobs /\ StageOfStatus(status[p]) = StageOfStatus(s) => UNCHANGED Stages
  <2>1. Moves(p.observations, StageOfStatus(s))
    BY <1>0, <1>5, StatusMoves DEF PromiseInv
  <2>2. ASSUME p \in Jobs, StageOfStatus(status[p]) = StageOfStatus(s)
        PROVE  UNCHANGED Stages
    <3>1. \A o \in p.observations : StageOf(o) = StageOfStatus(s)
      BY <1>0, <2>2, OwnStage DEF PromiseInv
    <3> QED
      BY <1>1, <2>1, <3>1 DEF Moves
  <2> QED
    BY <2>1, <2>2, MovesAre
<1>6. ASSUME UNCHANGED <<observations, lastSequence>>, NEW p \in Packet, Inserts(p)
      PROVE  Promise!Next
  <2> DEFINE S == p.observations
  <2>1. S \in SUBSET SequenceNumbers /\ S # {}
    BY <1>6 DEF Inserts, Filled, Packet
  <2>2. Promise!Move(S, "in_hand")
    BY <1>5, <1>6 DEF Inserts, Statuses, StageOfStatus
  <2>3. Active = {} /\ S \subseteq Pending
    BY <1>6 DEF Inserts, Insertable
  <2>4. Leads(S)
    BY <1>6, <2>3 DEF Inserts, PromiseInv, FrozenIsOldest
  <2>5. \A o \in SequenceNumbers : StageOf(o) = "waiting" <=> o \in Pending
    BY DEF StageOf, Pending
  <2> HIDE DEF S
  <2>6. Promise!TakeUp(S)
    BY <2>1, <2>2, <2>3, <2>4, <2>5, HandHolds DEF Promise!TakeUp, Promise!At, Leads
  <2> QED
    BY <2>1, <2>6 DEF Promise!Next
<1>7. ASSUME UNCHANGED <<observations, lastSequence>>, NEW p \in Packet,
             NEW s \in {"pending", "running"}, Activates(p, s)
      PROVE  Promise!Next \/ UNCHANGED Stages
  <2>1. /\ p \in Jobs /\ StageOfStatus(s) = "in_hand"
        /\ status' = [status EXCEPT ![p] = s] /\ s \in Statuses \ {"absent"}
    BY <1>7 DEF Activates, StageOfStatus, Statuses
  <2>2. CASE p \in Active
    <3>1. StageOfStatus(status[p]) = StageOfStatus(s)
      BY <2>2 DEF Active, StageOfStatus
    <3> QED
      BY <1>5, <1>7, <2>1, <3>1
  <2>3. CASE p \notin Active
    <3>1. Active = {} /\ status[p] = "rejected"
      BY <1>0, <1>7, <2>3 DEF Activates, Active, Jobs, Statuses
    <3>2. p.observations \in SUBSET SequenceNumbers /\ p.observations # {}
      BY <2>1 DEF PromiseInv, Typed, Filled, Packet
    <3>3. \A o \in p.observations : StageOf(o) = "set_aside"
      BY <1>0, <2>1, <3>1, OwnStage DEF PromiseInv, StageOfStatus
    <3>4. Promise!Move(p.observations, "in_hand")
      BY <1>5, <1>7, <2>1
    <3>5. Promise!Resume(p.observations)
      BY <3>1, <3>2, <3>3, <3>4, HandHolds DEF Promise!Resume, Promise!At
    <3> QED
      BY <3>2, <3>5 DEF Promise!Next
  <2> QED
    BY <2>2, <2>3
<1>8. ASSUME UNCHANGED <<observations, lastSequence>>, NEW p \in Packet, Commits(p) \/ Rejects(p)
      PROVE  Promise!Next \/ UNCHANGED Stages
  <2>1. PICK s \in {"accepted", "rejected"} :
          /\ status' = [status EXCEPT ![p] = s] /\ p \in Jobs
          /\ s = "accepted" => p \in Active
          /\ s = "rejected" => status[p] # "accepted"
    BY <1>8 DEF Commits, CommitReconciliation, Rejects, Active, Jobs
  <2>2. s \in Statuses \ {"absent"}
    BY DEF Statuses
  <2>3. CASE p \in Active
    <3>1. Promise!At("in_hand") = p.observations /\ p.observations # {}
      <4>1. p.observations # {}
        BY <2>1 DEF PromiseInv, Typed, Filled
      <4> QED
        BY <2>3, <4>1, HandHolds
    <3>2. Promise!Move(p.observations, StageOfStatus(s))
      BY <1>5, <1>8, <2>1, <2>2
    <3>3. CASE s = "accepted"
      <4>1. Promise!Move(Promise!At("in_hand"), "considered")
        BY <3>1, <3>2, <3>3 DEF StageOfStatus
      <4> QED
        BY <3>1, <4>1 DEF Promise!Next, Promise!Consider
    <3>4. CASE s = "rejected"
      <4>1. Promise!Move(Promise!At("in_hand"), "set_aside")
        BY <3>1, <3>2, <3>4 DEF StageOfStatus
      <4> QED
        BY <3>1, <4>1 DEF Promise!Next, Promise!SetAside
    <3> QED
      BY <3>3, <3>4
  <2>4. CASE p \notin Active
    <3>1. status[p] = "rejected" /\ s = "rejected"
      BY <1>0, <2>1, <2>4 DEF Active, Jobs, Statuses
    <3> QED
      BY <1>5, <1>8, <2>1, <2>2, <3>1
  <2> QED
    BY <2>3, <2>4
<1>9. CASE UNCHANGED <<observations, lastSequence>> /\ ~Wipes
  <2>1. CASE KeepsTables
    BY <1>2, <1>9, <2>1 DEF KeepsTables
  <2>2. ASSUME NEW p \in Packet, Records(p, "provider_error") \/ Records(p, "invalid_output")
        PROVE  UNCHANGED Stages
    BY <1>2, <1>9, <2>2 DEF Records
  <2> QED
    BY <1>6, <1>7, <1>8, <1>9, <2>1, <2>2, StoreSteps DEF StoreStep, PromiseInv
<1> QED
  BY <1>3, <1>4, <1>9, SequenceSteps

(* The jobs implement Consideration: one batch at a time is taken in hand,   *)
(* the oldest first, and considered or set aside as a whole, whichever       *)
(* wakes overlap, fail or crash, and however stale the packets they hold     *)
(* (engine.rs, run_steward_wake).                                           *)
THEOREM JobsKeepPromise == Spec => KeepsPromise
<1>1. Spec => []PromiseInv
  BY TypedAlways, AtMostOneActiveJob, NoObservationOwnedTwice, NothingSurvivesAWipe,
    FrozenAlways, PTL DEF PromiseInv
<1>2. PromiseInv /\ PromiseInv' /\ [Next]_vars => [Promise!Next]_Stages
  BY PromiseStep
<1>3. Stages = [o \in SequenceNumbers |-> StageOf(o)]
  BY DEF Stages
<1> QED
  BY <1>1, <1>2, PromiseInit, PTL DEF Spec, KeepsPromise, Promise!Spec, Stages
=============================================================================
