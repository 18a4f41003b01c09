----------------------------- MODULE StewardJobs -----------------------------
(***************************************************************************)
(* Steward inference jobs: crates/dystil-insights/src/engine.rs,           *)
(* run_steward_wake, over the tables observations, inference_jobs,         *)
(* job_observations, job_attempts, reconciliations and insights_cursor of  *)
(* crates/dystil-insights/src/store.rs.                                    *)
(*                                                                         *)
(* A wake runs in the app's background tick and, with no lock between      *)
(* them, in the explicit refresh command.  Every await between two         *)
(* statements of a wake is a step boundary here; a SQLite transaction is   *)
(* one step.  A job is named by its frozen packet, which is what its       *)
(* input_fingerprint and its stable_id hash.                               *)
(***************************************************************************)
EXTENDS Integers, Sequences, FiniteSets, FiniteSetsExt

CONSTANTS
  Workers,            \* tasks that may be inside run_steward_wake
  Background,         \* the one of them that is the engine's tick loop
  Contexts,           \* memory, day, timezone and model a packet is frozen with
  NoPacket,           \* a worker that has no packet yet
  ObservationLimit,   \* observations per packet: 250 in the app
  MaxObservations,    \* bound: observations ever admitted
  MaxFaults,          \* bound: provider errors, crashes, failed follow-up writes
  MaxRefreshes,       \* bound: explicit refreshes by the user
  MaxWipes            \* bound: delete-everything operations

ASSUME WorkersAssumption == Background \in Workers
ASSUME BoundsAssumption ==
  /\ ObservationLimit \in Nat \ {0}
  /\ MaxObservations \in Nat /\ MaxFaults \in Nat
  /\ MaxRefreshes \in Nat /\ MaxWipes \in Nat

VARIABLES
  observations,   \* sequences of the rows of table observations
  lastSequence,   \* its AUTOINCREMENT high-water mark, which survives DELETE
  status,         \* status[p]: inference_jobs.status of packet p's job
  log,            \* log[p]: the statuses of the job's job_attempts rows
  reconciled,     \* packets with a row in reconciliations
  cursor,         \* insights_cursor.last_observation_sequence
  pc,             \* pc[w]: the await worker w is at
  packet,         \* packet[w]: the packet of w's job_id
  repair,         \* repair[w]: attempt_index = 1
  number,         \* number[w]: the attempt number w has read
  faults, refreshes, wipes   \* how much of each bound is used up

storeVars  == <<observations, lastSequence, status, log, reconciled, cursor>>
workerVars == <<pc, packet, repair, number>>
boundVars  == <<faults, refreshes, wipes>>
vars       == <<storeVars, workerVars, boundVars>>

SequenceNumbers == 1 .. MaxObservations
Packet     == [observations : SUBSET SequenceNumbers, context : Contexts]
Statuses   == {"absent", "pending", "running", "accepted", "rejected"}
Outcomes   == {"provider_error", "invalid_output", "accepted"}
Points     == {"idle", "recover", "freeze", "lookup", "insert", "claim", "infer",
               "answered", "number_error", "record_error", "fail",
               "number_invalid", "record_invalid", "reject"}

ASSUME NoPacketAssumption == NoPacket \notin Packet

-----------------------------------------------------------------------------
(* What the queries read. *)

Jobs == {p \in Packet : status[p] # "absent"}

(* The rows of the partial unique index one_active_insights_job. *)
Active == {p \in Packet : status[p] \in {"pending", "running"}}

(* Observations some job owns through job_observations. *)
Owned == UNION {p.observations : p \in Jobs}

Pending == observations \ Owned

(* pending_observations: unowned rows in sequence order, up to the limit. *)
OldestPending ==
  {o \in Pending : Cardinality({q \in Pending : q < o}) < ObservationLimit}

-----------------------------------------------------------------------------
(* Worker bookkeeping. *)

Goto(w, point) == pc' = [pc EXCEPT ![w] = point]

(* The wake returns, Ok or Err: its locals are gone. *)
Return(w) ==
  /\ Goto(w, "idle")
  /\ packet' = [packet EXCEPT ![w] = NoPacket]
  /\ repair' = [repair EXCEPT ![w] = FALSE]
  /\ number' = [number EXCEPT ![w] = 0]

Fault == faults < MaxFaults /\ faults' = faults + 1

Init ==
  /\ observations = {} /\ lastSequence = 0
  /\ status = [p \in Packet |-> "absent"]
  /\ log = [p \in Packet |-> << >>]
  /\ reconciled = {} /\ cursor = 0
  /\ pc = [w \in Workers |-> "idle"]
  /\ packet = [w \in Workers |-> NoPacket]
  /\ repair = [w \in Workers |-> FALSE]
  /\ number = [w \in Workers |-> 0]
  /\ faults = 0 /\ refreshes = 0 /\ wipes = 0

-----------------------------------------------------------------------------
(* The Explorer admits an observation: a row with the next sequence. *)
Admit ==
  /\ lastSequence < MaxObservations
  /\ lastSequence' = lastSequence + 1
  /\ observations' = observations \cup {lastSequence + 1}
  /\ UNCHANGED <<status, log, reconciled, cursor, workerVars, boundVars>>

(* maybe_steward wakes the Steward.  When it does is WakePolicy's business; *)
(* that it does not when there is nothing pending and nothing to recover is *)
(* its early return.                                                        *)
TickWake ==
  /\ pc[Background] = "idle"
  /\ Pending # {} \/ Active # {}
  /\ Goto(Background, "recover")
  /\ UNCHANGED <<storeVars, packet, repair, number, boundVars>>

(* refresh_worth_fixing wakes it whenever an observation is pending. *)
RefreshWake(w) ==
  /\ w # Background /\ pc[w] = "idle"
  /\ Pending # {}
  /\ refreshes < MaxRefreshes /\ refreshes' = refreshes + 1
  /\ Goto(w, "recover")
  /\ UNCHANGED <<storeVars, packet, repair, number, faults, wipes>>

(* recoverable_job: an unfinished job is resumed with its frozen packet. *)
RecoverJob(w) ==
  /\ pc[w] = "recover"
  /\ \/ \E p \in Active : /\ packet' = [packet EXCEPT ![w] = p]
                          /\ Goto(w, "claim")
     \/ Active = {} /\ Goto(w, "freeze") /\ UNCHANGED packet
  /\ UNCHANGED <<storeVars, repair, number, boundVars>>

(* No job to recover: freeze the oldest pending observations, or return    *)
(* NoWork.                                                                 *)
FreezePacket(w) ==
  /\ pc[w] = "freeze"
  /\ \/ Pending = {} /\ Return(w)
     \/ /\ Pending # {}
        /\ \E c \in Contexts :
             packet' = [packet EXCEPT ![w] =
                          [observations |-> OldestPending, context |-> c]]
        /\ Goto(w, "lookup")
        /\ UNCHANGED <<repair, number>>
  /\ UNCHANGED <<storeVars, boundVars>>

(* create_job first looks for a job with the same input_fingerprint. *)
LookupJob(w) ==
  /\ pc[w] = "lookup"
  /\ Goto(w, IF packet[w] \in Jobs THEN "claim" ELSE "insert")
  /\ UNCHANGED <<storeVars, packet, repair, number, boundVars>>

(* No look at who owns the observations, or whether they still exist. *)
InsertableByFingerprint(p) == p \notin Jobs /\ Active = {}

(* Every constraint the inserting transaction must meet: the job's primary *)
(* key and unique fingerprint, the one-active-job index, the foreign keys   *)
(* and the unique owner of job_observations.                                *)
Insertable(p) ==
  /\ p \notin Jobs
  /\ Active = {}
  /\ p.observations \subseteq Pending

(* create_job then inserts the job and its observations in a transaction.  *)
(* A constraint that fails rolls it back and ends the wake with an error.   *)
InsertJob(w) ==
  /\ pc[w] = "insert"
  /\ \/ /\ Insertable(packet[w])
        /\ status' = [status EXCEPT ![packet[w]] = "pending"]
        /\ Goto(w, "claim")
        /\ UNCHANGED <<packet, repair, number>>
     \/ /\ ~Insertable(packet[w])
        /\ Return(w)
        /\ UNCHANGED status
  /\ UNCHANGED <<observations, lastSequence, log, reconciled, cursor, boundVars>>

(* Only a fresh job can be claimed: an interrupted one stays running. *)
ClaimPendingOnly(w) ==
  /\ pc[w] = "claim"
  /\ \/ /\ status[packet[w]] = "pending"
        /\ status' = [status EXCEPT ![packet[w]] = "running"]
        /\ Goto(w, "infer")
        /\ UNCHANGED <<packet, repair, number>>
     \/ /\ status[packet[w]] # "pending"
        /\ Return(w)
        /\ UNCHANGED status
  /\ UNCHANGED <<observations, lastSequence, log, reconciled, cursor, boundVars>>

(* claim_job: a pending or running job becomes running, whoever else runs   *)
(* it.  Otherwise the wake returns AlreadyAccepted or an error.             *)
ClaimJob(w) ==
  /\ pc[w] = "claim"
  /\ \/ /\ packet[w] \in Active
        /\ status' = [status EXCEPT ![packet[w]] = "running"]
        /\ Goto(w, "infer")
        /\ UNCHANGED <<packet, repair, number>>
     \/ /\ packet[w] \notin Active
        /\ Return(w)
        /\ UNCHANGED status
  /\ UNCHANGED <<observations, lastSequence, log, reconciled, cursor, boundVars>>

-----------------------------------------------------------------------------
(* The provider call, bounded by STEWARD_TIMEOUT, ends in an output or in   *)
(* an error.                                                                *)
ProviderAnswers(w) ==
  /\ pc[w] = "infer"
  /\ Goto(w, "answered")
  /\ UNCHANGED <<storeVars, packet, repair, number, boundVars>>

ProviderFails(w) ==
  /\ pc[w] = "infer"
  /\ Fault
  /\ Goto(w, "number_error")
  /\ UNCHANGED <<storeVars, packet, repair, number, refreshes, wipes>>

(* The transaction of apply_reconciliation_inner. *)
CommitReconciliation(p) ==
  /\ status' = [status EXCEPT ![p] = "accepted"]
  /\ reconciled' = reconciled \cup {p}
  /\ cursor' = Max(p.observations)
  /\ log' = [log EXCEPT ![p] = Append(@, "accepted")]

(* The check of the status inside that transaction is missing. *)
AcceptUnguarded(w) ==
  /\ pc[w] = "answered" /\ packet[w] \in Jobs
  /\ CommitReconciliation(packet[w])
  /\ Return(w)
  /\ UNCHANGED <<observations, lastSequence, boundVars>>

(* The attempt receipt is written in a transaction before the acceptance,   *)
(* whose own commit fails.                                                  *)
AcceptInTwoParts(w) ==
  /\ pc[w] = "answered" /\ packet[w] \in Active
  /\ \/ CommitReconciliation(packet[w])
     \/ /\ log' = [log EXCEPT ![packet[w]] = Append(@, "accepted")]
        /\ UNCHANGED <<status, reconciled, cursor>>
  /\ Return(w)
  /\ UNCHANGED <<observations, lastSequence, boundVars>>

(* A valid output of an active job is accepted. *)
Accept(w) ==
  /\ pc[w] = "answered" /\ packet[w] \in Active
  /\ CommitReconciliation(packet[w])
  /\ Return(w)
  /\ UNCHANGED <<observations, lastSequence, boundVars>>

(* It is accepted, and then recompute_surface_status, which runs after the  *)
(* commit, fails: the engine takes the output for an invalid one.           *)
AcceptThenSurfaceFails(w) ==
  /\ pc[w] = "answered" /\ packet[w] \in Active
  /\ Fault
  /\ CommitReconciliation(packet[w])
  /\ Goto(w, "number_invalid")
  /\ UNCHANGED <<observations, lastSequence, packet, repair, number, refreshes, wipes>>

(* accepted_job: someone else's output was accepted; nothing is validated.  *)
AlreadyAccepted(w) ==
  /\ pc[w] = "answered" /\ status[packet[w]] = "accepted"
  /\ Return(w)
  /\ UNCHANGED <<storeVars, boundVars>>

(* The output does not parse, fails a check, or its job is rejected or gone. *)
RefuseOutput(w) ==
  /\ pc[w] = "answered"
  /\ Goto(w, "number_invalid")
  /\ UNCHANGED <<storeVars, packet, repair, number, boundVars>>

-----------------------------------------------------------------------------
(* record_job_attempt reads the next attempt number in one statement ... *)
NumberAttempt(w) ==
  /\ pc[w] \in {"number_error", "number_invalid"}
  /\ number' = [number EXCEPT ![w] = Len(log[packet[w]]) + 1]
  /\ Goto(w, IF pc[w] = "number_error" THEN "record_error" ELSE "record_invalid")
  /\ UNCHANGED <<storeVars, packet, repair, boundVars>>

(* ... and inserts the attempt in another, against the foreign key on the   *)
(* job and the primary key (job_id, attempt).                               *)
Recordable(w) ==
  packet[w] \in Jobs /\ number[w] = Len(log[packet[w]]) + 1

(* Where a recorded attempt leads: a provider error releases the job, the    *)
(* first invalid output is repaired, the second one rejects the job.        *)
AfterRecord(w) ==
  CASE pc[w] = "record_error" -> "fail"
    [] pc[w] = "record_invalid" /\ ~repair[w] -> "infer"
    [] OTHER -> "reject"

RecordAttempt(w) ==
  /\ pc[w] \in {"record_error", "record_invalid"}
  /\ \/ /\ Recordable(w)
        /\ log' = [log EXCEPT ![packet[w]] = Append(@,
              IF pc[w] = "record_error" THEN "provider_error" ELSE "invalid_output")]
        /\ Goto(w, AfterRecord(w))
        /\ repair' = [repair EXCEPT ![w] = (AfterRecord(w) = "infer")]
        /\ number' = [number EXCEPT ![w] = 0]
        /\ UNCHANGED packet
     \/ ~Recordable(w) /\ Return(w) /\ UNCHANGED log
  /\ UNCHANGED <<observations, lastSequence, status, reconciled, cursor, boundVars>>

(* No index keeps a second job from becoming active. *)
MarkJobFailedUnindexed(w) ==
  /\ pc[w] = "fail"
  /\ status' = IF status[packet[w]] \notin {"absent", "accepted"}
               THEN [status EXCEPT ![packet[w]] = "pending"]
               ELSE status
  /\ Return(w)
  /\ UNCHANGED <<observations, lastSequence, log, reconciled, cursor, boundVars>>

(* mark_job_failed returns the job to pending unless it is accepted (or     *)
(* gone), or the one-active-job index refuses to bring back a rejected one.  *)
MarkJobFailed(w) ==
  /\ pc[w] = "fail"
  /\ status' = IF /\ status[packet[w]] \notin {"absent", "accepted"}
                  /\ Active \subseteq {packet[w]}
               THEN [status EXCEPT ![packet[w]] = "pending"]
               ELSE status
  /\ Return(w)
  /\ UNCHANGED <<observations, lastSequence, log, reconciled, cursor, boundVars>>

(* The job is rejected whatever became of it meanwhile. *)
MarkJobRejectedAnyway(w) ==
  /\ pc[w] = "reject"
  /\ status' = IF packet[w] \in Jobs
               THEN [status EXCEPT ![packet[w]] = "rejected"]
               ELSE status
  /\ Return(w)
  /\ UNCHANGED <<observations, lastSequence, log, reconciled, cursor, boundVars>>

(* mark_job_rejected, unless the job is accepted (or gone). *)
MarkJobRejected(w) ==
  /\ pc[w] = "reject"
  /\ status' = IF status[packet[w]] \in {"absent", "accepted"}
               THEN status
               ELSE [status EXCEPT ![packet[w]] = "rejected"]
  /\ Return(w)
  /\ UNCHANGED <<observations, lastSequence, log, reconciled, cursor, boundVars>>

-----------------------------------------------------------------------------
(* delete_all_insights_data, one transaction.  Wakes in flight go on.       *)
Wipe ==
  /\ wipes < MaxWipes /\ wipes' = wipes + 1
  /\ observations' = {}
  /\ status' = [p \in Packet |-> "absent"]
  /\ log' = [p \in Packet |-> << >>]
  /\ reconciled' = {} /\ cursor' = 0
  /\ UNCHANGED <<lastSequence, workerVars, faults, refreshes>>

(* The process ends and starts again: the tables stay, the tasks are gone.  *)
Crash ==
  /\ \E w \in Workers : pc[w] # "idle"
  /\ Fault
  /\ pc' = [w \in Workers |-> "idle"]
  /\ packet' = [w \in Workers |-> NoPacket]
  /\ repair' = [w \in Workers |-> FALSE]
  /\ number' = [w \in Workers |-> 0]
  /\ UNCHANGED <<storeVars, refreshes, wipes>>

-----------------------------------------------------------------------------
(* A step of the wake worker w is in, with the provider willing. *)
Advance(w) ==
  \/ RecoverJob(w) \/ FreezePacket(w) \/ LookupJob(w) \/ InsertJob(w) \/ ClaimJob(w)
  \/ ProviderAnswers(w)
  \/ Accept(w) \/ AlreadyAccepted(w) \/ RefuseOutput(w)
  \/ NumberAttempt(w) \/ RecordAttempt(w) \/ MarkJobFailed(w) \/ MarkJobRejected(w)

Next ==
  \/ Admit
  \/ TickWake
  \/ \E w \in Workers : \/ RefreshWake(w)
                       \/ Advance(w)
                       \/ ProviderFails(w)
                       \/ AcceptThenSurfaceFails(w)
  \/ Wipe
  \/ Crash

Spec == Init /\ [][Next]_vars

(* The tick loop keeps waking the Steward, and a wake that has begun goes   *)
(* on: every await of it is on SQLite or on a call with a timeout.          *)
FairSpec ==
  /\ Spec
  /\ WF_vars(TickWake)
  /\ \A w \in Workers : WF_vars(Advance(w))

-----------------------------------------------------------------------------
(* The variables hold what the tables' and the locals' types allow. *)
TypeOK ==
  /\ lastSequence \in 0 .. MaxObservations
  /\ observations \subseteq 1 .. lastSequence
  /\ status \in [Packet -> Statuses]
  /\ log \in [Packet -> Seq(Outcomes)]
  /\ reconciled \subseteq Packet
  /\ cursor \in 0 .. MaxObservations
  /\ pc \in [Workers -> Points]
  /\ packet \in [Workers -> Packet \cup {NoPacket}]
  /\ repair \in [Workers -> BOOLEAN]
  /\ number \in [Workers -> Nat]
  /\ faults \in 0 .. MaxFaults
  /\ refreshes \in 0 .. MaxRefreshes
  /\ wipes \in 0 .. MaxWipes

(* However wakes overlap, fail and resume, at most one job is unfinished:   *)
(* what recoverable_job's LIMIT 1 relies on.                                *)
OneActiveJob == \A p, q \in Active : p = q

(* No observation is ever reserved by two jobs, finished or not, so none is *)
(* considered twice.                                                        *)
SingleOwner ==
  \A p, q \in Jobs : p # q => p.observations \cap q.observations = {}

Accepted == {p \in Packet : status[p] = "accepted"}

AcceptedAttempts(p) == {i \in DOMAIN log[p] : log[p][i] = "accepted"}

(* An acceptance is all of its parts or none: the status, exactly one       *)
(* accepted attempt, the reconciliation row, and a cursor that stands at    *)
(* the end of an accepted packet.                                           *)
AcceptanceIsWhole ==
  /\ reconciled = Accepted
  /\ \A p \in Packet :
       Cardinality(AcceptedAttempts(p)) = IF p \in Accepted THEN 1 ELSE 0
  /\ cursor # 0 => \E p \in Accepted : cursor = Max(p.observations)

(* Nothing of a wiped store comes back through a wake in flight: every job  *)
(* owns observations that still exist, and every attempt has its job.       *)
WipeLeavesNothing ==
  /\ Owned \subseteq observations
  /\ \A p \in Packet : log[p] # << >> => p \in Jobs

(* Once accepted, a job stays accepted until everything is deleted. *)
AcceptedIsFinal ==
  [][\A p \in Accepted : status'[p] \in {"accepted", "absent"}]_vars

(* Where observation o stands, for the abstract specification. *)
StageOf(o) ==
  IF o \in observations
  THEN IF o \in Pending THEN "waiting"
       ELSE IF \E p \in Active : o \in p.observations THEN "in_hand"
       ELSE IF \E p \in Accepted : o \in p.observations THEN "considered"
       ELSE "set_aside"
  ELSE IF o =< lastSequence THEN "forgotten" ELSE "unseen"

Promise == INSTANCE Consideration WITH
  Observations <- SequenceNumbers,
  stage <- [o \in SequenceNumbers |-> StageOf(o)]

(* The jobs implement Consideration: one batch at a time, oldest first,     *)
(* considered once and for good.                                            *)
KeepsPromise == Promise!Spec

(* Every admitted observation is settled in the end, through crashes,       *)
(* provider errors and lost writes as long as these are finitely many: a    *)
(* job with it is accepted or rejected, or it is deleted.                   *)
EveryObservationSettles ==
  \A o \in SequenceNumbers :
    []<>(o \in observations => StageOf(o) \in {"considered", "set_aside"})

=============================================================================
