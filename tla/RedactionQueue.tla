--------------------------- MODULE RedactionQueue ---------------------------
(***************************************************************************)
(* The optional model pass over captured text: the table                   *)
(* dystil_text_redaction_state, the worker of                              *)
(* crates/dystil-capture/src/redaction_worker.rs that polls it, the        *)
(* detached tasks of capture_store.rs that fill it, the setting of         *)
(* commands.rs that turns the pass on and off, and the capture session     *)
(* that owns the worker.                                                   *)
(*                                                                         *)
(* Each statement against the database is a step.  A session that stops    *)
(* waits five seconds for its worker and then leaves it running: it ends   *)
(* only when its batch is through, beside the worker of the next session.  *)
(* One command changes the setting at a time; pause, resume and the        *)
(* automatic start of a session run beside it.                             *)
(***************************************************************************)
EXTENDS Integers, FiniteSets, Sequences, SequencesExt, Functions

CONSTANTS
  Workers,       \* bound: redaction workers alive at once
  NoWorker,
  BatchSize,     \* BATCH_SIZE: 20 in the app
  MaxAttempts,   \* MAX_ATTEMPTS: 3 in the app
  MaxFrames,     \* bound: frames ever captured
  MaxToggles,    \* bound: changes of the setting
  Faults,        \* kinds of counted fault that may occur
  MaxFaults      \* bound: counted faults; those of a frame's statements are not

FaultKinds == {"state", "settle", "save", "start", "crash"}

ASSUME QueueAssumption ==
  /\ NoWorker \notin Workers
  /\ BatchSize \in Nat \ {0} /\ MaxAttempts \in Nat \ {0}
  /\ MaxFrames \in Nat /\ MaxToggles \in Nat /\ MaxFaults \in Nat
  /\ Faults \subseteq FaultKinds

VARIABLES
  enabled,     \* the setting async_pii_redaction
  cmd,         \* where set_ai_pii_redaction_enabled is
  phase,       \* the capture session behind the capture lock
  current,     \* its redaction worker; NoWorker when it has none
  captured,    \* frames.id is AUTOINCREMENT: the last id given
  frames,      \* id -> who redacted the text of a frame that exists
  queue,       \* the state rows, least recently updated first
  enqueues,    \* frames whose detached record_state is still to run
  pc,          \* pc[w]: the await worker w is at
  local,       \* local[w]: its model, batch and the row in hand
  toggles, faults,
  lossy,       \* a crash or a failed write of a state row has happened
  old,         \* history: frames the last opt-in found with nobody at work on
  contested    \* history: frames that exist and two workers held at once

settingVars == <<enabled, cmd, toggles>>
sessionVars == <<phase, current>>
storeVars   == <<captured, frames, enqueues>>
workerVars  == <<pc, local>>
faultVars   == <<faults, lossy>>
history     == <<old, contested>>
queueVars == <<settingVars, sessionVars, storeVars, queue, workerVars, faultVars,
          history>>

Unsettled == {"pending", "processing"}
Settled   == {"complete", "deterministic_fallback"}

Fresh == [model |-> FALSE, batch |-> << >>, text |-> "deterministic",
          outcome |-> "error"]

QueueInit ==
  /\ enabled \in BOOLEAN /\ cmd = "idle" /\ toggles = 0
  /\ phase = "off" /\ current = NoWorker
  /\ captured = 0 /\ frames = << >> /\ queue = << >> /\ enqueues = {}
  /\ pc = [w \in Workers |-> "gone"] /\ local = [w \in Workers |-> Fresh]
  /\ faults = 0 /\ lossy = FALSE
  /\ old = {} /\ contested = {}

Fault(kind) ==
  /\ kind \in Faults /\ faults < MaxFaults
  /\ faults' = faults + 1
  /\ lossy' = (lossy \/ kind \in {"state", "crash"})

-----------------------------------------------------------------------------
(* The state rows. *)

(* A frame has at most one row: it is the primary key. *)
Others(f) ==
  IF \E i \in DOMAIN queue : queue[i].frame = f
  THEN RemoveAt(queue, CHOOSE i \in DOMAIN queue : queue[i].frame = f)
  ELSE queue

(* record_state: an upsert that also refreshes updated_at. *)
RecordState(f, status, attempts, backend) ==
  queue' = Append(Others(f), [frame |-> f, status |-> status,
                              attempts |-> attempts, backend |-> backend])

(* The pending rows that have waited longest, by their place in the queue. *)
NextRows ==
  {i \in DOMAIN queue :
     /\ queue[i].status = "pending"
     /\ Cardinality({j \in 1 .. i : queue[j].status = "pending"}) =< BatchSize}

InOrder(places) ==
  {order \in [1 .. Cardinality(places) -> places] :
     \A i, j \in DOMAIN order : i < j => order[i] < order[j]}

(* settle_existing_ai_pii_queue: one UPDATE over every unfinished row.  It    *)
(* refreshes updated_at as well, but the order of settled rows is never read. *)
SettledQueue ==
  [i \in DOMAIN queue |->
     IF queue[i].status \in Unsettled
     THEN [queue[i] EXCEPT !.status = "deterministic_fallback",
                           !.backend = "deterministic"]
     ELSE queue[i]]

Held(w) == {r.frame : r \in ToSet(local[w].batch)}
Row(f) == {r \in ToSet(queue) : r.frame = f}

-----------------------------------------------------------------------------
(* The capture session, behind the capture lock. *)

(* CaptureSession::start: the setting is read and the worker spawned; which   *)
(* of the workers that are not alive stands for it makes no difference.      *)
BeginStart(setting) ==
  /\ phase = "off" /\ phase' = "starting"
  /\ IF setting
     THEN LET free == {w \in Workers : pc[w] = "gone"}
              w == CHOOSE w \in free : TRUE
          IN /\ free # {} /\ current' = w
             /\ pc' = [pc EXCEPT ![w] = "idle"]
             /\ local' = [local EXCEPT ![w] = Fresh]
     ELSE current' = NoWorker /\ UNCHANGED workerVars

(* start_capture, by the user or at the start of the app. *)
Start ==
  /\ BeginStart(enabled)
  /\ UNCHANGED <<settingVars, storeVars, queue, faultVars, history>>

(* The session is stored, and capture_active set, when it has started. *)
StartEnds ==
  /\ phase = "starting" /\ phase' = "on"
  /\ UNCHANGED <<settingVars, current, storeVars, queue, workerVars,
                 faultVars, history>>

(* stop_capture: the lanes are drained first. *)
Stop ==
  /\ phase = "on" /\ phase' = "draining"
  /\ UNCHANGED <<settingVars, current, storeVars, queue, workerVars,
                 faultVars, history>>

(* The loading of the model is aborted and the worker told to stop. *)
LanesDrained ==
  /\ phase = "draining" /\ phase' = "joining"
  /\ UNCHANGED <<settingVars, current, storeVars, queue, workerVars,
                 faultVars, history>>

(* The worker ended, or five seconds passed and it is left alone. *)
StopEnds ==
  /\ phase = "joining" /\ phase' = "off" /\ current' = NoWorker
  /\ UNCHANGED <<settingVars, storeVars, queue, workerVars, faultVars, history>>

ToldToStop(w) == w # current \/ phase = "joining"

(* The load task installs the model. *)
LoadModel(w) ==
  /\ pc[w] # "gone" /\ ~ToldToStop(w) /\ ~local[w].model
  /\ local' = [local EXCEPT ![w].model = TRUE]
  /\ UNCHANGED <<settingVars, sessionVars, storeVars, queue, pc, faultVars,
                 history>>

(* A frame is stored; only a session that opted in queues it, in a task of   *)
(* its own.                                                                 *)
Capture ==
  /\ phase \in {"on", "draining"} /\ captured < MaxFrames
  /\ captured' = captured + 1
  /\ frames' = [f \in DOMAIN frames \cup {captured + 1} |->
                  IF f = captured + 1 THEN "deterministic" ELSE frames[f]]
  /\ enqueues' = IF current = NoWorker THEN enqueues
                 ELSE enqueues \cup {captured + 1}
  /\ UNCHANGED <<settingVars, sessionVars, queue, workerVars, faultVars,
                 history>>

Enqueue(f) ==
  /\ f \in enqueues /\ enqueues' = enqueues \ {f}
  /\ RecordState(f, "pending", 0, "none")
  /\ UNCHANGED <<settingVars, sessionVars, captured, frames, workerVars,
                 faultVars, history>>

(* The error of that write is dropped. *)
EnqueueFails(f) ==
  /\ f \in enqueues /\ enqueues' = enqueues \ {f} /\ Fault("state")
  /\ UNCHANGED <<settingVars, sessionVars, captured, frames, queue,
                 workerVars, history>>

(* Retention, or a deletion: the state row and the frame in one transaction. *)
Delete(f) ==
  /\ f \in DOMAIN frames
  /\ frames' = Restrict(frames, (DOMAIN frames) \ {f})
  /\ queue' = Others(f) /\ contested' = contested \ {f}
  /\ UNCHANGED <<settingVars, sessionVars, captured, enqueues, workerVars,
                 faultVars, old>>

-----------------------------------------------------------------------------
(* The worker.  It looks at the stop flag only between batches. *)

Worker(w, point, values) ==
  /\ pc' = [pc EXCEPT ![w] = point]
  /\ local' = [local EXCEPT ![w] = values]

Leave(w) ==
  /\ pc[w] = "idle" /\ ToldToStop(w) /\ Worker(w, "gone", Fresh)
  /\ UNCHANGED <<settingVars, sessionVars, storeVars, queue, faultVars, history>>

Wake(w) ==
  /\ pc[w] = "idle" /\ ~ToldToStop(w) /\ local[w].model
  /\ pc' = [pc EXCEPT ![w] = "poll"]
  /\ UNCHANGED <<settingVars, sessionVars, storeVars, queue, local, faultVars,
                 history>>

NextPoint(batch) == IF batch = << >> THEN "idle" ELSE "row"

(* process_pending_batch: the rows are selected once for the whole batch. *)
Poll(w) ==
  /\ pc[w] = "poll"
  /\ \E order \in InOrder(NextRows) :
       LET batch == [i \in DOMAIN order |->
                       [frame |-> queue[order[i]].frame,
                        attempts |-> queue[order[i]].attempts]]
       IN Worker(w, NextPoint(batch), [local[w] EXCEPT !.batch = batch])
  /\ contested' = contested \cup
       (Held(w)' \cap UNION {Held(v) : v \in Workers \ {w}})
  /\ UNCHANGED <<settingVars, sessionVars, storeVars, queue, faultVars, old>>

InHand(w) == Head(local[w].batch).frame

(* The count the batch was selected with, and one. *)
Attempt(w) == Head(local[w].batch).attempts + 1

(* The row in hand is done with, whatever became of it. *)
Drop(w) ==
  LET rest == Tail(local[w].batch)
  IN Worker(w, NextPoint(rest),
            [local[w] EXCEPT !.batch = rest, !.text = "deterministic",
                             !.outcome = "error"])

TakeRow(w) ==
  /\ pc[w] = "row"
  /\ IF Attempt(w) > MaxAttempts
     THEN /\ RecordState(InHand(w), "deterministic_fallback", Attempt(w),
                         "deterministic")
          /\ Drop(w)
     ELSE /\ RecordState(InHand(w), "processing", Attempt(w), "deterministic")
          /\ Worker(w, "read", local[w])
  /\ UNCHANGED <<settingVars, sessionVars, storeVars, faultVars, history>>

(* redact_frame reads the frame; of one that is gone nothing is left to do. *)
ReadFrame(w) ==
  /\ pc[w] = "read"
  /\ IF InHand(w) \in DOMAIN frames
     THEN Worker(w, "write", [local[w] EXCEPT !.text = frames[InHand(w)]])
     ELSE Worker(w, "mark", [local[w] EXCEPT !.outcome = "deterministic"])
  /\ UNCHANGED <<settingVars, sessionVars, storeVars, queue, faultVars, history>>

(* The UPDATE of the frame: no row is touched if it has gone meanwhile. *)
StoreText(w, text, outcome) ==
  /\ frames' = [f \in DOMAIN frames |->
                  IF f = InHand(w) THEN text ELSE frames[f]]
  /\ Worker(w, "mark", [local[w] EXCEPT !.text = "deterministic",
                                       !.outcome = outcome])

(* The model's name is returned though it gave no answer. *)
WriteFrameNamed(w) ==
  /\ pc[w] = "write"
  /\ \/ StoreText(w, "model", "model")
     \/ StoreText(w, local[w].text, "model")
  /\ UNCHANGED <<settingVars, sessionVars, captured, enqueues, queue, faultVars,
                 history>>

(* The text the model returned is stored; if it fails, or if the text is too *)
(* short for it, the text that was read is.                                 *)
WriteFrame(w) ==
  /\ pc[w] = "write"
  /\ \/ StoreText(w, "model", "model")
     \/ StoreText(w, local[w].text, "deterministic")
  /\ UNCHANGED <<settingVars, sessionVars, captured, enqueues, queue, faultVars,
                 history>>

(* Either statement on the frame fails, as often as it likes. *)
FrameFails(w) ==
  /\ pc[w] \in {"read", "write"}
  /\ Worker(w, "mark", [local[w] EXCEPT !.text = "deterministic",
                                        !.outcome = "error"])
  /\ UNCHANGED <<settingVars, sessionVars, storeVars, queue, faultVars, history>>

(* A row that failed is not put back. *)
StatusAfterStuck(w) ==
  IF local[w].outcome # "error" THEN "complete"
  ELSE IF Attempt(w) >= MaxAttempts THEN "deterministic_fallback"
  ELSE "processing"

StatusAfter(w) ==
  IF local[w].outcome # "error" THEN "complete"
  ELSE IF Attempt(w) >= MaxAttempts THEN "deterministic_fallback"
  ELSE "pending"

MarkRow(w) ==
  /\ pc[w] = "mark"
  /\ RecordState(InHand(w), StatusAfter(w), Attempt(w),
                 IF local[w].outcome = "model" THEN "model" ELSE "deterministic")
  /\ Drop(w)
  /\ UNCHANGED <<settingVars, sessionVars, storeVars, faultVars, history>>

(* The write of a state row fails: the worker goes on to the next row. *)
StateFails(w) ==
  /\ pc[w] \in {"row", "mark"} /\ Fault("state") /\ Drop(w)
  /\ UNCHANGED <<settingVars, sessionVars, storeVars, queue, history>>

-----------------------------------------------------------------------------
(* set_ai_pii_redaction_enabled. *)

(* Rows that a task is still to write, or that a worker still has in hand. *)
UnderWay == enqueues \cup UNION {Held(w) : w \in Workers}

(* Opting in leaves the queue of earlier sessions as it is. *)
OptInUnsettled ==
  /\ cmd = "idle" /\ ~enabled /\ toggles < MaxToggles
  /\ toggles' = toggles + 1 /\ cmd' = "save"
  /\ old' = 1 .. captured \ UnderWay
  /\ UNCHANGED <<enabled, sessionVars, storeVars, queue, workerVars, faultVars,
                 contested>>

(* Opting in settles what earlier sessions left, before the setting is saved. *)
OptIn ==
  /\ cmd = "idle" /\ ~enabled /\ toggles < MaxToggles
  /\ toggles' = toggles + 1 /\ cmd' = "save"
  /\ queue' = SettledQueue /\ old' = 1 .. captured \ UnderWay
  /\ UNCHANGED <<enabled, sessionVars, storeVars, workerVars, faultVars,
                 contested>>

(* A settling that fails is only logged. *)
OptInUnsettledByFault ==
  /\ cmd = "idle" /\ ~enabled /\ toggles < MaxToggles /\ Fault("settle")
  /\ toggles' = toggles + 1 /\ cmd' = "save" /\ old' = {}
  /\ UNCHANGED <<enabled, sessionVars, storeVars, queue, workerVars, contested>>

(* What is left to do once the session has been restarted, or need not be. *)
AfterRestart(setting) == IF setting THEN "idle" ELSE "settle"

(* The setting is saved; a session is restarted only if one has started: one *)
(* that is starting keeps the setting it has read.                          *)
Save ==
  /\ enabled' = ~enabled
  /\ cmd' = IF phase = "on" THEN "stop" ELSE AfterRestart(~enabled)
  /\ UNCHANGED <<sessionVars, storeVars, queue, workerVars, faultVars, history>>

OptInSaves == cmd = "save" /\ Save /\ UNCHANGED toggles

(* The queue has been settled by then, and stays so. *)
SaveFails ==
  /\ cmd = "save" /\ cmd' = "idle" /\ Fault("save")
  /\ UNCHANGED <<enabled, toggles, sessionVars, storeVars, queue, workerVars,
                 history>>

OptOut ==
  /\ cmd = "idle" /\ enabled /\ toggles < MaxToggles
  /\ toggles' = toggles + 1 /\ Save

(* stop_capture waits for the capture lock. *)
CommandStops ==
  /\ cmd = "stop" /\ phase \in {"on", "off"} /\ cmd' = "start"
  /\ phase' = IF phase = "on" THEN "draining" ELSE "off"
  /\ UNCHANGED <<enabled, toggles, current, storeVars, queue, workerVars,
                 faultVars, history>>

CommandStarts ==
  /\ cmd = "start" /\ cmd' = "await" /\ BeginStart(enabled)
  /\ UNCHANGED <<enabled, toggles, storeVars, queue, faultVars, history>>

(* Somebody else has started a session, or start_capture has ended. *)
CommandRestarted ==
  /\ \/ cmd = "start" /\ phase \in {"starting", "on"}
     \/ cmd = "await" /\ phase # "starting"
  /\ cmd' = AfterRestart(enabled)
  /\ UNCHANGED <<enabled, toggles, sessionVars, storeVars, queue, workerVars,
                 faultVars, history>>

(* No server: the setting is restored and a start tried again. *)
CommandRollsBack ==
  /\ cmd = "start" /\ phase = "off" /\ Fault("start")
  /\ enabled' = ~enabled /\ cmd' = "idle"
  /\ \/ BeginStart(~enabled)
     \/ UNCHANGED <<sessionVars, workerVars>>
  /\ UNCHANGED <<toggles, storeVars, queue, history>>

OptOutSettles ==
  /\ cmd = "settle" /\ cmd' = "idle"
  /\ \/ queue' = SettledQueue /\ UNCHANGED faultVars
     \/ Fault("settle") /\ UNCHANGED queue
  /\ UNCHANGED <<enabled, toggles, sessionVars, storeVars, workerVars, history>>

(* The process ends; the database and the setting stay. *)
QueueCrash ==
  /\ Fault("crash")
  /\ cmd' = "idle" /\ phase' = "off" /\ current' = NoWorker /\ enqueues' = {}
  /\ pc' = [w \in Workers |-> "gone"] /\ local' = [w \in Workers |-> Fresh]
  /\ UNCHANGED <<enabled, toggles, captured, frames, queue, history>>

-----------------------------------------------------------------------------

SessionStep == StartEnds \/ LanesDrained \/ StopEnds

WorkerStep(w) ==
  \/ Leave(w) \/ Wake(w) \/ Poll(w) \/ TakeRow(w) \/ ReadFrame(w)
  \/ WriteFrame(w) \/ FrameFails(w) \/ MarkRow(w)


CommandStep ==
  \/ OptInSaves \/ SaveFails \/ CommandStops \/ CommandStarts \/ CommandRestarted
  \/ CommandRollsBack \/ OptOutSettles

QueueNext ==
  \/ Start \/ Stop \/ SessionStep
  \/ OptIn \/ OptInUnsettledByFault \/ OptOut \/ CommandStep
  \/ Capture
  \/ \E f \in 1 .. MaxFrames : Enqueue(f) \/ EnqueueFails(f) \/ Delete(f)
  \/ \E w \in Workers : LoadModel(w) \/ WorkerStep(w) \/ StateFails(w)
  \/ QueueCrash

QueueSpec == QueueInit /\ [][QueueNext]_queueVars

(* Spawned tasks run, the worker's timer fires and its statements return.    *)
(* Nothing is assumed of the user, of the command, or of the loading of the  *)
(* model.                                                                    *)
FairQueueSpec ==
  /\ QueueSpec
  /\ \A f \in 1 .. MaxFrames : WF_queueVars(Enqueue(f))
  /\ \A w \in Workers : WF_queueVars(WorkerStep(w))

-----------------------------------------------------------------------------
(* Properties. *)

StateRows == [frame : 1 .. MaxFrames, status : Unsettled \cup Settled,
              attempts : 0 .. MaxAttempts,
              backend : {"none", "deterministic", "model"}]

PendingRow == [frame : 1 .. MaxFrames, attempts : 0 .. MaxAttempts - 1]

(* Every variable has its type.  The primary key of the table holds one row  *)
(* per frame, and a pending row always has an attempt left, so that the      *)
(* branch of process_row for exhausted rows never runs.                      *)
QueueTypeOK ==
  /\ enabled \in BOOLEAN /\ toggles \in 0 .. MaxToggles
  /\ cmd \in {"idle", "save", "stop", "start", "await", "settle"}
  /\ phase \in {"off", "starting", "on", "draining", "joining"}
  /\ current \in Workers \cup {NoWorker} /\ (phase = "off" => current = NoWorker)
  /\ captured \in 0 .. MaxFrames /\ DOMAIN frames \subseteq 1 .. captured
  /\ \A f \in DOMAIN frames : frames[f] \in {"deterministic", "model"}
  /\ enqueues \subseteq 1 .. captured
  /\ queue \in Seq(StateRows)
  /\ \A i, j \in DOMAIN queue : queue[i].frame = queue[j].frame => i = j
  /\ \A r \in ToSet(queue) : r.status = "pending" => r.attempts < MaxAttempts
  /\ pc \in [Workers -> {"gone", "idle", "poll", "row", "read", "write", "mark"}]
  /\ \A w \in Workers : local[w].batch \in Seq(PendingRow)
  /\ faults \in 0 .. MaxFaults /\ lossy \in BOOLEAN

(* Opting in is no sweep of history: a frame that the opt-in found with      *)
(* nobody at work on it is never taken up by a worker (commands.rs, "AI PII  *)
(* is forward-looking").  Rows of an earlier session are pending at that     *)
(* moment when their enqueue outlived the settling of the opt-out, or when a *)
(* worker that was left running put them back.                               *)
NoHistoricalSweep ==
  [][\A w \in Workers : (Held(w)' \ Held(w)) \cap old' = {}]_queueVars

(* A row that names the model as its backend belongs to a frame whose text   *)
(* the model has redacted.  Two workers that held the frame at once, after a *)
(* stop that did not wait, can break this and are set apart.                 *)
BackendIsHonest ==
  \A r \in ToSet(queue) :
    /\ r.status = "complete" /\ r.backend = "model"
    /\ r.frame \in (DOMAIN frames) \ contested
    => frames[r.frame] = "model"

(* No row is stranded: as long as no crash and no failed write of a state    *)
(* row has come between, a row that reads "processing", which no poll will   *)
(* select again, is in the hands of a worker that is about to mark it,       *)
(* whatever stops, restarts and settlings ran beside it.                     *)
ProcessingIsInHand ==
  ~lossy => \A r \in ToSet(queue) : r.status = "processing" =>
              \E w \in Workers : /\ pc[w] \in {"read", "write", "mark"}
                                 /\ InHand(w) = r.frame

(* A session that opted in, whose worker has its model. *)
Serving == phase = "on" /\ current \in Workers /\ local[current].model

Waiting(f) ==
  \/ f \in enqueues
  \/ \E r \in Row(f) : r.status \in Unsettled

(* DATA_MODEL.md: the table tracks the progress of the pass "so it can       *)
(* resume".  Whatever stopped the worker, a session that serves settles what *)
(* an earlier one left unfinished.                                           *)
ThePassResumes ==
  \A f \in 1 .. MaxFrames : Waiting(f) ~> (~Waiting(f) \/ ~Serving)
=============================================================================
