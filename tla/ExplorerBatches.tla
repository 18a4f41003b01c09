--------------------------- MODULE ExplorerBatches ---------------------------
(***************************************************************************)
(* The Explorer half of a background tick: maybe_explore and               *)
(* next_source_records of apps/dystil/src-tauri/src/worth_fixing_engine.rs,*)
(* run_explorer_batch_inner and run_frozen_explorer_job of                 *)
(* crates/dystil-insights/src/engine.rs, over the tables capture_cursors,  *)
(* compaction_checkpoints, explorer_jobs and explorer_attempts.            *)
(*                                                                         *)
(* stop() leaves a tick that is running alone, and start() begins another  *)
(* loop, so two ticks may overlap.  A statement, and a transaction, is one  *)
(* step, and the awaits between them are step boundaries; the rows of a     *)
(* page are resolved, one after the other, before the next statement.       *)
(* Every row shows the same window of the same app, and no ten-minute gap  *)
(* separates two of them: one surface of the compaction state.             *)
(***************************************************************************)
EXTENDS Integers, FiniteSets, Sequences, FiniteSetsExt

CONSTANTS
  Ticks,          \* ticks that may overlap
  Frame, Event,   \* capture tables: frames and ui_events
  Texts,          \* what a row can show
  Contexts,       \* timezone and model a packet is frozen with
  NoRow, NoBatch, NoPacket,
  PageLimit,      \* LOOK_AHEAD_PER_SOURCE: 200 in the app
  BatchLimit,     \* MERGED_BATCH_LIMIT: 200 in the app
  Lag,            \* how far a row's timestamp may trail a row already stored
  MaxRows,        \* bound: rows ever captured
  MaxFaults,      \* bound: provider errors, invalid answers, crashes
  MaxWipes,       \* bound: delete-everything operations
  WipeAtRest      \* bound: everything is deleted only while no tick runs

ASSUME LimitsAssumption ==
  /\ Frame # Event
  /\ BatchLimit \in Nat \ {0} /\ PageLimit \in Nat /\ BatchLimit =< PageLimit
  /\ Lag \in Nat /\ WipeAtRest \in BOOLEAN
  /\ MaxRows \in Nat /\ MaxFaults \in Nat /\ MaxWipes \in Nat

VARIABLES
  rows,         \* rows[i]: the capture row with id i: source, time, text; and
                \* history: amid, a frame stored when a tick had read its
                \* page of frames and not yet its page of events
  live,         \* ids of the rows that are not deleted
  cursor,       \* capture_cursors: the last id consumed of each source
  compaction,   \* compaction_checkpoints: the row whose text was kept last
  jobs,         \* explorer_jobs by their unique batch_id
  doomed,       \* a delete-everything still has to delete these rows
  pc,           \* pc[w]: the await tick w is at
  local,        \* local[w]: w's locals
  faults, wipes

captureVars == <<rows, live, doomed>>
storeVars   == <<cursor, compaction, jobs>>
tickVars    == <<pc, local>>
vars        == <<captureVars, storeVars, tickVars, faults, wipes>>

Ids == 1 .. MaxRows
Sources == {Frame, Event}

(* The locals of maybe_explore, as they are before the first await. *)
Fresh == [start  |-> [s \in Sources |-> 0],  \* the cursors the window starts at
          window |-> {},         \* the rows of the pages, then what the cut left
          prior  |-> [s \in Sources |-> 0],  \* the cursors read again
          batch  |-> NoBatch,    \* those, and the ones the window leads to
          packet |-> NoPacket,   \* the packet frozen or to be frozen
          state  |-> NoRow,      \* the compaction state to be committed
          resume |-> FALSE,      \* a pending batch is being resumed
          repair |-> FALSE]      \* attempt = 1

Set(w, field, value) == local' = [local EXCEPT ![w][field] = value]
GoesTo(w, point) == pc' = [pc EXCEPT ![w] = point]
Leave(w) == GoesTo(w, "idle") /\ local' = [local EXCEPT ![w] = Fresh]
Fault == faults < MaxFaults /\ faults' = faults + 1

Init ==
  /\ rows = << >> /\ live = {} /\ doomed = {}
  /\ cursor = [s \in Sources |-> 0] /\ compaction = NoRow
  /\ jobs = << >>
  /\ pc = [w \in Ticks |-> "idle"] /\ local = [w \in Ticks |-> Fresh]
  /\ faults = 0 /\ wipes = 0

-----------------------------------------------------------------------------
(* Capture rows. *)

Times == {rows[i].time : i \in DOMAIN rows}
Newest == Max(Times \cup {0})

(* A tick has read its page of frames, and not yet its page of events. *)
Amid == \E w \in Ticks : pc[w] = "events"

(* A row is stored.  Its timestamp was taken before the gates and batches    *)
(* on the way to the table, so that another row may have overtaken it.  A    *)
(* delete-everything stops capture until it is done.                        *)
Capture(s, text) ==
  /\ Len(rows) < MaxRows /\ doomed = {}
  /\ \E t \in (Newest - Lag .. Newest + 1 + Lag) \ Times :
       t > 0 /\ rows' = Append(rows, [source |-> s, time |-> t, text |-> text,
                                      amid |-> s = Frame /\ Amid])
  /\ live' = live \cup {Len(rows) + 1}
  /\ UNCHANGED <<doomed, storeVars, tickVars, faults, wipes>>

OfSource(S, s) == {i \in S : rows[i].source = s}

(* The first n ids of S. *)
FirstIds(S, n) == {i \in S : Cardinality({j \in S : j < i}) < n}

(* The n rows of S with the earliest timestamps. *)
Earliest(S, n) ==
  {i \in S : Cardinality({j \in S : rows[j].time < rows[i].time}) < n}

(* The rows of one source after its cursor, in id order. *)
Page(s, start) == FirstIds({i \in OfSource(live, s) : i > start[s]}, PageLimit)

(* The rows are not merged before they are cut: the frames go first. *)
FramesFirst(S, n) ==
  LET Ahead(j, i) == \/ j < i /\ rows[j].source = rows[i].source
                     \/ rows[j].source = Frame /\ rows[i].source = Event
  IN {i \in S : Cardinality({j \in S : Ahead(j, i)}) < n}

(* The candidates are merged by timestamp and cut. *)
Merged(S, n) == Earliest(S, n)

(* A row that is deleted before it is resolved is no candidate. *)
Resolved(page) == {page \ gone : gone \in SUBSET (page \ live)}

(* The cursors move past the pages as they are, not past what the cut left. *)
LastOfPages(window, start) ==
  [s \in Sources |-> Max(Page(s, start) \cup {start[s]})]

(* The cursors a window leads to: the largest id kept, per source. *)
LastOf(window, start) ==
  [s \in Sources |-> Max(OfSource(window, s) \cup {start[s]})]

-----------------------------------------------------------------------------
(* compact_activity_incremental on one surface: a row is let through when   *)
(* its text differs from the text before it.                                *)

Before(S, i) == {j \in S : rows[j].time < rows[i].time}

LatestRow(S) == CHOOSE i \in S : \A j \in S : rows[j].time =< rows[i].time

TextBefore(S, state, i) ==
  IF Before(S, i) # {} THEN {rows[LatestRow(Before(S, i))].text}
  ELSE IF state # NoRow THEN {rows[state].text} ELSE {}

Kept(S, state) == {i \in S : rows[i].text \notin TextBefore(S, state, i)}

Folded(S, state) == IF Kept(S, state) = {} THEN state ELSE LatestRow(Kept(S, state))

-----------------------------------------------------------------------------
(* The jobs table. *)

BatchIds == DOMAIN jobs
Unfinished == {b \in BatchIds : jobs[b].status \in {"pending", "running"}}

(* recoverable_explorer_job: any job of the batch that is not rejected. *)
Recoverable(b) == b \in BatchIds /\ jobs[b].status # "rejected"

(* w's job_id stands for its packet, which is what the id hashes. *)
HasJob(w) ==
  local[w].batch \in BatchIds /\ jobs[local[w].batch].packet = local[w].packet

MyJob(w) == jobs[local[w].batch]
StatusIs(w, statuses) == HasJob(w) /\ MyJob(w).status \in statuses
SetStatus(w, status) == jobs' = [jobs EXCEPT ![local[w].batch].status = status]

(* The batch ended well: a new one goes on to its checkpoint, a resumed one *)
(* commits none.                                                            *)
FinishBatch(w) == IF local[w].resume THEN Leave(w) ELSE GoesTo(w, "checkpoint") /\ UNCHANGED local

-----------------------------------------------------------------------------
(* maybe_explore resumes an unfinished batch, if there is one, or looks for  *)
(* a new one.                                                                *)
StartTick(w) ==
  /\ pc[w] = "idle"
  /\ \/ \E b \in Unfinished :
          /\ local' = [local EXCEPT ![w].batch = b, ![w].resume = TRUE]
          /\ GoesTo(w, "lookup")
     \/ /\ Unfinished = {}
        /\ GoesTo(w, "window") /\ UNCHANGED local
  /\ UNCHANGED <<captureVars, storeVars, faults, wipes>>

(* next_source_records: the cursor of each table ... *)
ReadFrameCursor(w) ==
  /\ pc[w] = "window"
  /\ local' = [local EXCEPT ![w].start[Frame] = cursor[Frame]]
  /\ GoesTo(w, "event_cursor")
  /\ UNCHANGED <<captureVars, storeVars, faults, wipes>>

ReadEventCursor(w) ==
  /\ pc[w] = "event_cursor"
  /\ local' = [local EXCEPT ![w].start[Event] = cursor[Event]]
  /\ GoesTo(w, "frames")
  /\ UNCHANGED <<captureVars, storeVars, faults, wipes>>

(* ... a page of frames ... *)
ReadFrames(w) ==
  /\ pc[w] = "frames"
  /\ Set(w, "window", Page(Frame, local[w].start))
  /\ GoesTo(w, "events")
  /\ UNCHANGED <<captureVars, storeVars, faults, wipes>>

(* ... each of them, resolved on its own, and then a page of events ... *)
ReadEvents(w) ==
  /\ pc[w] = "events"
  /\ \E found \in Resolved(local[w].window) :
       Set(w, "window", found \cup Page(Event, local[w].start))
  /\ GoesTo(w, "cut")
  /\ UNCHANGED <<captureVars, storeVars, faults, wipes>>

(* ... which are resolved, too; both are merged and cut.  The cursor of the  *)
(* frames is then read again, for the name of the batch ...                 *)
CutWindow(w) ==
  /\ pc[w] = "cut"
  /\ LET frames == OfSource(local[w].window, Frame)
         events == OfSource(local[w].window, Event)
     IN \E found \in Resolved(events) :
          local' = [local EXCEPT ![w].window = Merged(frames \cup found, BatchLimit),
                                 ![w].prior[Frame] = cursor[Frame]]
  /\ GoesTo(w, "prior")
  /\ UNCHANGED <<captureVars, storeVars, faults, wipes>>

(* ... and that of the events; when the window does not move them there is   *)
(* nothing to do.                                                           *)
ReadPrior(w) ==
  /\ pc[w] = "prior"
  /\ LET last == LastOf(local[w].window, local[w].start)
         prior == [local[w].prior EXCEPT ![Event] = cursor[Event]]
     IN \/ last = prior /\ Leave(w)
        \/ /\ last # prior
           /\ Set(w, "batch", [prior |-> prior, last |-> last])
           /\ GoesTo(w, "compact")
  /\ UNCHANGED <<captureVars, storeVars, faults, wipes>>

(* load_compaction_state, and the compaction of the window.  If nothing is  *)
(* let through the checkpoint is committed at once.                         *)
Compact(w) ==
  /\ pc[w] = "compact"
  /\ LET kept == Kept(local[w].window, compaction) IN
     /\ \E c \in Contexts :
          local' = [local EXCEPT
            ![w] = [Fresh EXCEPT !.batch = local[w].batch,
                                 !.packet = [rows |-> kept, context |-> c],
                                 !.state = Folded(local[w].window, compaction)]]
     /\ GoesTo(w, IF kept = {} THEN "checkpoint" ELSE "lookup")
  /\ UNCHANGED <<captureVars, storeVars, faults, wipes>>

-----------------------------------------------------------------------------
(* run_explorer_batch_inner: an accepted batch is done, an unfinished one is *)
(* taken up with its frozen packet.  A resumed batch that is gone by now has *)
(* no evidence to freeze; a new one is frozen.                              *)
LookUp(w) ==
  /\ pc[w] = "lookup"
  /\ LET b == local[w].batch IN
     \/ Recoverable(b) /\ jobs[b].status = "accepted" /\ FinishBatch(w)
     \/ /\ b \in Unfinished
        /\ GoesTo(w, "claim") /\ Set(w, "packet", jobs[b].packet)
     \/ ~Recoverable(b) /\ local[w].resume /\ Leave(w)
     \/ ~Recoverable(b) /\ ~local[w].resume /\ GoesTo(w, "find") /\ UNCHANGED local
  /\ UNCHANGED <<captureVars, storeVars, faults, wipes>>

(* create_explorer_job finds a job with the same packet by its fingerprint,  *)
(* a rejected one or one that another tick has just inserted.               *)
FindJob(w) ==
  /\ pc[w] = "find"
  /\ GoesTo(w, IF HasJob(w) THEN "claim" ELSE "insert")
  /\ UNCHANGED <<captureVars, storeVars, local, faults, wipes>>

(* No AI runtime is ready: the tick postpones the Explorer. *)
NoRuntime(w) ==
  /\ pc[w] = "lookup"
  /\ Fault /\ Leave(w)
  /\ UNCHANGED <<captureVars, storeVars, wipes>>

(* Otherwise it inserts one, unless the batch_id is taken. *)
InsertJob(w) ==
  /\ pc[w] = "insert"
  /\ LET b == local[w].batch IN
     \/ /\ b \notin BatchIds
        /\ jobs' = [x \in BatchIds \cup {b} |->
             IF x = b THEN [packet |-> local[w].packet, status |-> "pending"] ELSE jobs[x]]
        /\ GoesTo(w, "claim")
     \/ b \in BatchIds /\ GoesTo(w, "error") /\ UNCHANGED jobs
  /\ UNCHANGED <<captureVars, cursor, compaction, local, faults, wipes>>

(* Only a fresh job can be claimed: an interrupted one stays running. *)
ClaimPendingOnly(w) ==
  /\ pc[w] = "claim"
  /\ \/ /\ StatusIs(w, {"pending"})
        /\ SetStatus(w, "running") /\ GoesTo(w, "infer") /\ UNCHANGED local
     \/ /\ ~StatusIs(w, {"pending"})
        /\ FinishBatch(w) /\ UNCHANGED jobs
  /\ UNCHANGED <<captureVars, cursor, compaction, faults, wipes>>

(* claim_explorer_job; a job that cannot be claimed counts as accepted. *)
ClaimJob(w) ==
  /\ pc[w] = "claim"
  /\ \/ /\ StatusIs(w, {"pending", "running"})
        /\ SetStatus(w, "running") /\ GoesTo(w, "infer") /\ UNCHANGED local
     \/ /\ ~StatusIs(w, {"pending", "running"})
        /\ FinishBatch(w) /\ UNCHANGED jobs
  /\ UNCHANGED <<captureVars, cursor, compaction, faults, wipes>>

-----------------------------------------------------------------------------
ProviderAnswers(w) ==
  /\ pc[w] = "infer"
  /\ GoesTo(w, "apply")
  /\ UNCHANGED <<captureVars, storeVars, local, faults, wipes>>

(* The call fails, or its answer does not parse. *)
ProviderFails(w) ==
  /\ pc[w] = "infer"
  /\ Fault /\ \E point \in {"record_error", "record_invalid"} : GoesTo(w, point)
  /\ UNCHANGED <<captureVars, storeVars, local, wipes>>

(* apply_explorer_output_inner reads the status before its transaction. *)
ReadStatus(w) ==
  /\ pc[w] = "apply"
  /\ \/ StatusIs(w, {"accepted"}) /\ FinishBatch(w)
     \/ /\ ~StatusIs(w, {"accepted"})
        /\ GoesTo(w, IF HasJob(w) THEN "commit" ELSE "record_invalid")
        /\ UNCHANGED local
  /\ UNCHANGED <<captureVars, storeVars, faults, wipes>>

(* The transaction accepts the output whatever became of the job meanwhile. *)
CommitOutput(w) ==
  /\ pc[w] = "commit"
  /\ HasJob(w) /\ SetStatus(w, "accepted")
  /\ FinishBatch(w)
  /\ UNCHANGED <<captureVars, cursor, compaction, faults, wipes>>

(* The transaction rolls back: an observation is malformed or cites evidence *)
(* that is not admissible, or the job is gone.                              *)
RefuseOutput(w) ==
  /\ pc[w] = "commit"
  /\ IF HasJob(w) THEN Fault ELSE UNCHANGED faults
  /\ GoesTo(w, "record_invalid")
  /\ UNCHANGED <<captureVars, storeVars, local, wipes>>

(* record_explorer_attempt.  A provider error releases the job; a first      *)
(* invalid output is repaired, a second one rejects the job.                 *)
RecordAttempt(w) ==
  /\ pc[w] \in {"record_error", "record_invalid"}
  /\ HasJob(w)
  /\ IF pc[w] = "record_invalid" /\ ~local[w].repair
     THEN GoesTo(w, "infer") /\ Set(w, "repair", TRUE)
     ELSE /\ GoesTo(w, IF pc[w] = "record_error" THEN "release" ELSE "reject")
          /\ UNCHANGED local
  /\ UNCHANGED <<captureVars, storeVars, faults, wipes>>

(* The attempt cannot be stored: its job is gone, or another tick that runs *)
(* the same job stored one between the read of the number and the INSERT.   *)
RecordFails(w) ==
  /\ pc[w] \in {"record_error", "record_invalid"}
  /\ HasJob(w) => \E v \in Ticks \ {w} : local[v].batch = local[w].batch
  /\ GoesTo(w, "error")
  /\ UNCHANGED <<captureVars, storeVars, local, faults, wipes>>

(* mark_explorer_job, unless the job is accepted (or gone). *)
MarkJob(w) ==
  /\ pc[w] \in {"release", "reject"}
  /\ IF StatusIs(w, {"pending", "running", "rejected"})
     THEN SetStatus(w, IF pc[w] = "release" THEN "pending" ELSE "rejected")
     ELSE UNCHANGED jobs
  /\ GoesTo(w, "error")
  /\ UNCHANGED <<captureVars, cursor, compaction, local, faults, wipes>>

-----------------------------------------------------------------------------
(* Back in maybe_explore after an error: the checkpoint of a new batch is    *)
(* committed only when its job is there to be resumed.                       *)
AfterError(w) ==
  /\ pc[w] = "error"
  /\ IF Recoverable(local[w].batch) THEN FinishBatch(w) ELSE Leave(w)
  /\ UNCHANGED <<captureVars, storeVars, faults, wipes>>

(* commit_compaction_checkpoint: cursors and compaction state in one        *)
(* transaction, which fails if it would move a cursor backwards.            *)
CommitCheckpoint(w) ==
  /\ pc[w] = "checkpoint"
  /\ LET last == local[w].batch.last IN
     \/ /\ \A s \in Sources : last[s] >= cursor[s]
        /\ cursor' = last /\ compaction' = local[w].state
     \/ /\ \E s \in Sources : last[s] < cursor[s]
        /\ UNCHANGED <<cursor, compaction>>
  /\ Leave(w)
  /\ UNCHANGED <<captureVars, jobs, faults, wipes>>

-----------------------------------------------------------------------------
AtRest == WipeAtRest => \A w \in Ticks : pc[w] = "idle"

(* delete_all_insights_data, in one transaction ... *)
WipeInsights ==
  /\ wipes < MaxWipes /\ wipes' = wipes + 1
  /\ doomed = {} /\ live # {} /\ AtRest
  /\ doomed' = live
  /\ cursor' = [s \in Sources |-> 0] /\ compaction' = NoRow /\ jobs' = << >>
  /\ UNCHANGED <<rows, live, tickVars, faults>>

(* ... and then delete_ids over the rows that were matched before it. *)
DeleteRows ==
  /\ doomed # {} /\ AtRest
  /\ live' = live \ doomed /\ doomed' = {}
  /\ UNCHANGED <<rows, storeVars, tickVars, faults, wipes>>

(* The process ends and starts again. *)
Crash ==
  /\ \E w \in Ticks : pc[w] # "idle"
  /\ Fault
  /\ pc' = [w \in Ticks |-> "idle"] /\ local' = [w \in Ticks |-> Fresh]
  /\ UNCHANGED <<captureVars, storeVars, wipes>>

Advance(w) ==
  \/ StartTick(w) \/ ReadFrameCursor(w) \/ ReadEventCursor(w)
  \/ ReadFrames(w) \/ ReadEvents(w) \/ CutWindow(w) \/ ReadPrior(w) \/ Compact(w)
  \/ LookUp(w) \/ FindJob(w) \/ InsertJob(w) \/ ClaimJob(w)
  \/ ProviderAnswers(w) \/ ReadStatus(w) \/ CommitOutput(w) \/ RefuseOutput(w)
  \/ RecordAttempt(w) \/ RecordFails(w) \/ MarkJob(w)
  \/ AfterError(w) \/ CommitCheckpoint(w)

Next ==
  \/ \E s \in Sources, text \in Texts : Capture(s, text)
  \/ \E w \in Ticks : Advance(w) \/ NoRuntime(w) \/ ProviderFails(w)
  \/ WipeInsights
  \/ DeleteRows
  \/ Crash

Spec == Init /\ [][Next]_vars

(* The loop ticks every fifteen minutes, and a tick that has begun goes on. *)
FairSpec == Spec /\ \A w \in Ticks : WF_vars(Advance(w))

-----------------------------------------------------------------------------
Behind(i) == i =< cursor[rows[i].source]

(* Another row of the same source overtook row i, or row i another. *)
Overtaken(i) ==
  \E j \in DOMAIN rows : /\ j > i
                         /\ rows[j].source = rows[i].source
                         /\ rows[j].time < rows[i].time

Overtakes(i) ==
  \E j \in DOMAIN rows : /\ j < i
                         /\ rows[j].source = rows[i].source
                         /\ rows[j].time > rows[i].time

Offered(text) ==
  \E b \in BatchIds : \E j \in jobs[b].packet.rows : rows[j].text = text

(* A row that was overtaken may be passed over unseen, and a tick that was   *)
(* late may still have made its text the one the next row is compared with. *)
Shadowed(text) == \E j \in DOMAIN rows : Overtaken(j) /\ rows[j].text = text

(* Whatever overlaps, crashes or fails, a text that the cursors have passed *)
(* is in a job of some batch: no row is consumed without having been        *)
(* offered, or being a repetition of one that was.                          *)
EveryTextOffered ==
  \A i \in live \ doomed :
    Behind(i) /\ ~Overtaken(i) => Offered(rows[i].text) \/ Shadowed(rows[i].text)

(* The two cursors cut the captured rows at one point in time: no row is    *)
(* consumed before an earlier one that was already stored, unless one of    *)
(* the two has changed places with a row of its own source, or the earlier  *)
(* one is a frame that was stored while a tick was between its two pages.   *)
CursorsCutInTime ==
  \A i, j \in live \ doomed :
    /\ Behind(i) /\ ~Overtaken(i)
    /\ ~Behind(j) /\ ~Overtakes(j) /\ ~rows[j].amid /\ j < i
    => rows[i].time < rows[j].time

(* "Dystil will start again with no memory of your work." *)
WipeStartsEmpty ==
  /\ \A b \in BatchIds : jobs[b].packet.rows \subseteq live
  /\ compaction \in live \cup {NoRow}

(* Every row is consumed in the end, through a crash or a failed call, as    *)
(* long as the model and the timezone stay as they are.                     *)
EveryRowConsumed ==
  \A i \in Ids : []<>(i \in live => Behind(i))
=============================================================================
