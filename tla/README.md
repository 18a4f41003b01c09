# Dystil in TLA+

Dystil records what its user does on a computer (accessibility text, UI events,
screenshots), keeps it in a local SQLite database and has a language model look
for work worth fixing. What it finds is shown as *cards* under **Worth Fixing**;
a card the user keeps becomes an artifact under **Ready to use**. Everything a
card rests on can be excluded, deleted or expire, at any moment, while several
tasks of the app are working on it.

This directory models the protocols of Dystil: the `dystil-insights` crate and the
background engine that drives it, the conversations, watches, changes and skill builds
that hang on it, the way of an input event to its frame, the queue of the optional AI
redaction, the deletion and retention code that works on the same rows, the two halves of
the upload to the cloud, and four protocols of the desktop app: who may record and when,
the runs of automations, the mailbox of the agent, and the consent to telemetry. It is
written from the source; file and line of each definition are in `PROJECT.json` under `map`.

## 1. The system

    capture lanes --> CaptureStore --> frames, ui_events      (capture database)
                                          |        ^
                       redaction worker --+        |  retention, deletion
                                          v        |
      tick (every 15 min):  reconcile policy -> Explorer -> Steward -> watches
                                          |
                                          v
      evidence, explorer_jobs, observations, inference_jobs,  (insights database)
      opportunities, versions, findings, dispositions
                                          ^
      commands: refresh, dispose of a card, keep a card, delete

There is no lock that these tasks share. Each statement or transaction of SQLite
is atomic; between two of them every other task can run. `worth_fixing_engine`
guards only against two *loops*: `stop()` drops a channel, the tick in progress
goes on, and `start()` may begin a second loop beside it. The explicit refresh
runs the same Steward as the tick. A full deletion stops capture, not the engine.

| component | state it keeps | operations | what makes it correct |
|---|---|---|---|
| Steward (`engine.rs`, `store.rs`) | `observations`, `inference_jobs`, `job_observations`, `job_attempts`, `reconciliations`, `insights_cursor` | recover or freeze a packet, create, claim, call, repair, accept, fail, reject | one active job; an observation in one job; acceptance whole, final; every observation settled |
| Explorer (`worth_fixing_engine.rs`, `engine.rs`, `compaction.rs`) | `capture_cursors`, `compaction_checkpoints`, `explorer_jobs`, `explorer_attempts` | read a window, compact, create or resume a batch, call, apply, mark, checkpoint | no text passed over unseen; cursors cut in time order; every row consumed |
| Evidence and cards (`store.rs`, `source_admission.rs`, `artifact.rs`) | `evidence`, `opportunities`, `opportunity_versions`, `findings`, `finding_evidence`, `dispositions` | upsert, mark deleted, reconcile, dispose, keep, forget | a card rests on admissible evidence; none comes back; deletions and exclusions reach the cards |
| Deletion (`deletion.rs`) | the rows to delete | forget, wipe, delete rows, media, chats | what is deleted leaves nothing behind |
| Retention (`retention.rs`) | none | delete the oldest rows and files | derived data follows |
| Redaction queue (`redaction_worker.rs`, `commands.rs`, `capture_session.rs`) | `dystil_text_redaction_state`, the setting, the session and its worker | enqueue, poll, redact, retry, opt in and out, start, stop | no row stranded; retries run out; no sweep of history; a row names what redacted its text |
| Kernel (`kernel.rs`, `scheduler.rs`) | none | rank, eligibility, wake decision | agrees with its definition |
| Ask for a fix (`ask_for_fix.rs`, `ask_for_fix_commands.rs`) | `ask_sessions`, `ask_messages`, `ask_jobs`, `ask_retrieval_reports`, the map of runs in flight | stage a turn, think, explore, apply, confirm, retry, stop, recover | a session's columns agree; a memo serves its own turn; the user can always go on |
| Watches (`ask_for_fix.rs`) | `ask_watches`, `ask_watch_evidence`, `ask_watch_evaluations` | create, guide, review, stop, collect | nothing passed over unseen; an ended watch stays ended; a live one catches up |
| Artifacts (`artifact.rs`, `artifact_engine.rs`) | `artifacts`, `artifact_versions`, `artifact_change_jobs` | propose, run, retry, confirm, reject, remove | each version replaces the one its change was cut from |
| Skill bundles (`skill_bundle.rs`) | `artifact_bundle_jobs`, `artifact_bundles`, reconstructions, directories | build, review, rename, record, interrupt, remove | rows and directories agree; a running job has somebody who runs it |
| Capture session (`dystil-capture`) | bus, debounced trigger, remembered frames, half pairs | record, coalesce, capture or reuse, link, stop in stages | an event gets the frame of what was on the screen |
| Sync (`dystil-sync`) | cursors, pending segments, image cache | gather, close, upload, acknowledge, clean up | nothing is skipped; what is removed here is there |
| Recording switch (`recording.rs`, `capture_policy.rs`) | the settings file, the capture lock, the server, the flags, one pause timer | pause, resume, restart for a setting, download, delete everything, policy, boot | a pause holds while it lasts, and ends |
| Automations (`automation_commands.rs`, `dystil-automation`) | event cursor, runs, permits, the manager's loop | poll, spawn, retry, run on schedule, cancel, restart | the cursor follows runs that succeeded; the newest event is delivered |
| Agent mailbox (`agent_worker.rs`, `agent_mailbox.rs`) | the cursor, local requests and their status | fetch, take up, answer, record, interrupt | a disconnect delays a request and loses none |
| Telemetry (`dystil-telemetry`, `telemetry_consent.rs`, `telemetry_exporter.rs`) | consent and its generation, counters in banks | count, drain, check, send, revoke, grant | what a revocation clears is not sent by an interval checked after it |
| Wake policy (`scheduler.rs`, `maybe_steward`) | `wake_starts`, what is pending and since when | decide, record the start, run | sparse work is taken in the end |
| Storage, retrieval, work index, AI, MCP, shell, frontend | various | | see `PROJECT.json`, `components` |

The hard behaviours are those of any protocol on a database without a common
lock: a status read before an await and used after it, two tasks inside one job,
a restart between two transactions, a number read in one statement and inserted
in another, a deletion in the middle of a run that goes on regardless.
`PROJECT.json`, `hazards`, lists them at the line where each of them bites.

## 2. The modules

| module | what it is | lines of code it stands for |
|---|---|---|
| `StewardJobs` | the Steward's wakes over the job tables | `engine.rs` 329-535, `store.rs` jobs and attempts |
| `Consideration` | abstract specification: what each observation goes through | none: a promise, not code |
| `ExplorerBatches` | the Explorer's windows, compaction, jobs and checkpoints | `worth_fixing_engine.rs` 119-275, `engine.rs` 120-315, `store.rs` explorer jobs |
| `Findings` | evidence, cards, dispositions, scoped deletion | `store.rs` 673-879, 1822-1959, 2725-2784, `worth_fixing_engine.rs` 71-116 |
| `RedactionQueue` | the queue of the model pass, its workers, the setting and the session | `redaction_worker.rs`, `commands.rs` 56-147, `capture_session.rs` 120-142, 318-373, `capture_store.rs` 278-292 |
| `AskForFix` | one conversation: its rows, its runs and what interferes with them | `ask_for_fix.rs` 385-1170, 1977-2420, `ask_for_fix_commands.rs` |
| `AskWatches` | the watches and their collector | `ask_for_fix.rs` 1193-1976, `store.rs` 776-879 |
| `ArtifactChanges` | one artifact and the changes asked of it | `artifact_engine.rs`, `artifact.rs` |
| `SkillBundles` | the builds of one artifact's skill, their rows and directories | `skill_bundle.rs`, `ready_to_use_commands.rs`, `deletion.rs` 500-540 |
| `EventLinks` | recorder, bus, lane, coordinator, linker and the stop of a session | `ui_recorder.rs`, `trigger_bus.rs`, `capture_loop.rs`, `coordinator.rs`, `linker.rs`, `capture_session.rs` |
| `SegmentSync` | captured rows to segments to the cloud | `sync.rs`, `segmenter.rs`, `cursor.rs`, `state.rs`, `db.rs` |
| `ImageSync` | snapshots to the cloud and their clean-up | `image_sync.rs`, `dystil-engine/src/lib.rs` |
| `RecordingSwitch` | commands, policy, boots and timers that start and stop recording | `recording.rs`, `capture_policy.rs`, `commands.rs`, `main.rs` |
| `AutomationRuns` | the manager of one automation, its tasks and rows | `automation_commands.rs`, `dystil-automation` |
| `AgentMailbox` | fetches, the worker and the local requests | `agent_worker.rs`, `agent_mailbox.rs`, `agent_commands.rs` |
| `TelemetryConsent` | consent against recorders and the exporter | `aggregate.rs`, `telemetry_consent.rs`, `telemetry_exporter.rs` |
| `WakeSchedule` | when the Steward is woken | `scheduler.rs`, `worth_fixing_engine.rs` 277-392 |
| `Collections` | lemmas about maxima, minima and sequences | |
| `StewardJobs_proofs` | theorems about `StewardJobs` and its refinement of `Consideration` | |
| `Explorer_proofs` | theorems about `ExplorerBatches` | |
| `Records_proofs` | theorems about `Findings` and `RedactionQueue` | |
| `AskForFix_proofs` | theorems about `AskForFix` and `AskWatches` | |
| `Artifacts_proofs` | theorems about `ArtifactChanges` and `SkillBundles` | |
| `Capture_proofs` | theorems about `EventLinks`, `SegmentSync` and `ImageSync` | |
| `Desktop_proofs` | theorems about `AgentMailbox`, `AutomationRuns`, `TelemetryConsent` and `RecordingSwitch` | |
| `MC_StewardJobs`, `MC_ExplorerBatches` | the symmetry sets of their runs | |
| `MC_Records` | `Findings`, `RedactionQueue` and `SkillBundles`, one of them in each behaviour: safety | |
| `MC_Findings`, `MC_RedactionQueue` | the symmetry sets of the violated runs of these two | |
| `MC_Components` | ten components that share no state, one in each behaviour: safety | |
| `MC_Liveness` | eleven components, one in each behaviour: what must eventually happen | |

Which modules belong together: `StewardJobs` consumes the observations `ExplorerBatches`
makes, when `WakeSchedule` says so, and both read the evidence `Findings` keeps; `AskWatches`
runs after the Steward in the same tick, over the same observations; `AskForFix` starts a
watch when its answer is partial; an answer or a card that is kept becomes the artifact of
`ArtifactChanges`, whose skill `SkillBundles` builds; `EventLinks` makes the rows that
`RedactionQueue` rewrites and `SegmentSync` and `ImageSync` upload, during the sessions that
`RecordingSwitch` starts and stops. Each interface is a set of rows that one side adds to or
takes away from at any time, and each module has the other side as such a step (`Admit`,
`Capture`, `Rewrite`, `Wipe`, `Forget`).

### StewardJobs

A wake is a task at one of the awaits of `run_steward_wake` (`pc`); its locals are `packet`,
`repair` (the attempt index) and `number` (the attempt number it has read). A job *is* its
frozen packet: `input_fingerprint` and the job id hash it. The packet is the observations plus
a *context*, the memory, the day, the timezone and the model it was frozen with. `status[p]`
is the row's status, `log[p]` its attempts. The constraints of the schema that can refuse an
INSERT or an UPDATE (the partial unique index `one_active_insights_job`, the unique owner of
an observation, the foreign keys, the primary key of the attempts) are guards. `TickWake` is
the background loop: it wakes the Steward if there is anything to do. *When* it does is
`WakePolicy`'s decision, which this model leaves open (it is `WakeSchedule`'s subject), so
that what it shows holds under every policy. `RefreshWake` is the explicit refresh. `Wipe` is
`delete_all_insights_data`, `Crash` the end of the process: tables stay, tasks go.

`Consideration` says the same without jobs: an observation is unseen, waiting, in
hand, considered, set aside or forgotten; one batch, taken from the oldest, is in
hand, and leaves it as a whole. `KeepsPromise` is the refinement: `StageOf` reads
the stage of an observation off the tables.

### ExplorerBatches

A tick of `maybe_explore` reads the two cursors, a page of frames and a page of events, merges
what it read by timestamp and cuts it (`Merged`), reads the cursors again to name the batch,
compacts the window against the last text kept (`Kept`, `Folded`), creates or finds the
batch's job, runs it with one repair, and commits cursors and compaction state in one
transaction. Each of these statements is a step (`ReadFrameCursor`, `ReadEventCursor`,
`ReadFrames`, `ReadEvents`, `CutWindow`, `ReadPrior`, `Compact` and so on), and rows are
stored and deleted between any two. The code resolves the rows of a page one by one, up to 200
awaits, before it goes on: they lie between `ReadFrames` and `ReadEvents`, and between that
and `CutWindow`, and a row that was deleted before it was resolved may be left out
(`Resolved`). `amid` is a history mark of a frame that was stored while a tick had its frames
and not yet its events. An unfinished batch is resumed first and commits no checkpoint.
`Capture` stores rows whose timestamps may lie up to `Lag` behind a row already stored: ids
are the order of insertion, timestamps the order of observation.

Abstractions: one surface; two texts are equal or not (the code also drops
near-equal ones and noise); an observation's content is left out, so that an
accepted job stands for its admitted observations. Excluded rows are left out here
and are in `Findings`.

### Findings

Rows of the capture tables with the evidence rows of the same id; for each opportunity the
sequence of its versions, each with the evidence under its credible finding or without one;
the set of active findings and of those disposed of. Five tasks: the tick (`StartTick` to
`EndTick`, with the rules and rows it has *read*), the Steward (`Accept`), the user
(`BeginDisposition` and `EndDisposition` around the check outside the transaction,
`KeepFinding`), the scoped deletion (`BeginForget` to `DeleteRow`, one row at a time),
retention (`Expire`, the oldest row first). `StatementFails` ends the tick, the user's task or
the deletion with an error at whatever statement it is, and `Crash` ends all of them; a
deletion that ends so between the scrubbing and the withdrawal leaves cards it owed
(`CutShort`), which the history variable `stranded` remembers. `Rewrite` is the redaction
worker or an enrichment of an event changing the text of a stored row.

Left out because nothing in these steps reads it to decide anything:
`opportunities.current_status`, ranks, wording, occurrences. A reconciliation
changes one opportunity; several opportunities in one transaction touch disjoint
rows.

### RedactionQueue

`queue` is the table of state rows in the order of `updated_at`, which every write of a
row refreshes; `frames` says who redacted the text of a frame. A worker is at one of the
statements of `run_worker` (`pc`), with the batch it selected, the text it read and the
outcome of the row in hand. `phase` is the session behind the capture lock: a start reads
the setting and spawns the worker, a stop drains the lanes, tells the worker to stop, and
leaves when it has ended *or five seconds have passed*; `StopEnds` is therefore enabled at
once, and an abandoned worker goes on to the end of its batch. `enqueues` are the detached
tasks of `persist`. `cmd` is the place of `set_ai_pii_redaction_enabled`: opting in
settles, saves, and restarts a session that has started; opting out saves, restarts and
settles. `Start` and `Stop` are the user's, beside it. Two commands on the setting at once
are left out, the settings page sends one at a time.

Faults are counted (`MaxFaults`), but for a failing statement on a frame, which the
attempts bound themselves. `lossy` remembers a crash or a failed write of a state row.
`old` and `contested` are history variables for two properties.

Settling the queue changes rows at their places: the statement refreshes `updated_at` too,
but the order of settled rows is never read. `NextRows` are the pending rows a poll selects.

The branch of `process_row` for a row whose attempts are exhausted is in `TakeRow` and never
taken: that a pending row always has an attempt left is a part of `QueueTypeOK`, which
`Records_proofs` proves.

### AskForFix

A *run* is one invocation of a command. Its `pc` names the await or the statement it is at: it
is to register in `inflight` (`open`), to stage the user's `turn`, to build its packet
(`infer`), in the call (`think`), in the retrieval between two calls (`explore`), about to
`apply` the move it was given, about to `close`, `failing`, `dropped` by a stop, or `done`.
`session` holds the columns of the session: `status`, the `phase` of its state, the number of
`questions` asked, whether one is pending (`asking`), whether an understanding is `locked` and
a result `presented`, and the `error`. A run holds the packet it read before its call; `job`
is the packet of the running row of `ask_jobs`. `StopSignals` drops the future at its await;
`Latest` (which recovers a session that reads working), `AskCrash` and `DeleteAll` are beside
it. What the moves say is left out; which moves are legal in which state is `Legal`.

Whoever settles the row of the session, a failed or dropped run, the stop or the view that
recovers it, has a record in `settling` and takes one step per statement: `SettleReads` (the
`SELECT` of the status to fall back to), `SettleWrites` (the `UPDATE`, which only a recovery
makes conditional on `working`) and `SettleJobs`; commands, other settlements and crashes come
between. A status is therefore written that was read before the lock was set or released;
`overtaken` records that it was.

### AskWatches

Observations are admitted in order; each rests on one row of evidence, which may be
deleted or excluded. The collector of the tick takes a snapshot of the active watches and
goes through them: read a window, ask, file what was said, write the cursor, each a step.
A provider error ends the round (`RestOf` is what is left of it). The user creates, guides,
reviews and stops watches meanwhile. `offered` is a history variable: what each watch was
shown in evaluations that counted.

### ArtifactChanges

A change *is* its request and the version it was cut from, which the job id hashes. An
invocation looks the job up, inserts it, marks it running, asks, and stores the answer by
an UPDATE without a condition; the user confirms, in one transaction, what the screen
shows (`shown`), which may be an older preview. Versions remember their change.

### SkillBundles

`builds` are the job rows, `builders` the tasks of this process, `bundles` the rows of
revisions, `shelf` what is in the directory of each revision, `workspaces` the working
directories. The three statements of the end (rename the directory, insert the row, set the
status) are three steps, and so are the three parts of a full deletion. `CrashAndReopen` is
the end of the app and the interruption of abandoned builds when it comes up again. `Deserts`
is a failing statement that leaves a row without a task: the lookup of a reconstruction after
the row was inserted as running, or the write of `failed`, whose error the code ignores. The
history variable `deserted` has these jobs, until the app is started again.

### EventLinks

An event is recorded in a batch, and told to the bus at once or, for keys and scrolls,
after a pause; the lane collects what it hears during a debounce into one capture;
the coordinator makes a frame, or reuses one it remembers for the window or the monitor;
the linker pairs the two messages, whichever comes first. `Stop` goes through the stages
of `CaptureSession::stop`. Every channel has a size and drops what does not fit.
`seen[e]` is a history variable: the screen at the capture that took the event.

### SegmentSync and ImageSync

Rows have a stream, an id and a time. A pass gathers the settled rows after the cursors,
keeps the closed segments, rebuilds the open one, stores segments and cursors together,
uploads in chunks, clears the structure of the frames accepted and acknowledges. An answer
may be lost, a chunk may be accepted in part, a pass aborted, the state file lost (`blind`).
Where segments end is a choice among the groupings of the items in time order; the lists of
segments of the code are sets here, because each segment bears its number and its
predecessor's, and the order in a list is never used for anything else.
`ImageSync` has the copy of the cache that a pass works on (`work`) beside the file it
writes back at certain points, the retries, the completions and the two clean-ups. Which
frames are selected is a choice of a set; the pass admits the first of them. `passedOver`,
`dropped` and `expired` are history variables and only grow: a frame once not selected is
never owed again.

### RecordingSwitch

`settings` is the pause in the settings file, `server`, `capture` and `active` are the parts
of `RecordingState`, `holder` the capture lock, `begins` and `booting` the two flags that a
start sets. Every task, a command (`Calls`) or a pause timer (`Timers`), is at one of its
awaits (`points`), with the copy of the settings it has read. A pause saves, stops and sets
its timer; the timer wakes, clears the pause, starts, and on a failure puts the pause back
and sleeps again. A resume, a setting that restarts capture, a download of a model, a
deletion of everything, the policy, the boot and the relaunch after a crash use the same lock,
flags and file. `agreed` remembers until when the user was told that recording is paused, and
`contended` whether another task was at work while that command was.

### AutomationRuns

One automation on events with a schedule beside it. `manager` is the loop in charge, `loops`
the loops there are: a stop leaves a loop in its tick, and a start begins a second one. A poll
reads the newest frame and the cursor, looks for a row of the frame, and spawns a task; the
task (`runners`) waits for a permit, inserts its row, runs with retries and backoff, marks the
row, and sets the cursor when its run succeeded. Scheduled and manual runs, cancellations,
deletions of the capture database and crashes are beside it. `baselines` remembers where the
cursor was put before anything was to be run.

The cursor may go back, when an older task ends after a newer one; an event that failed is
run again with every poll, regardless of the maximum of attempts, which counts per run; and
background runs cannot be cancelled. These are what the code does, and the model does them.

### AgentMailbox

The cloud numbers requests. Two fetchers, the worker and the command of the user, read the
cursor, ask for a page after it, file what is new and set the cursor, each in steps. The
worker then takes up the first open requests, answers them one by one and records the answer.
`fetch` holds the cursor each read, `queue` what the worker has still to do. Disconnects,
failing statements, failing writes of the interruption, a full deletion and crashes are
counted troubles. A request may be answered twice when the answer could not be recorded.

### TelemetryConsent

Consent, its generation and the banks are shared memory without a lock; each access of it is
a step, and the memory is taken as sequentially consistent. `era` counts revocations, and a
bank holds the eras of what was counted into it. A recorder reads the consent, then counts.
The exporter drains bank after bank into a snapshot, checks consent and generation, waits for
its token and asks once more (`SnapshotIsCurrent`). Then it posts the metrics, awaits the
answer (`PostMetrics`) and posts the traces (`PostTraces`) without asking again; `checked` is
the era of that check. So traces go out although consent was revoked while the answer to the
metrics was awaited; the sentence at aggregate.rs:760, to check immediately before each
sending, is kept for the metrics and not for the traces. `Cleared` are the banks
that a revocation clears; the code's list is not the list of all banks (finding 7).

### WakeSchedule

Time passes in steps of a tick's interval; a day has `DayLength` of them. A tick reads the
statistics of what is pending and decides (`Decides` follows `WakePolicy::decide`), records
the start of an end-of-day flush, and wakes. What the wake does to its job is one step here
and `StewardJobs` in detail. Whether the app is open, has a provider and is on power is an
input of each tick. Ages and counts saturate where no threshold tells larger ones apart.

## 3. The runs

TLC's times and states are of two workers on a small machine.

| run | configuration | states | what it shows |
|---|---|---|---|
| `steward_jobs` | `StewardJobs.cfg` | 210,899 | safety of the jobs and `KeepsPromise` |
| `explorer_batches` | `ExplorerBatches.cfg` | 4,482,218 | two ticks: nothing is skipped, cursors cut in time |
| `explorer_wipe` | `ExplorerBatches_wipe.cfg` | violated | a tick outlives "delete everything" |
| `records` | `Records.cfg` | 1,639,729 | cards are justified, none returns; no row stranded, no sweep, honest backend; builds and directories agree |
| `findings_collision` | `Findings_collision.cfg` | violated | a rewritten row stops reconciliation |
| `findings_cut` | `Findings_cut.cfg` | violated | a deletion that is cut short leaves a card |
| `redaction_resume` | `RedactionQueue_resume.cfg` | violated | a restart strands the row in hand |
| `components` | `Components.cfg` | 1,663,423 | safety of the ten components of `MC_Components` |
| `liveness` | `Liveness.cfg` | 145,263 | liveness of the eleven components of `MC_Liveness` |
| `ask_delete` | `AskForFix_erase.cfg` | violated | a retrieval memo makes "delete everything" fail |
| `image_limit` | `ImageSync_limit.cfg` | violated | an image at the byte limit is passed over |
| `telemetry_clear` | `TelemetryConsent_clear.cfg` | violated | a revocation leaves two banks as they were |

`MC_Records`, `MC_Components` and `MC_Liveness` run components that share no state side by side: a
behaviour chooses one of them (`part`) and is a behaviour of that one alone. The states are
the sum of the components' states, not their product. In `MC_Records` these are `Findings`,
`RedactionQueue` and `SkillBundles`; in `MC_Components` `AskForFix`, `AskWatches`,
`ArtifactChanges`, `EventLinks`, `SegmentSync`, `ImageSync`, `RecordingSwitch`,
`AutomationRuns`, `AgentMailbox` and `TelemetryConsent`; in
`MC_Liveness` `AskForFix`, `AskWatches`, `WakeSchedule`, `StewardJobs`, `Findings`,
`ExplorerBatches`, `EventLinks`, `SegmentSync`, `RecordingSwitch`, `AutomationRuns` and
`AgentMailbox`.

### What the properties say

*Steward.* `OneActiveJob`: the recovery query takes any unfinished job (`LIMIT 1`)
and relies on there being one. `SingleOwner`: no observation in two packets.
`AcceptanceIsWhole`: status, attempt, reconciliation row and cursor together.
`WipeLeavesNothing`: no job or attempt of deleted observations, though wakes
outlive the deletion. `KeepsPromise`, the refinement, which has in it that what was
considered stays so. `EveryObservationSettles`: each admitted observation ends in an
accepted or rejected job or is deleted. `SparseWorkIsTaken`: however few observations are
pending, they are handed to a wake in the end. The comment at scheduler.rs:33 gives the
credit to the deadline, but that asks for three observations; it is the end-of-day flush
that keeps the promise, and a flush whose wake fails before it has a job is made up for on
another evening only, because its start is on record.

*Explorer.* `EveryTextOffered`: a row that its cursor has passed has its text in the packet of
some job, its own row or one it repeats. `CursorsCutInTime`: the two cursors cut the captured
rows at one point in time. Both make exceptions for rows that changed places, of which one
bears a lower id and a later timestamp than another of its source; where rows are stored in
the order of their timestamps there are none. `CursorsCutInTime` has one more, for a frame
that is stored while a tick is between its two pages (`amid`): the tick does not see it, and
may consume a later event. This needs no rows that change places, and no text is lost by it,
as the frame's own cursor stays before it; `EveryTextOffered` has no such exception. The
exceptions are what the code needs, each was found as a counterexample of TLC to a stronger
statement. A row that was overtaken may be passed over (the cut is by time, the cursor by id).
A row that overtook another may stand in a window behind the edge of its page, so that the
other source is cut after it although its own cursor stays before: `CursorsCutInTime` exempts
it too (`Overtakes`; lag 2, three rows, one tick). And where two ticks overlap, the compaction
state that the late one commits may name the text of a row that was passed over unseen, after
which later rows of the same text are folded into it and offered to nobody: hence `Shadowed`
in `EveryTextOffered` (batches and pages of two, four rows, two ticks). `EveryRowConsumed`,
for a constant model and timezone.

*Cards.* `CardsAreJustified`: an active card is of its opportunity's last version, not
disposed of, and on admissible evidence, unless a running deletion is about to withdraw it, or
a deletion was cut short, by a failed statement or the end of the app, between the scrubbing
and the withdrawal. (The statement without this is `ForgottenIsWithdrawn`, in a violated run.)
`NoCardReturns`: a card that was withdrawn, disposed of or replaced never becomes active
again. `GoneRowsAreDeleted` and `ExclusionsReachCards`: reconciliation does its work in the
end, but for a card that a deletion stranded, whose evidence no tick looks at again. Both are
checked without rewritten rows, which stop reconciliation (`findings_collision`).

*Redaction.* `ProcessingIsInHand`: the poll selects pending rows only, so that a row
marked processing which no worker is about to mark again would wait for ever; there is
none, though sessions stop, workers are abandoned and two of them may hold one row, unless
a crash or a failed state write came between. `NoHistoricalSweep`: a frame that an opt-in
finds with nobody at work on it is never taken up by a worker; late enqueues and abandoned
workers do leave rows pending after the opt-out has settled the queue, and it is the
settling of the opt-in that disposes of them. `BackendIsHonest`: a complete row that names
the model belongs to a text the model redacted. Frames that two workers held at once are
set apart, because there it fails: an abandoned worker whose model call fails stores the
text it had read over the one the other worker had stored (drop `contested` from the
property to see it). That the pass settles every pending row in the end is not checked.

*Ask for a fix.* `SessionIsWhole`: the columns of a session agree, whatever was stopped,
replayed, recovered or deleted at whatever await, with one exception that the code has: the
status may belie the lock where a stop or a recovery wrote a status it had read before another
command set or released the lock (`overtaken`). Such a row always carries the error of that
stop or recovery, so that a retry is offered; a failed run is never overtaken, because it is
the one alive. `MemoIsOfThisTurn`: no run reasons with a
memo of another turn. `NeverStuck`, which is proved and not in a run: where no run is at
work the user has a way to go on: a command that is accepted, something to confirm, a
message, or a recovery when the view opens. `ThinkingEnds`: the session is free again in the end.

*Watches.* `NothingUnwatched`: what lies between the baseline of a watch and its cursor was
shown to it in an evaluation that counted. `EndedStaysEnded`: the write at the end of an
evaluation does not revive a watch that was stopped or dismissed during it, with one
exception that the property names, because it is what the code does: an evaluation that
ends with enough evidence sets the watch ready for review without looking at its status.
`WatchesCatchUp`: an active watch sees everything admitted or ends.

*Changes and builds.* `NoLostUpdate`: version n replaces version n - 1, which its change was
cut from. `ReadyIsOnDisk`: a job that reads ready has its bundle, and the directory of each
bundle holds the output of the build it names. `RunningIsBuilt`: a job that reads running is
in the hands of one task, and no other is at work on the artifact, except where a statement
failed whose failure nobody records (`deserted`); such a row stays running until the app is
started again.

*Capture.* `LinksTellTheTruth`: the frame an event ends up with shows the window and page its
capture saw, and a text like it. `BothEndsMeet`: unless something was lost, an event that was
written and captured has its link or the message that will make it; a join that times out in a
stop, the linker that is aborted and an UPDATE of a link that fails count as losses. It
exempts the steps of a scroll after the first, whose ids the recorder never tells
(`capture_loop.rs:321`). `HeardEventsAreLinked` is the same as a promise of the future, while
the session lasts.

*Sync.* `OneContentPerSegment`: an id names one content, though revisions are always 1; it
holds as long as the state file was not lost (`blind`), because the cold start takes up
numbers from the cloud only if the cloud answers. `EverythingReachesTheCloud` exempts a row
overtaken in time by a later id, which the code may really pass over: the cursor goes by time
first. The floor of the first look back and segments too large to send are left out.
`BareMeansAccepted`: the structure of a frame is cleared only after the cloud has it.
`NoImageIsForgotten`: what the scan cursor has passed is in the cloud, waits, was not
selected, or has had its one retry, and no snapshot is cleaned up that is still to be
uploaded.

*Recording.* `PauseHolds`: once the user was told that recording is paused until some time,
nothing is recorded before that time or the user's own word. It sets apart a command to
pause beside which another task was at work (`contended`): there it fails, because a
download or a setting saves the copy of all settings that it has read before. `PauseEnds`:
a pause is over in the end, through failed starts, failed saves and relaunches. It is
checked with the commands pause, policy and delete-everything. With the others it fails, and
no sentence of the repository says what should happen: an explicit resume whose start fails
leaves the pause without a timer; the rollback of a setting, and a download, save a copy in
which the pause still stands; and the boot may find the server unable to start.

*Automations.* `CursorMeansDone`: the cursor of the events is where it was put before anything
was to be run, or at a frame whose run has succeeded. Of the frames between two polls only the
newest has a run at all. `EveryEventDelivered`: when the frames come to rest, the newest has
had its run in the end. It is checked with every trouble the model has: failures of the
provider and of statements, no provider to resolve, deletions and crashes. Some of them leave
a row that reads queued or running with no task at work on it (`Dangling`). Every later poll
finds that row (`KnownRow`, lib.rs:324), so that its frame is never run: the property exempts
it, until a newer frame comes.

*Mailbox.* `NoRequestIsLost`: what the cursor has passed is on file, or the user deleted it;
and what counts as responded was answered. `EveryRequestAnswered`: requests that have come
are answered in the end. It is checked with every trouble, crashes and failing writes of an
interruption included. These may leave a request that reads processing and that the worker no
longer has (`Forsaken`): no fetch takes it up, and the property exempts it, as it does what the
user deleted.

*Telemetry.* `ClearedIsNotSent`: of the banks a revocation clears, nothing that was counted
before a revocation which had begun when the interval was last checked is sent, not even when
the user has granted consent again meanwhile. What a revocation meets after that check goes
out, the traces even when the answer to the metrics was awaited in between.
`RevocationClears`, in a violated run: after a revocation no bank holds anything older.

### Where code and documentation disagree

1. `WipeStartsEmpty` (privacy.tsx:206, store.rs:2558). The engine is not stopped by a
   full deletion; a tick in flight stores a job or a compaction state of deleted rows.
2. `GoneRowsAreDeleted` (source_admission.rs:42). After the redaction worker changed a
   row already on file, `upsert_evidence` fails for it on each tick and ends the tick;
   later rows are never reconciled, and neither Explorer nor Steward runs again.
3. `ForgottenIsWithdrawn` (store.rs:769). The cards are withdrawn in a transaction after
   the ones that scrub the evidence; a statement that fails, or a restart, between them leaves
the cards.
4. `ThePassResumes` (DATA_MODEL.md:52, CAPTURE_PIPELINE.md:68). Nothing puts a row that
   was processing back when a session starts; it stays so until the setting is changed.
5. `DeletionClears` (store.rs:2555). `delete_all_insights_data` does not delete
   `ask_retrieval_reports`, which refer to `ask_sessions`: with one memo on file the
   foreign key refuses the deletion, and nothing is deleted.
6. `NoImageIsForgotten` (image_sync.rs:147). The candidate that does not fit the bytes of a
   pass is counted as attempted; when it is the last one, the cursor passes it.
7. `RevocationClears` (telemetry_consent.rs:72, commands.rs:1102, README.md:363).
   `Telemetry::clear` (aggregate.rs:767) leaves out `sync_diagnostics` and
   `resource_activity`; what they hold is sent once telemetry is on again.

One more behaviour was met that no sentence of the documentation contradicts: a
rejected Explorer batch whose packet changes afterwards (another model or timezone)
keeps its `batch_id`, on which `explorer_jobs` is unique, so that its INSERT fails on
every tick. `EveryRowConsumed` is therefore checked with one context.

And one that a comment does contradict, in a detail: engine.rs:349 says that accepted jobs
never call the provider again. When two wakes run one job and one answer is accepted while
the other does not parse, the second wake repairs, which is a call more; its answer is then
refused (`AlreadyAccepted`) and changes nothing, as the theorem `AcceptanceIsFinal` says.

### Bounds

* Two wakes, two ticks: any number of tasks interferes pairwise through the tables;
  a third adds no new kind of step. The proofs are for any number of workers.
* `StewardJobs`: two observations and two contexts, so that packets of one and of two
  observations and a changed context all occur; one fault, one refresh, one deletion. In
  `liveness` a packet holds one observation, and either a refresh meets the background
  wake over one observation or one wake works through two (`StewardBound`).
* `ExplorerBatches`: windows of one row with two ticks: both truncation and repetition
  occur. Two sources and two texts. `Lag = 1`
  lets a row overtake another. Two faults are what rejects a batch. In
  `ExplorerBatches.cfg` everything is deleted only while no tick runs (`WipeAtRest`): the
  other case is the violated run.
  The theorems cover all sizes, those at which the two counterexamples above appear included.
* `Findings`: two rows, one opportunity with two versions, two disturbances of those each
  configuration names; in `records` two disturbances over one version or one over two
  (`CardsBound`). Two rows are needed for one to block the other. `RefLimit` is the
  number of rows: with less, `known_source_refs` lists only the oldest ones, and the rest
  is not reconciled until they are gone, which is a limit of the code (10,000 rows).
  The kinds are a change of the policy, a rewritten row, an expired one, a scoped deletion, a
failing statement and a crash. In `liveness` all but the rewrite.


* `RedactionQueue`: one frame, two workers, two changes of the setting, one counted fault,
  two attempts. Rows of different frames meet only in the limit and the order of a batch;
  what a stale batch does shows with one row of it, which an abandoned worker has selected
  and not begun. Two workers are what overlaps when one stop did not wait. Two changes of
  the setting are an opt-out and the opt-in after it, in either order. In
  `redaction_resume` one worker and one crash are enough.

* `AskForFix`: two runs, because what interferes is one run with the next or with a command;
  two turns, so that there is an earlier one; one reply to a turn and one more by a review,
  so that a turn can be retried and reviewed; one question, so that the budget is reached;
  one trouble: a stop (which leaves two settlements, its own and the dropped run's), a view
  opened on a session that works, a crash or a deletion. A command begins only while at most
  one settlement is between its statements (`AskBound` of `MC_Components`): one is enough to
  be stale. In `Liveness.cfg` no review begins (`AskBound` of `MC_Liveness`).
* `AskWatches`: one watch, capacity one, a window of one observation out of three, a guidance
  that goes back by one, one upset. Watches meet only in the capacity and in the order of
  a round, of which `RestOf` is checked by `WatchesCatchUp`.
* `ArtifactChanges`: two requests and two invocations, three versions, two answers.
* `SkillBundles`: two jobs, two inputs (so that a reconstruction is reused or not), one scoped
  deletion, one restart, one full deletion.
* `EventLinks`: focus and scroll on one window with two pages and one monitor in `components`,
  clicks and keys in `liveness`; a bus of one or two, a mailbox of two, two events, one slip,
  two sessions. Texts differ by the page only.
* `SegmentSync`: two rows of either stream, times up to 2, a settle lag of 1, two segments in
  a chunk, two mishaps. `ImageSync`: three frames, two uploads in a pass, two setbacks.
* `RecordingSwitch`: two commands at once out of two, two timers, a clock of two hours, one
  failure: one task beside another, and a timer that wakes while another is set.
* `AutomationRuns`: two tasks, two frames, two permits in `components`, so that two tasks of
  one frame are in a run at once; one permit and a schedule in `liveness`; two attempts, one
  trouble of any kind.
* `AgentMailbox`: three requests, pages of two (of one in `liveness`), so that fetches differ
  in what they bring; two troubles of any kind, as one hides what a second one finds.
* `TelemetryConsent`: two savings of the setting, a revocation and a grant; one recorder, which
  counts before the second command begins (`ConsentBound`).
* `WakeSchedule`: the thresholds in steps of a tick and scaled down in their order: 3 for an
  observation batch, 2 for the deadline, both of 2 steps, and a burst as large as a batch but
  sooner; two steps to a day, the second is the evening; one failure.
* No symmetry where liveness is checked, nor in `components`, whose part decides which of
  the sets matter.

`CHECK_DEADLOCK FALSE` is set throughout: with the bounds used up and nothing pending
the app really waits.

### Fairness

The loop ticks every fifteen minutes for as long as the app runs, and every await of a
tick, of a wake or of a deletion is on SQLite or on a provider call with a timeout:
hence weak fairness of the steps of a task that has begun and of beginning the
background one. No fairness is assumed of the user, of capture, of retention, of the
refresh, of the provider's failures or of a crash. In `RedactionQueue` the steps of a worker
and of an enqueue task are fair, because its timer fires and its statements return; the
loading of the model and the sessions are not, and `ThePassResumes` speaks of a session
that has its model and lasts.

A run of Ask for a fix goes on at each await; the collector is part of the tick; the timers of
recorder, lane and linker fire; a stop of a session goes through its stages; the engine
repeats its passes; the tasks of the recording switch, of automations and of the mailbox's
worker go on at each await, the manager polls every 15 seconds, clocks go on. There are two
strong fairnesses. `Gather(TRUE, TRUE)` is a pass that closes the last segment: the code
closes it when nothing was added for long enough, which with finitely many rows comes again
and again, though not at each moment. `EveningTick`: again and again the user has the app open
in the evening, with a provider and on power; without it nothing can be promised of sparse
work. In `MC_Liveness` the fairness of the components is merged into the steps of the one part
that runs; the four steps of a pass of `SegmentSync` are one step there, as at most one of
them is possible at a time and stays so until the pass moves on. The liveness properties hold
for finitely many faults, which the bounds say; with a provider that never answers nothing can
be promised. They are written as `[]<>` of what must come about, not as `~>`: what waits goes
on waiting until it is served, so that the two say the same, and TLC checks the former much
faster.

## 4. What is proved

Every invariant and every action property of the passing runs is a theorem, and so is the
refinement `KeepsPromise`. The theorems hold for every value of the constants that the named
assumption of each module allows: sets of tasks, rows and texts of any size, limits that are
positive, bounds that are natural numbers, and marks like `NoTask` that are not in the set
they mark. (`WorkersAssumption` and `NoPacketAssumption` of `StewardJobs`, `BoundsAssumption`
of `StewardJobs` and of `Findings`, `LimitsAssumption` of `ExplorerBatches`, and for the
others `QueueAssumption`, `AskAssumption`, `WatchAssumption`, `ChangeAssumption`,
`BundleAssumption`, `EventAssumption`, `SegmentAssumption`, `ImageAssumption`,
`SwitchAssumption`, `AutomationAssumption`, `MailboxAssumption`, `ConsentAssumption`.)

| module | theorem | property |
|---|---|---|
| `StewardJobs_proofs` | `TypeCorrect` | (types) |
| | `AtMostOneActiveJob` | `OneActiveJob` |
| | `NoObservationOwnedTwice` | `SingleOwner` |
| | `NothingSurvivesAWipe` | `WipeLeavesNothing` |
| | `AcceptanceIsFinal` | `AcceptedIsFinal`, in no run |
| | `AcceptancesAreWhole` | `AcceptanceIsWhole` |
| | `JobsKeepPromise` | `KeepsPromise` |
| `Explorer_proofs` | `CursorsCut` | `CursorsCutInTime` |
| | `TextsAreOffered` | `EveryTextOffered`, with `WipeAtRest` |
| `Records_proofs` | `FindingsTypeCorrect`, `QueueTypeCorrect` | (types) |
| | `CardsStayJustified` | `CardsAreJustified` |
| | `CardsNeverReturn` | `NoCardReturns` |
| | `BackendsAreHonest` | `BackendIsHonest` |
| | `ProcessingRowsAreInHand` | `ProcessingIsInHand` |
| | `HistoryIsLeftAlone` | `NoHistoricalSweep` |
| `AskForFix_proofs` | `AskTypeCorrect`, `WatchesTypeCorrect` | (types) |
| | `NoRowAtOdds` | `SessionIsWhole` |
| | `BudgetKept` | `QuestionBudget`, in no run |
| | `UserCanGoOn` | `NeverStuck`, in no run |
| | `MemosAreOfTheirTurn` | `MemoIsOfThisTurn` |
| | `WatchesMissNothing` | `NothingUnwatched` |
| | `EndedWatchesStayEnded` | `EndedStaysEnded` |
| `Artifacts_proofs` | `ChangesTypeCorrect`, `BundlesTypeCorrect` | (types) |
| | `VersionsBuildOnEachOther` | `NoLostUpdate` |
| | `ReadyBundlesAreOnDisk` | `ReadyIsOnDisk` |
| | `RunningBuildsHaveTheirTask` | `RunningIsBuilt` |
| `Capture_proofs` | `ContentsAgree` | `OneContentPerSegment` |
| | `ClearedAreAccepted` | `BareMeansAccepted` |
| | `NoneIsForgotten` | `NoImageIsForgotten`, with `~ByteLimit` |
| | `NoLinkLies` | `LinksTellTheTruth` |
| | `EndsMeet` | `BothEndsMeet` |
| `Desktop_proofs` | `AutomationTypeCorrect` | (types) |
| | `NothingIsLost` | `NoRequestIsLost` |
| | `CursorNeverAhead` | `CursorMeansDone` |
| | `RevokedIsNotSent` | `ClearedIsNotSent` |
| | `PausesHold` | `PauseHolds` |

Two theorems have a hypothesis about a constant, and for each there is a violated run which
shows that the hypothesis is needed: `TextsAreOffered` (`explorer_wipe`: a tick that
outlives a deletion) and `NoneIsForgotten` (`image_limit`: images that do not fit into a
pass).

`Collections` has the lemmas that the others share: about the maximum and the minimum of a
bounded set of numbers (from the principle of the least number), and about appending to,
taking from and cutting sequences.

*StewardJobs.* Most steps change no job at all, and those that do change it in one of seven
ways. The lemma `StoreSteps` maps every action to its way, and each invariant is then shown
once per way and not once per action. The inductive invariant `Typed` strengthens `TypeOK`
by what the types cannot say, that a wake past its freeze holds a packet and that no packet
is empty: without it the accepted cursor, the greatest observation of a packet, would have
no type. `OneActiveJob` is inductive with it: a job becomes active only where no other one
is. `SingleOwner` and `WipeLeavesNothing` need no strengthening either, because what makes a
stale packet harmless is that the insertion looks at the owners and the rows again: the
proof is that the *packet* of a worker, which may well be stale, is never trusted.
`AcceptanceIsFinal` uses that the three statements that overwrite a status all look at it.
`AcceptanceIsWhole` is inductive with `Typed`; that there is *exactly one* accepted attempt is
shown without counting, from an attempt that is accepted and equal to every other one.

*KeepsPromise.* The refinement maps the tables to a stage for each observation. Its proof
goes through the same seven ways of changing a job: each is a step of `Consideration` or
leaves all stages as they are. What it needs beyond the invariants is `FrozenIsOldest`: the
packet of a wake, where it can still be inserted, is of the oldest waiting observations,
although others were admitted since it was frozen.

*ExplorerBatches.* `CursorsCutInTime` is about two cursors that are read, moved and committed
by ticks that know nothing of each other. The inductive invariant says of each pair of cursors
that somebody may still commit that it is a *cut* (`Fit`): it passes no row before an earlier
one of the other source that is still ahead of the committed cursors (`Ahead`), but for those
that changed places and for marked frames. Ticks read the two cursors in two steps, and others
commit in between (`Taken`, `Begun`). What a tick has read of a source (`FramesRead`,
`PagesRead`) is closed downward: a row that was missed is a marked frame, or was stored after
everything read, or lies beyond a full page of rows still there. That a window makes a cut out
of a cut (`WindowCuts`) is then counting: a row that the merge leaves out has `BatchLimit`
earlier ones in the window, and where a page is full it has `PageLimit` of them, which is not
less. `EveryTextOffered` calls a text *good* when it is offered or shadowed. The invariant
says that every text below the cursors, and below what any batch on file would move them to,
is good; that the window, or the packet, of a tick covers what its batch crosses; and that the
text a tick compares with is good or of a row its batch crosses. Its heart is
`CompactionKeeps`: a text of the window is let through by the compaction or is the state's
text, shown for the earliest row of the text.

*Findings.* `CardsAreJustified` needs that every active card is of the last version, not
disposed of, and that its evidence is admissible, or is on the list of the deletion under way,
which still owes the withdrawal. The list is a local variable of the deletion, so that a
failed statement or a crash before the withdrawal loses it; `stranded` remembers what was on
it. No step that makes a card active gives it evidence that is marked deleted. `NoCardReturns`
follows step by step from the types: only an accepted reconciliation makes a card active, and
one of a new version.

*RedactionQueue.* Frames that exist and were never held twice are held by one worker at most,
and what it knows about them is true: with it `BackendIsHonest` is inductive. What the opt-in
found idle is on no way to a worker (`NoHistoricalSweep`), which is an invariant on the
queue, the detached tasks and the batches together. Each processing row is in some hand
unless `lossy`.

*AskWatches.* The cursor of a watch, the cursors of a round under way and the window of the
observation it is at are all covered by what was offered; that a window leaves no gap between
the cursor and its last observation is shown by the cardinality of what it would have left
out. `EndedStaysEnded` needs that a start that has counted the active watches is of a watch
that does not exist yet.

*SkillBundles.* One task per running row that is not `deserted`; a full deletion takes all
rows at once, and leaves tasks behind that find theirs gone. A build files at most one bundle,
so that the next revision stays in bounds, by counting; a build that is about to insert has
its directory on the shelf.

*EventLinks.* The way of an id from the recorder to a capture has many places (batch, bus,
lane, debounce, batch of the lane); the invariant says that it is in one of them only, and in
none once it is captured. Whatever link or message travels tells the truth about both its
ends, which gives `LinksTellTheTruth`. For `BothEndsMeet`, an id waits with one of its ends
only, the parts of a session that has ended hold nothing, and while nothing was lost an end
that is not linked is in the channel or waits; hence the linker ends only when nothing more
comes. Only the later steps of a scroll trail behind a message.

*SegmentSync.* Segments differ by their numbers, which lie below the next one; the only open
segment is the last; what the cloud has lies below what will be rebuilt, unless the numbers
were lost, and then nothing is pending (`Cold`). What a pass has still to upload is on file
and closed.

*ImageSync.* Below every frame that a copy of the cache knows of nothing is missing. While a
pass uploads, its uploads have their snapshots, and together with what is settled nothing is
missing up to where the cursor will go. `~ByteLimit` makes the attempted the admitted ones.

*AgentMailbox.* A fetch carries a cursor that was right when it was read, and pages are
filed before the cursor is set, so that an older page may set it back but never ahead. The
worker records as responded only what it has answered.

*AutomationRuns.* Each task has its row to itself; the row is of the task's frame and is no
success until the run has ended; a task that is about to set the cursor has earned it.

*TelemetryConsent.* Something old is in a cleared bank only until the revocation under way
empties that bank; in a snapshot only if the snapshot is of an older generation or the
revocation has still to raise it; and meanwhile consent is not granted, so that the check of
the interval fails. An exporter past that check holds of the cleared banks only what was
counted in the era of the check (`CheckedIsCurrent`), whatever is revoked while it sends.

*RecordingSwitch.* A command to pause that nothing interferes with is the only task at work.
While the promise holds, capture is off and inactive, the settings file has exactly the pause
the user was promised, every task is at a harmless point of its way, and one timer sleeps,
which is the one of the handle. The proof is one step per action over these conjuncts.

*ArtifactChanges.* `NoLostUpdate` is inductive with the types, because a confirmation looks
at the current version in the transaction that adds the next one; the proof has one step
for each action and shows that all but the confirmation and the removal leave the versions
alone.

*AskForFix.* `SessionIsWhole` is not inductive: a run applies a move that was judged against a
packet read before its call, and nothing looks at the session again. What makes it right is
that only one run is alive. The inductive invariant is `AskInv /\ SessionSound`, where
`AskInv` is `AskTypeOK /\ RunsWhole /\ SettlersWhole`. `RunsWhole` says that the only run that
is alive is the one in `inflight` (`OneRunAlive`), so that nothing else moves the conversation
away from its packet, and of every run that it holds what its step needs (`Held`): one that
thinks, explores or applies holds a packet whose turn, phase and questions are those of the
session, and past the call a move that is legal for it. `SessionSound` adds to
`SessionIsWhole` what follows from the status alone (`Waits`) and the budget. `SettlersWhole`
ties whoever settles the row to its error (`Reason`) and says that the status a failed run has
read is not out of date when it writes it (`Fresh`), because the lock moves only under a run
that opens, and that would be a second run alive; so only a stop or a recovery is overtaken.
`NeverStuck` then follows from it without any further induction, and `MemoIsOfThisTurn` from
the two places where a memo is read.

Only model-checked are the twelve liveness properties, which no prover here can do (fairness
and ENABLED), and the counterexamples of the violated runs.

## 5. Not modelled

See `components` in `PROJECT.json` for the reason of each. In short: the platform code of
capture, text normalisation and redaction models, search, network providers and the user
interface have no protocol to check or none in this repository, and are most of its lines;
ranking and eligibility are pure functions of one snapshot.

Of the parts that are modelled, the `note` of each component says what is left out. Two
behaviours were met that the models do not have: `known_source_refs` lists at most 10,000
rows, the oldest, so that evidence beyond them is not reconciled until older rows are gone
(store.rs:2528); and `capture_active` is set only when a start has ended, so that a change
of the AI-PII setting that meets a start in progress restarts nothing (commands.rs:115;
the steps are in `RedactionQueue`, but no property says that a session agrees with the
setting, because the code does not make it so).

The app-level parts leave out: `spawn_capture`'s cooldown after a failed start
(recording.rs:448) and the full shutdown of `stop_screenpipe` (recording.rs:387-430); a
telemetry policy of an organization and the environment variable; a change of the timezone
and the limit of 250 observations in `WakeSchedule`; signing in and out, where `auth.rs`
reads, awaits and writes the stored session, so that a refresh under way when the user signs
out can write the old session back.

## 6. Plan

1. Models: the kernel as functions against a reference definition; the stored session of
   `auth.rs` with sign-in, refresh and sign-out.
2. Proofs: the type invariants of the modules whose inductive invariants have them as a part
   only (`EventLinks`, `SegmentSync`, `ImageSync`, `RecordingSwitch`, `ExplorerBatches`,
   `TelemetryConsent`, `AgentMailbox`) as theorems of their own, and the action properties of
   cursors (what a commit may never undo).
