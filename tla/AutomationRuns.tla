---------------------------- MODULE AutomationRuns ----------------------------
(***************************************************************************)
(* Automations (crates/dystil-automation, apps/dystil/src-tauri/src/       *)
(* automation_commands.rs): one that runs when frames have come, one that  *)
(* runs by the clock, and runs the user asks for.                          *)
(*                                                                         *)
(* A manager polls every 15 seconds and spawns a task for a run that is    *)
(* due; a task waits for one of the permits, queues a row, runs the        *)
(* provider and writes the row's end, and starts over, with a row of its   *)
(* own, after a failure that may pass.  The cursor of the event source is  *)
(* set by the task once its run has succeeded.  Until then, every poll     *)
(* spawns another task for the same frame; the rows, by the frame's key,   *)
(* are all that keeps them apart.                                          *)
(***************************************************************************)
EXTENDS Integers, Sequences, FiniteSets

CONSTANTS
  Runners,         \* bound: tasks at once
  Loops,           \* bound: managers at once, one of them current
  NoLoop,
  Permits,         \* concurrency(): runs at once
  MaxAttempts,     \* retry.max_attempts
  MaxTaken,        \* bound: frames captured
  MaxOthers,       \* bound: hours of the schedule and runs the user asks for, together
  MaxChanges,      \* bound: changes of the policy
  TaskTroubles,    \* which kinds of trouble happen
  MaxTaskTroubles  \* bound: how often

ASSUME AutomationAssumption ==
  /\ {Permits, MaxAttempts} \subseteq Nat \ {0} /\ NoLoop \notin Loops
  /\ {MaxTaken, MaxOthers, MaxChanges, MaxTaskTroubles} \subseteq Nat
  /\ TaskTroubles \subseteq {"provider", "permanent", "resolve", "storage", "deletion", "crash"}

VARIABLES
  newest,       \* MAX(id) of the frames, 0 when there is none
  taken,        \* the last id given to a frame
  clockHour,    \* the clock of the schedule
  scheduled,    \* automation_cursors of the schedule, 0 when there is none
  eventCursor,  \* automation_cursors of "frames", 0 when there is none
  baselines,    \* history: what the cursor was set to without a run
  runs,         \* automation_runs
  runners,      \* where each task is
  loops,        \* where each manager is
  manager,      \* manager_task(): the one whose stop signal is held
  manuals, changed, troubles

frameVars == <<newest, taken, clockHour>>
loopVars  == <<loops, manager, scheduled, baselines>>
counts    == <<manuals, changed, troubles>>
automationVars == <<frameVars, eventCursor, runs, runners, loopVars, counts>>

NoRun == [pc |-> "none", kind |-> "none", frame |-> 0, row |-> 0, attempt |-> 1]
Off   == [pc |-> "off", seen |-> 0, now |-> 0, stopping |-> FALSE]

NewTask(kind, frame) == [NoRun EXCEPT !.pc = "wait", !.kind = kind, !.frame = frame]

AutomationInit ==
  /\ newest = 0 /\ taken = 0 /\ clockHour = 1 /\ scheduled = 0 /\ eventCursor = 0
  /\ baselines = {} /\ runs = <<>>
  /\ runners = [t \in Runners |-> NoRun]
  /\ loops = [l \in Loops |-> Off] /\ manager = NoLoop
  /\ manuals = 0 /\ changed = 0 /\ troubles = 0

TaskTrouble(kind) ==
  /\ kind \in TaskTroubles /\ troubles < MaxTaskTroubles
  /\ troubles' = troubles + 1 /\ UNCHANGED <<manuals, changed>>

Other == clockHour + manuals =< MaxOthers   \* the clock begins at 1

SpawnRun(kind, frame) ==
  \E t \in Runners : runners[t] = NoRun /\ runners' = [runners EXCEPT ![t] = NewTask(kind, frame)]

FrameStored ==
  /\ taken < MaxTaken
  /\ taken' = taken + 1 /\ newest' = taken + 1
  /\ UNCHANGED <<clockHour, eventCursor, runs, runners, loopVars, counts>>

FramesDeleted ==
  /\ newest > 0 /\ TaskTrouble("deletion") /\ newest' \in 0 .. newest - 1
  /\ UNCHANGED <<taken, clockHour, eventCursor, runs, runners, loopVars>>

HourPasses ==
  /\ Other /\ clockHour' = clockHour + 1
  /\ UNCHANGED <<newest, taken, eventCursor, runs, runners, loopVars, counts>>

-----------------------------------------------------------------------------
(* The manager: on and off with the policy, and on when the app starts. *)

StartManager(l) ==
  /\ manager = NoLoop /\ loops[l] = Off
  /\ manager' = l /\ loops' = [loops EXCEPT ![l].pc = "idle"]
  /\ UNCHANGED <<frameVars, scheduled, eventCursor, baselines, runs, runners, counts>>

(* A manager in the middle of a poll ends after it. *)
StopManager ==
  /\ manager # NoLoop /\ changed < MaxChanges
  /\ changed' = changed + 1 /\ manager' = NoLoop
  /\ loops' = [loops EXCEPT ![manager] =
                 IF @.pc = "idle" THEN Off ELSE [@ EXCEPT !.stopping = TRUE]]
  /\ UNCHANGED <<frameVars, scheduled, eventCursor, baselines, runs, runners, manuals, troubles>>

AfterPoll(l) == IF loops[l].stopping THEN Off ELSE [Off EXCEPT !.pc = "idle"]

(* poll_once takes the time and reads the cursor of the schedule, then sets  *)
(* it and spawns the run, if one is due.                                    *)
PollSchedule(l) ==
  /\ loops[l].pc = "idle"
  /\ loops' = [loops EXCEPT ![l].pc = "due", ![l].seen = scheduled, ![l].now = clockHour]
  /\ UNCHANGED <<frameVars, eventCursor, runs, runners, manager, scheduled, baselines, counts>>

schedule_due(last, now) == last < now

PollDue(l) ==
  /\ loops[l].pc = "due"
  /\ IF schedule_due(loops[l].seen, loops[l].now)
     THEN /\ scheduled' = loops[l].now
          /\ IF loops[l].seen = 0 THEN UNCHANGED runners ELSE SpawnRun("schedule", 0)
     ELSE UNCHANGED <<scheduled, runners>>
  /\ loops' = [loops EXCEPT ![l].pc = "frames"]
  /\ UNCHANGED <<frameVars, eventCursor, runs, manager, baselines, counts>>

PollFrames(l) ==
  /\ loops[l].pc = "frames"
  /\ loops' = [loops EXCEPT ![l] = IF newest = 0 THEN AfterPoll(l)
                                   ELSE [@ EXCEPT !.pc = "cursor", !.seen = newest]]
  /\ UNCHANGED <<frameVars, eventCursor, runs, runners, manager, scheduled, baselines, counts>>

(* The cursor is set when the run is spawned, not when it has succeeded. *)
PollCursorAhead(l) ==
  /\ loops[l].pc = "cursor"
  /\ IF eventCursor \in {0, loops[l].seen} THEN UNCHANGED runners
     ELSE SpawnRun("event", loops[l].seen)
  /\ loops' = [loops EXCEPT ![l] = IF eventCursor = 0 THEN [@ EXCEPT !.pc = "first"]
                                   ELSE AfterPoll(l)]
  /\ eventCursor' = IF eventCursor = 0 THEN 0 ELSE loops[l].seen
  /\ UNCHANGED <<frameVars, runs, manager, scheduled, baselines, counts>>

PollCursor(l) ==
  /\ loops[l].pc = "cursor"
  /\ IF eventCursor \in {0, loops[l].seen} THEN UNCHANGED runners
     ELSE SpawnRun("event", loops[l].seen)
  /\ loops' = [loops EXCEPT ![l] = IF eventCursor = 0 THEN [@ EXCEPT !.pc = "first"]
                                   ELSE AfterPoll(l)]
  /\ UNCHANGED <<frameVars, eventCursor, runs, manager, scheduled, baselines, counts>>

(* The first poll that sees a frame runs nothing. *)
PollFirst(l) ==
  /\ loops[l].pc = "first"
  /\ eventCursor' = loops[l].seen /\ baselines' = baselines \cup {loops[l].seen}
  /\ loops' = [loops EXCEPT ![l] = AfterPoll(l)]
  /\ UNCHANGED <<frameVars, runs, runners, manager, scheduled, counts>>

PollFails(l) ==
  /\ loops[l].pc \notin {"off", "idle"} /\ TaskTrouble("storage")
  /\ loops' = [loops EXCEPT ![l] = AfterPoll(l)]
  /\ UNCHANGED <<frameVars, eventCursor, runs, runners, manager, scheduled, baselines>>

PollStep(l) ==
  PollSchedule(l) \/ PollDue(l) \/ PollFrames(l) \/ PollCursor(l) \/ PollFirst(l)

-----------------------------------------------------------------------------
(* A task: run_background, or automation_run_now. *)

RunnerAt(t, pc) == runners[t].pc = pc
Goes(t, pc)     == runners' = [runners EXCEPT ![t].pc = pc]
Ends(t)         == runners' = [runners EXCEPT ![t] = NoRun]
OwnRow(t)       == runs[runners[t].row]
Becomes(t, status) == runs' = [runs EXCEPT ![runners[t].row].status = status]

(* The permit is held from here to the end of the run, backoff included, and *)
(* given back before the cursor is set.                                     *)
Holding == {t \in Runners : runners[t].pc \notin {"none", "wait", "advance", "cancel"}}

RunNow ==
  /\ Other /\ manuals' = manuals + 1
  /\ SpawnRun("manual", 0)
  /\ UNCHANGED <<frameVars, eventCursor, runs, loopVars, changed, troubles>>

Permit(t) ==
  /\ RunnerAt(t, "wait") /\ Cardinality(Holding) < Permits
  /\ Goes(t, "check")
  /\ UNCHANGED <<frameVars, eventCursor, runs, loopVars, counts>>

(* Failures count as well. *)
KnownAtAll(frame) == \E i \in DOMAIN runs : runs[i].frame = frame

(* enqueue looks for a row with the key that is not a failure. *)
KnownRow(frame) ==
  \E i \in DOMAIN runs : /\ runs[i].frame = frame
                         /\ runs[i].status \in {"queued", "running", "retrying", "succeeded"}

Check(t) ==
  /\ RunnerAt(t, "check")
  /\ IF runners[t].frame # 0 /\ KnownRow(runners[t].frame) THEN Ends(t) ELSE Goes(t, "insert")
  /\ UNCHANGED <<frameVars, eventCursor, runs, loopVars, counts>>

Insert(t) ==
  /\ RunnerAt(t, "insert")
  /\ runs' = Append(runs, [kind |-> runners[t].kind, frame |-> runners[t].frame,
                           status |-> "queued", attempt |-> runners[t].attempt])
  /\ runners' = [runners EXCEPT ![t].pc = "resolve", ![t].row = Len(runs')]
  /\ UNCHANGED <<frameVars, eventCursor, loopVars, counts>>

Resolve(t) ==
  /\ RunnerAt(t, "resolve") /\ Goes(t, "start")
  /\ UNCHANGED <<frameVars, eventCursor, runs, loopVars, counts>>

(* No provider: the task ends, and its row stays queued. *)
ResolveFails(t) ==
  /\ RunnerAt(t, "resolve") /\ TaskTrouble("resolve") /\ Ends(t)
  /\ UNCHANGED <<frameVars, eventCursor, runs, loopVars>>

Start(t) ==
  /\ RunnerAt(t, "start") /\ Becomes(t, "running") /\ Goes(t, "run")
  /\ UNCHANGED <<frameVars, eventCursor, loopVars, counts>>

(* The index automation_success_event refuses a second success of one key:   *)
(* the row stays running.                                                   *)
SuccessTaken(t) ==
  /\ runners[t].frame # 0
  /\ \E i \in DOMAIN runs : runs[i].frame = runners[t].frame /\ runs[i].status = "succeeded"

Succeed(t) ==
  /\ RunnerAt(t, "run")
  /\ IF SuccessTaken(t)
     THEN Ends(t) /\ UNCHANGED runs
     ELSE Becomes(t, "succeeded") /\ Goes(t, "files")
  /\ UNCHANGED <<frameVars, eventCursor, loopVars, counts>>

(* A failure that may pass is tried again with a new row, after a pause. *)
Fail(t) ==
  /\ RunnerAt(t, "run") /\ Becomes(t, "failed")
  /\ \/ /\ TaskTrouble("provider")
        /\ IF runners[t].kind # "manual" /\ runners[t].attempt < MaxAttempts
           THEN Goes(t, "backoff") ELSE Ends(t)
     \/ TaskTrouble("permanent") /\ Ends(t)
  /\ UNCHANGED <<frameVars, eventCursor, loopVars>>

Backoff(t) ==
  /\ RunnerAt(t, "backoff")
  /\ runners' = [runners EXCEPT ![t].pc = "check", ![t].attempt = @ + 1]
  /\ UNCHANGED <<frameVars, eventCursor, runs, loopVars, counts>>

(* discover_artifacts ends the run. *)
Files(t) ==
  /\ RunnerAt(t, "files")
  /\ IF runners[t].kind = "event" THEN Goes(t, "advance") ELSE Ends(t)
  /\ UNCHANGED <<frameVars, eventCursor, runs, loopVars, counts>>

AdvanceCursor(t) ==
  /\ RunnerAt(t, "advance") /\ eventCursor' = runners[t].frame /\ Ends(t)
  /\ UNCHANGED <<frameVars, runs, loopVars, counts>>

(* A statement or a look at the files fails: the row stays as it is. *)
StorageFails(t) ==
  /\ runners[t].pc \in {"check", "insert", "start", "run", "files", "advance", "cancel"}
  /\ TaskTrouble("storage") /\ Ends(t)
  /\ UNCHANGED <<frameVars, eventCursor, runs, loopVars>>

(* automation_cancel: the handle is registered once the task is spawned, and *)
(* only runs the user has asked for have one.                               *)
Cancel(t) ==
  /\ runners[t].kind = "manual" /\ runners[t].pc \in {"start", "run", "files"}
  /\ Goes(t, "cancel")
  /\ UNCHANGED <<frameVars, eventCursor, runs, loopVars, counts>>

RecordCancel(t) ==
  /\ RunnerAt(t, "cancel") /\ Ends(t)
  /\ IF OwnRow(t).status \in {"queued", "running", "retrying"}
     THEN Becomes(t, "cancelled") ELSE UNCHANGED runs
  /\ UNCHANGED <<frameVars, eventCursor, loopVars, counts>>

TaskStep(t) ==
  \/ Permit(t) \/ Check(t) \/ Insert(t) \/ Resolve(t) \/ Start(t) \/ Succeed(t)
  \/ Backoff(t) \/ Files(t) \/ AdvanceCursor(t) \/ RecordCancel(t)

(* The app ends and starts again.  Nothing takes up the rows. *)
AppCrash ==
  /\ TaskTrouble("crash")
  /\ runners' = [t \in Runners |-> NoRun]
  /\ loops' = [l \in Loops |-> Off] /\ manager' = NoLoop
  /\ UNCHANGED <<frameVars, eventCursor, runs, scheduled, baselines>>

AutomationNext ==
  \/ FrameStored \/ FramesDeleted \/ HourPasses
  \/ \E l \in Loops : StartManager(l) \/ PollStep(l) \/ PollFails(l)
  \/ StopManager
  \/ RunNow
  \/ \E t \in Runners :
       TaskStep(t) \/ ResolveFails(t) \/ Fail(t) \/ StorageFails(t) \/ Cancel(t)
  \/ AppCrash

AutomationSpec == AutomationInit /\ [][AutomationNext]_automationVars

(* The manager polls for as long as it is on; a task goes on when it can,    *)
(* and the semaphore serves its waiters in order.                           *)
AutomationFairness ==
  /\ \A l \in Loops : WF_automationVars(PollStep(l))
  /\ \A t \in Runners : WF_automationVars(TaskStep(t))

AutomationFairSpec == AutomationSpec /\ AutomationFairness

-----------------------------------------------------------------------------
(* Properties. *)

Delivered(frame) == \E i \in DOMAIN runs : runs[i].frame = frame /\ runs[i].status = "succeeded"

(* The cursor of the events stands at a frame whose run has succeeded, or    *)
(* where it was before anything was to be run, whatever task, retry, second  *)
(* manager or restart sets it: the newest frame of a poll is not taken for   *)
(* done before its run is.  (Of the frames between two polls only the newest *)
(* has a run at all.)                                                       *)
CursorMeansDone == eventCursor # 0 => eventCursor \in baselines \/ Delivered(eventCursor)

(* A row of the frame reads queued or running and no task is at work on it:  *)
(* a trouble, or the end of the app, left it so, and KnownRow finds it at    *)
(* every later poll.                                                        *)
Dangling(frame) ==
  \E i \in DOMAIN runs : /\ runs[i].frame = frame /\ runs[i].status \in {"queued", "running"}
                         /\ \A t \in Runners : runners[t].row # i

LeftBehind ==
  /\ manager # NoLoop /\ eventCursor # 0
  /\ newest \notin baselines \cup {0} /\ ~Delivered(newest) /\ ~Dangling(newest)

(* lib.rs:688: "a failed delivery must remain retryable".  Whenever the      *)
(* frames come to rest while a manager polls, the newest one has had its run *)
(* in the end, through failures of the provider, of statements, of a poll,   *)
(* deletions of frames and restarts of the app; but for a frame whose row    *)
(* was left dangling, which is not run again.                               *)
EveryEventDelivered == []<>~LeftBehind
=============================================================================
