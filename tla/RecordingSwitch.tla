--------------------------- MODULE RecordingSwitch ---------------------------
(***************************************************************************)
(* Who turns recording on and off (apps/dystil/src-tauri/src/recording.rs).*)
(* The user pauses until a deadline and a timer resumes, or the user does; *)
(* a change of the settings and a deletion restart a session that runs     *)
(* (commands.rs, deletion.rs); a change of the policy starts or stops one  *)
(* (app_policy.rs); and the start of the app starts the runtime and the    *)
(* first session, unless a pause is still to be kept (main.rs).            *)
(*                                                                         *)
(* All of these are tasks that may overlap.  They share the settings file, *)
(* which every command reads and saves as a whole, a mutex around the      *)
(* session, three flags and the handle of the pause timer.                 *)
(***************************************************************************)
EXTENDS Integers

CONSTANTS
  Calls,       \* bound: commands at work at once
  Timers,      \* bound: pause timers at once, asleep or resuming
  NoTask,
  Asked,       \* bound: which kinds of command are given
  MaxHour,     \* bound: the clock
  MaxBegun,    \* bound: commands given
  MaxFailures  \* bound: failed starts and saves, and crashes

CommandKinds == {"pause", "resume", "settings", "download", "wipe", "policy", "boot"}

ASSUME SwitchAssumption ==
  /\ Calls \cap Timers = {} /\ NoTask \notin Calls \cup Timers
  /\ {MaxHour, MaxBegun, MaxFailures} \subseteq Nat
  /\ Asked \subseteq CommandKinds \ {"boot"}

Tasks == Calls \cup Timers

VARIABLES
  settings,   \* capture_paused and capture_pause_until of the settings file
  allowed,    \* whether the policy has capture enabled
  server,     \* RecordingState::server is Some
  capture,    \* RecordingState::capture is Some
  active,     \* capture_active
  holder,     \* who holds the mutex around the session
  begins,     \* is_starting_capture
  booting,    \* is_starting
  handle,     \* PAUSE_TIMER
  points,     \* where each task is, and its locals
  hour,       \* the clock
  agreed,     \* history: until when the user was told that recording is paused
  contended,  \* history: another task was at work beside a command to pause
  begun, failed

switchVars == <<settings, allowed, server, capture, active, holder, begins, booting,
                handle, points, hour, agreed, contended, begun, failed>>
flags      == <<holder, begins, booting>>
history    == <<hour, agreed, contended, begun, failed>>

Recording == [paused |-> FALSE, until |-> 0]
PausedUntil(time) == [paused |-> TRUE, until |-> time]

(* A task: its copy of the settings, what it has read, and which flag it has *)
(* to give back when its start ends.                                        *)
Vacant == [kind |-> "none", pc |-> "none", copy |-> Recording, was |-> FALSE,
           gate |-> "starting"]

Asleep(time) == [Vacant EXCEPT !.kind = "timer", !.pc = "sleep",
                               !.copy = PausedUntil(time)]

TaskAt(t, pc) == points[t].pc = pc
Busy(t)   == points[t].pc \notin {"none", "sleep"}
Pausing   == \E t \in Tasks : Busy(t) /\ points[t].kind = "pause"
Go(t, pc) == [points EXCEPT ![t].pc = pc]
Ended(t)  == [points EXCEPT ![t] = Vacant]

SwitchInit ==
  /\ settings = Recording /\ allowed = TRUE
  /\ server = TRUE /\ capture = TRUE /\ active = TRUE
  /\ holder = NoTask /\ begins = FALSE /\ booting = FALSE
  /\ handle = NoTask /\ points = [t \in Tasks |-> Vacant]
  /\ hour = 0 /\ agreed = 0 /\ contended = FALSE /\ begun = 0 /\ failed = 0

InForce == agreed > hour   \* the user was told that recording is paused, and until when

Failure == failed < MaxFailures /\ failed' = failed + 1

-----------------------------------------------------------------------------
(* The pause timer. *)

(* cancel_pause_timer: only a timer that still sleeps can be aborted, one    *)
(* that has woken took its handle away.                                     *)
Cancelled ==
  IF handle = NoTask THEN points ELSE [points EXCEPT ![handle] = Vacant]

(* The timer is not cancelled first. *)
ScheduleAnother(t, time) ==
  \E n \in Timers :
    /\ n = t \/ TaskAt(n, "none")
    /\ points' = [[points EXCEPT ![t] = Vacant] EXCEPT ![n] = Asleep(time)]
    /\ handle' = n

(* schedule_pause_resume, at the end of task t. *)
Schedule(t, time) ==
  \E n \in Timers :
    /\ n = t \/ TaskAt(n, "none") \/ n = handle
    /\ points' = [[Cancelled EXCEPT ![t] = Vacant] EXCEPT ![n] = Asleep(time)]
    /\ handle' = n

Wake(t) ==
  /\ t \in Timers /\ TaskAt(t, "sleep") /\ points[t].copy.until =< hour
  /\ points' = Go(t, "runtime") /\ handle' = NoTask
  /\ contended' = (contended \/ Pausing)
  /\ UNCHANGED <<settings, allowed, server, capture, active, flags, hour, agreed,
                 begun, failed>>

-----------------------------------------------------------------------------
(* How a start ends. *)

(* What follows when capture runs, or another start is under way. *)
Started(t) ==
  IF points[t].kind \in {"resume", "timer"} THEN Go(t, "clear") ELSE Ended(t)

(* What follows when it could not be started: a timer tries again, a change  *)
(* of the settings is taken back once.                                      *)
NotStarted(t) ==
  CASE points[t].kind = "timer" -> Go(t, "retry")
    [] points[t].kind \in {"settings", "download"} /\ points[t].was -> Go(t, "rollback")
    [] OTHER -> Ended(t)

(* stop_capture: waits for the mutex, and the session is taken out. *)
StopsFor(t, then) ==
  /\ holder = NoTask
  /\ capture' = FALSE /\ active' = FALSE
  /\ then
  /\ UNCHANGED <<settings, allowed, server, flags>>

-----------------------------------------------------------------------------
(* start_capture, and spawn_capture where there is no runtime. *)

(* resume_capture_from_pause_inner: which of the two. *)
ChooseStart(t) ==
  /\ TaskAt(t, "runtime")
  /\ points' = Go(t, IF server THEN "start" ELSE "spawn")
  /\ UNCHANGED <<settings, allowed, server, capture, active, flags, handle, history>>

(* A second start beside one in progress returns at once, as if it were done.*)
StartOnce(t) ==
  /\ TaskAt(t, "start")
  /\ IF begins
     THEN points' = Started(t) /\ UNCHANGED begins
     ELSE /\ begins' = TRUE
          /\ points' = [points EXCEPT ![t].pc = "lock", ![t].gate = "starting"]
  /\ UNCHANGED <<settings, allowed, server, capture, active, holder, booting, handle,
                 history>>

Release(gate) ==
  /\ begins' = (begins /\ gate # "starting")
  /\ booting'  = (booting  /\ gate # "booting")

(* Under the mutex: a session is there, or there is no runtime, or one is    *)
(* built while the mutex is held.                                           *)
TakeLock(t) ==
  /\ TaskAt(t, "lock") /\ holder = NoTask
  /\ IF capture
     THEN /\ active' = TRUE /\ Release(points[t].gate) /\ points' = Started(t)
          /\ UNCHANGED holder
     ELSE IF server
     THEN /\ holder' = t /\ points' = Go(t, "build")
          /\ UNCHANGED <<active, begins, booting>>
     ELSE /\ begins' = (begins /\ points[t].gate # "starting")
          /\ points' = NotStarted(t) /\ UNCHANGED <<active, holder, booting>>
  /\ UNCHANGED <<settings, allowed, server, capture, handle, history>>

Build(t) ==
  /\ TaskAt(t, "build")
  /\ capture' = TRUE /\ active' = TRUE /\ holder' = NoTask /\ Release(points[t].gate)
  /\ points' = Started(t)
  /\ UNCHANGED <<settings, allowed, server, handle, history>>

(* The flag of spawn_capture is not given back. *)
CaptureNotBuilt(t) ==
  /\ TaskAt(t, "build") /\ Failure
  /\ holder' = NoTask /\ begins' = (begins /\ points[t].gate # "starting")
  /\ points' = NotStarted(t)
  /\ UNCHANGED <<settings, allowed, server, capture, active, booting, handle, hour,
                 agreed, contended, begun>>

(* spawn_capture.  Nothing ever moves the boot phase from "idle", so that    *)
(* a second call waits thirty seconds and takes over; how far the first one  *)
(* is by then is left open.                                                 *)
Spawn(t) ==
  /\ TaskAt(t, "spawn")
  /\ booting' = TRUE
  /\ IF server
     THEN IF capture
          THEN /\ holder = NoTask /\ points' = Started(t) /\ active' = TRUE
               /\ UNCHANGED capture
          ELSE /\ holder = NoTask
               /\ points' = [points EXCEPT ![t].pc = "lock", ![t].gate = "booting"]
               /\ UNCHANGED <<capture, active>>
     ELSE /\ holder = NoTask /\ capture' = FALSE /\ active' = FALSE
          /\ points' = [points EXCEPT ![t].pc = "boot", ![t].was = FALSE]
  /\ UNCHANGED <<settings, allowed, server, holder, begins, handle, history>>

(* The runtime and a session are built without the mutex; the task of main.rs*)
(* has looked at the pause before, and looks at the policy here.            *)
Boot(t) ==
  /\ TaskAt(t, "boot")
  /\ points' = Go(t, IF points[t].kind = "boot" /\ (points[t].copy.paused \/ ~allowed)
                    THEN "rest" ELSE "publish")
  /\ server' = TRUE
  /\ UNCHANGED <<settings, allowed, capture, active, flags, handle, history>>

(* ServerCore::start failed, or the session after it. *)
BootFails(t) ==
  /\ TaskAt(t, "boot") /\ Failure
  /\ server' \in {server, TRUE}
  /\ booting' = FALSE /\ begins' = (begins /\ points[t].kind = "boot")
  /\ points' = NotStarted(t)
  /\ UNCHANGED <<settings, allowed, capture, active, holder, handle, hour, agreed,
                 contended, begun>>

(* The session replaces whatever is there by then. *)
Publish(t) ==
  /\ TaskAt(t, "publish") /\ holder = NoTask
  /\ capture' = TRUE /\ active' = TRUE
  /\ booting' = (booting /\ points[t].kind # "boot")
  /\ points' = IF points[t].kind = "boot"
              THEN [points EXCEPT ![t].kind = "policy", ![t].pc = "assigned"]
              ELSE Started(t)
  /\ UNCHANGED <<settings, allowed, server, holder, begins, handle, history>>

(* The timer of a pause is not restored at the start of the app. *)
RestUntimed(t) ==
  /\ TaskAt(t, "rest")
  /\ active' = FALSE /\ booting' = FALSE
  /\ points' = [points EXCEPT ![t] = [Vacant EXCEPT !.kind = "policy", !.pc = "assigned"]]
  /\ UNCHANGED <<settings, allowed, server, capture, holder, begins, handle, history>>

(* No session at the start of the app: the timer of the pause is restored, as*)
(* the settings read at the start have it; reconcile_runtime follows.       *)
Rest(t) ==
  /\ TaskAt(t, "rest")
  /\ active' = FALSE /\ booting' = FALSE
  /\ IF points[t].copy.paused
     THEN \E n \in Timers :
            /\ TaskAt(n, "none") \/ n = handle
            /\ points' = [Cancelled EXCEPT
                           ![t] = [Vacant EXCEPT !.kind = "policy", !.pc = "assigned"],
                           ![n] = Asleep(points[t].copy.until)]
            /\ handle' = n
     ELSE /\ points' = [points EXCEPT ![t].kind = "policy", ![t].pc = "assigned"]
          /\ UNCHANGED handle
  /\ UNCHANGED <<settings, allowed, server, capture, holder, begins, history>>

StartStep(t) ==
  \/ ChooseStart(t) \/ StartOnce(t) \/ TakeLock(t) \/ Build(t) \/ CaptureNotBuilt(t)
  \/ Spawn(t) \/ Boot(t) \/ BootFails(t) \/ Publish(t) \/ Rest(t)

-----------------------------------------------------------------------------
(* Commands. *)

(* A command begins; what it reads at once is part of the step. *)
BeginCall(t) ==
  /\ t \in Calls /\ TaskAt(t, "none") /\ begun < MaxBegun
  /\ begun' = begun + 1
  /\ \E kind \in Asked :
       /\ points' = [points EXCEPT ![t] =
            [Vacant EXCEPT
               !.kind = kind, !.copy = settings, !.was = active,
               !.pc = CASE kind = "pause"    -> "save"
                        [] kind = "resume"   -> "cancel"
                        [] kind = "download" -> "download"
                        [] kind = "policy"   -> "assigned"
                        [] kind \in {"settings", "wipe"} ->
                             IF active THEN "stop" ELSE "done"]]
       /\ contended' = IF kind = "pause"
                       THEN \E o \in Tasks : Busy(o)
                       ELSE contended \/ Pausing
       /\ agreed' = IF kind \in {"pause", "resume"} THEN 0 ELSE agreed
       /\ allowed' \in IF kind = "policy" THEN BOOLEAN ELSE {allowed}
  /\ UNCHANGED <<settings, server, capture, active, flags, handle, hour, failed>>

Done(t) ==
  /\ TaskAt(t, "done") /\ points' = Ended(t)
  /\ UNCHANGED <<settings, allowed, server, capture, active, flags, handle, history>>

(* pause_capture_until *)
SavePause(t) ==
  /\ TaskAt(t, "save")
  /\ \E time \in hour + 1 .. MaxHour :
       /\ settings' = PausedUntil(time)
       /\ points' = [points EXCEPT ![t].pc = "stop", ![t].copy = PausedUntil(time)]
  /\ UNCHANGED <<allowed, server, capture, active, flags, handle, history>>

PauseFails(t) ==
  /\ TaskAt(t, "save") /\ (Failure \/ (hour = MaxHour /\ UNCHANGED failed))
  /\ points' = Ended(t)
  /\ UNCHANGED <<settings, allowed, server, capture, active, flags, handle, hour,
                 agreed, contended, begun>>

Stop(t) ==
  /\ TaskAt(t, "stop")
  /\ StopsFor(t, points' = CASE points[t].kind = "pause"  -> Go(t, "schedule")
                            [] points[t].kind = "policy" -> Ended(t)
                            [] OTHER -> Go(t, "start"))
  /\ UNCHANGED <<handle, history>>

(* The user is told. *)
SchedulePause(t) ==
  /\ TaskAt(t, "schedule")
  /\ Schedule(t, points[t].copy.until)
  /\ agreed' = points[t].copy.until
  /\ UNCHANGED <<settings, allowed, server, capture, active, flags, hour, contended,
                 begun, failed>>

(* resume_capture_from_pause *)
CancelTimer(t) ==
  /\ TaskAt(t, "cancel")
  /\ points' = [Cancelled EXCEPT ![t].pc = "runtime"] /\ handle' = NoTask
  /\ UNCHANGED <<settings, allowed, server, capture, active, flags, history>>

ClearPause(t) ==
  /\ TaskAt(t, "clear")
  /\ settings' = Recording /\ points' = Ended(t)
  /\ UNCHANGED <<allowed, server, capture, active, flags, handle, history>>

(* "Do not leave capture running if its persisted pause could not be        *)
(* cleared."                                                                *)
ClearFails(t) ==
  /\ TaskAt(t, "clear") /\ Failure
  /\ points' = Go(t, "undo")
  /\ UNCHANGED <<settings, allowed, server, capture, active, flags, handle, hour,
                 agreed, contended, begun>>

Undo(t) ==
  /\ TaskAt(t, "undo") /\ StopsFor(t, points' = NotStarted(t))
  /\ UNCHANGED <<handle, history>>

(* The timer's resume has failed: again in a minute. *)
RetryPause(t) ==
  /\ TaskAt(t, "retry")
  /\ Schedule(t, IF hour < MaxHour THEN hour + 1 ELSE hour)
  /\ UNCHANGED <<settings, allowed, server, capture, active, flags, history>>

(* set_ai_pii_redaction_enabled: the settings that are saved were read before*)
(* the model was downloaded.                                                *)
SaveOldCopy(t) ==
  /\ TaskAt(t, "download")
  /\ settings' = points[t].copy
  /\ points' = [points EXCEPT ![t].was = active,
                            ![t].pc = IF active THEN "stop" ELSE "done"]
  /\ UNCHANGED <<allowed, server, capture, active, flags, handle, history>>

(* The old settings are saved and the old session started. *)
Rollback(t) ==
  /\ TaskAt(t, "rollback")
  /\ settings' = points[t].copy
  /\ points' = [points EXCEPT ![t].pc = "start", ![t].was = FALSE]
  /\ UNCHANGED <<allowed, server, capture, active, flags, handle, history>>

(* reconcile_runtime: "A policy transition must not override a user-selected *)
(* timed pause."                                                            *)
Reconcile(t) ==
  /\ TaskAt(t, "assigned")
  /\ points' = Go(t, IF ~allowed THEN "stop" ELSE IF settings.paused THEN "done" ELSE "check")
  /\ UNCHANGED <<settings, allowed, server, capture, active, flags, handle, history>>

CheckRuntime(t) ==
  /\ TaskAt(t, "check")
  /\ points' = Go(t, IF server /\ ~active THEN "start" ELSE "done")
  /\ UNCHANGED <<settings, allowed, server, capture, active, flags, handle, history>>

CommandStep(t) ==
  \/ SavePause(t) \/ PauseFails(t) \/ Stop(t) \/ SchedulePause(t) \/ CancelTimer(t)
  \/ ClearPause(t) \/ ClearFails(t) \/ Undo(t) \/ RetryPause(t) \/ SaveOldCopy(t)
  \/ Rollback(t) \/ Reconcile(t) \/ CheckRuntime(t) \/ Done(t)

-----------------------------------------------------------------------------
(* The app ends, or crashes, and starts again: normalize_pause_for_startup   *)
(* keeps a pause whose deadline is still to come.                           *)
Normalized == IF settings.paused /\ settings.until > hour THEN settings ELSE Recording

Relaunch ==
  /\ Failure
  /\ settings' = Normalized
  /\ server' = FALSE /\ capture' = FALSE /\ active' = FALSE
  /\ holder' = NoTask /\ begins' = FALSE /\ booting' = TRUE /\ handle' = NoTask
  /\ \E t \in Calls :
       points' = [o \in Tasks |-> IF o = t THEN [Vacant EXCEPT !.kind = "boot", !.pc = "boot",
                                                           !.copy = Normalized]
                                 ELSE Vacant]
  /\ UNCHANGED <<allowed, hour, agreed, contended, begun>>

ClockTicks ==
  /\ hour < MaxHour /\ hour' = hour + 1
  /\ UNCHANGED <<settings, allowed, server, capture, active, flags, handle, points,
                 agreed, contended, begun, failed>>

Advance(t) == Wake(t) \/ StartStep(t) \/ CommandStep(t)

SwitchNext ==
  \/ \E t \in Tasks : BeginCall(t) \/ Advance(t)
  \/ Relaunch
  \/ ClockTicks

SwitchSpec == SwitchInit /\ [][SwitchNext]_switchVars

(* The runtime polls every task that can move; the mutex serves its waiters  *)
(* in order; time passes.                                                   *)
SwitchFairness ==
  /\ WF_switchVars(ClockTicks)
  /\ \A t \in Tasks : WF_switchVars(Advance(t))

SwitchFairSpec == SwitchSpec /\ SwitchFairness

-----------------------------------------------------------------------------
(* Properties. *)

(* "A paused session stays paused": once the user was told so, nothing is    *)
(* recorded before the deadline or the user's own word, unless another task *)
(* was at work while the command to pause was.                              *)
PauseHolds == InForce /\ ~contended => ~capture

(* A pause ends: the timer takes it up again until capture runs, through     *)
(* failed starts, failed saves and a restart of the app, unless a command   *)
(* has saved an old copy of the settings over it.                           *)
PauseEnds == []<>~settings.paused
=============================================================================
