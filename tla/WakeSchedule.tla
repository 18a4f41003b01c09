---------------------------- MODULE WakeSchedule ----------------------------
(***************************************************************************)
(* When the Steward is woken: WakePolicy of                                *)
(* crates/dystil-insights/src/scheduler.rs, maybe_steward of               *)
(* apps/dystil/src-tauri/src/worth_fixing_engine.rs, which a tick of the   *)
(* engine ends with, and the refresh command; over the tables observations,*)
(* inference_jobs and wake_starts of crates/dystil-insights/src/store.rs.  *)
(*                                                                         *)
(* What a wake does to its job, step by step, is the business of module    *)
(* StewardJobs; here it takes what is pending and ends in one of its ways. *)
(* Time passes in steps of the interval between two ticks.  A day of the   *)
(* user has DayLength of them.  The app may be closed, without a provider  *)
(* or on battery saver at any of them: then no tick comes, or one that     *)
(* decides to do nothing.                                                  *)
(***************************************************************************)
EXTENDS Integers

CONSTANTS
  DayLength,            \* steps of a day
  Evening,              \* the step from which on local_now.hour() >= 20
  ObservationThreshold, EpisodeThreshold, NormalInterval,   \* 12, 2, 30 minutes
  BurstThreshold, BurstInterval,                            \* 40, 10 minutes
  DeadlineThreshold, MaxPendingAge,                         \* 3, 90 minutes
  MaxUnowned,           \* bound: pending observations at a time
  MaxWakeFailures       \* bound: failed statements and calls, ends of the app

ASSUME WakeAssumption ==
  /\ DayLength \in Nat /\ Evening \in 1 .. DayLength - 1
  /\ {ObservationThreshold, EpisodeThreshold, NormalInterval, BurstThreshold,
      BurstInterval, DeadlineThreshold, MaxPendingAge, MaxUnowned} \subseteq Nat \ {0}
  /\ MaxWakeFailures \in Nat

VARIABLES
  dayTime,        \* the time of the local day
  flushed,        \* wake_starts has an end_of_day row of this day
  unowned,        \* PendingObservationStats.count ...
  episodes,       \* ... episode_groups ...
  oldestAge,      \* ... and how long ago oldest_admitted_at is
  sinceAccepted,  \* how long ago last_successful_steward_wake_at is, or Never
  unfinished,     \* recoverable_job has a job
  ticking,        \* where the tick's maybe_steward is
  reason,         \* the WakeReason it has decided on
  sameDay,        \* the local_day it has read is still today
  wakeFailures

timeVars  == <<dayTime, flushed>>
pendingVars == <<unowned, episodes, oldestAge, sinceAccepted, unfinished>>
tickVars  == <<ticking, reason, sameDay>>
wakeVars  == <<timeVars, pendingVars, tickVars, wakeFailures>>

Never   == -1
Reasons == {"recovery", "end_of_day", "observation_burst", "pending_deadline",
            "observation_volume"}

(* Ages are told apart up to the longest interval of the policy. *)
AgeLimit ==
  CHOOSE n \in {NormalInterval, BurstInterval, MaxPendingAge} :
    \A m \in {NormalInterval, BurstInterval, MaxPendingAge} : m <= n

Older(age) == IF age \in 0 .. AgeLimit - 1 THEN age + 1 ELSE age

EndTick == ticking' = "idle" /\ reason' = "none" /\ sameDay' = TRUE

WakeTrouble == wakeFailures < MaxWakeFailures /\ wakeFailures' = wakeFailures + 1

WakeInit ==
  /\ dayTime = 0 /\ flushed = FALSE
  /\ unowned = 0 /\ episodes = 0 /\ oldestAge = 0
  /\ sinceAccepted = Never /\ unfinished = FALSE
  /\ ticking = "idle" /\ reason = "none" /\ sameDay = TRUE
  /\ wakeFailures = 0

-----------------------------------------------------------------------------
(* The Explorer admits an observation.  By when it occurred it is of an     *)
(* episode of its own, of one that is there, or it joins two of them.       *)
AdmitObservation ==
  /\ unowned < MaxUnowned /\ unowned' = unowned + 1
  /\ episodes' \in {episodes - 1, episodes, episodes + 1} \cap (1 .. unowned + 1)
  /\ oldestAge' = IF unowned = 0 THEN 0 ELSE oldestAge
  /\ UNCHANGED <<timeVars, sinceAccepted, unfinished, tickVars, wakeFailures>>

(* The table of starts is read without its day. *)
TimePassesForgetfully ==
  /\ dayTime' = (dayTime + 1) % DayLength
  /\ oldestAge' = IF unowned = 0 THEN 0 ELSE Older(oldestAge)
  /\ sinceAccepted' = Older(sinceAccepted)
  /\ sameDay' = (sameDay /\ (dayTime' # 0 \/ ticking = "idle"))
  /\ UNCHANGED <<flushed, unowned, episodes, unfinished, ticking, reason, wakeFailures>>

(* Time passes; at midnight another local_day begins, of which wake_starts  *)
(* has no row.                                                              *)
TimePasses ==
  /\ dayTime' = (dayTime + 1) % DayLength
  /\ flushed' = (flushed /\ dayTime' # 0)
  /\ oldestAge' = IF unowned = 0 THEN 0 ELSE Older(oldestAge)
  /\ sinceAccepted' = Older(sinceAccepted)
  /\ sameDay' = (sameDay /\ (dayTime' # 0 \/ ticking = "idle"))
  /\ UNCHANGED <<unowned, episodes, unfinished, ticking, reason, wakeFailures>>

-----------------------------------------------------------------------------
(* Minutes since the last accepted wake, or the age of the oldest pending    *)
(* observation when there was none.                                         *)
SinceLastWake == IF sinceAccepted = Never THEN oldestAge ELSE sinceAccepted

EndOfActiveDay == dayTime >= Evening /\ ~flushed

(* The tests of WakePolicy::decide behind the recovery, in its order.       *)
Volumes ==
  << <<"end_of_day", EndOfActiveDay>>,
     <<"observation_burst", /\ unowned >= BurstThreshold
                            /\ SinceLastWake >= BurstInterval>>,
     <<"pending_deadline", /\ unowned >= DeadlineThreshold
                           /\ oldestAge >= MaxPendingAge>>,
     <<"observation_volume", /\ unowned >= ObservationThreshold
                             /\ episodes >= EpisodeThreshold
                             /\ SinceLastWake >= NormalInterval>> >>

(* r is what decide answers: an unfinished job comes before everything, and  *)
(* the rest needs a provider, no battery saver and something pending.       *)
Decides(r, ready, permitted) ==
  IF unfinished THEN r = "recovery"
  ELSE /\ ready /\ permitted /\ unowned > 0
       /\ \E i \in DOMAIN Volumes : /\ Volumes[i] = <<r, TRUE>>
                                    /\ \A j \in 1 .. i - 1 : ~Volumes[j][2]

(* maybe_steward reads its state and goes on when the policy has a reason.  *)
Tick(ready, permitted) ==
  /\ ticking = "idle"
  /\ \E r \in Reasons : Decides(r, ready, permitted) /\ reason' = r
  /\ ticking' = "start"
  /\ UNCHANGED <<timeVars, pendingVars, sameDay, wakeFailures>>

(* The provider cannot be resolved, or record_wake_start fails. *)
StartFails ==
  /\ ticking = "start" /\ WakeTrouble
  /\ EndTick
  /\ UNCHANGED <<timeVars, pendingVars>>

(* record_wake_start, with the day and the reason the tick has read. *)
RecordWakeStart ==
  /\ ticking = "start"
  /\ flushed' = (flushed \/ (reason = "end_of_day" /\ sameDay))
  /\ ticking' = "wake" /\ reason' = "none" /\ sameDay' = TRUE
  /\ UNCHANGED <<dayTime, pendingVars, wakeFailures>>

(* run_steward_wake resumes the unfinished job, or makes one of what is      *)
(* pending.  It is accepted, or rejected, or the call fails and the job      *)
(* stays to be recovered.  With nothing to do it returns.                   *)
WakeRuns ==
  \/ /\ ~unfinished /\ unowned = 0
     /\ UNCHANGED <<pendingVars, wakeFailures>>
  \/ /\ unfinished \/ unowned > 0
     /\ IF unfinished
        THEN UNCHANGED <<unowned, episodes, oldestAge>>
        ELSE unowned' = 0 /\ episodes' = 0 /\ oldestAge' = 0
     /\ \/ unfinished' = FALSE /\ sinceAccepted' = 0 /\ UNCHANGED wakeFailures
        \/ unfinished' = FALSE /\ UNCHANGED <<sinceAccepted, wakeFailures>>
        \/ unfinished' = TRUE /\ WakeTrouble /\ UNCHANGED sinceAccepted

RunWake ==
  /\ ticking = "wake"
  /\ WakeRuns
  /\ EndTick
  /\ UNCHANGED timeVars

(* It fails before it has made its job. *)
WakeFailsEarly ==
  /\ ticking = "wake" /\ WakeTrouble
  /\ EndTick
  /\ UNCHANGED <<timeVars, pendingVars>>

-----------------------------------------------------------------------------
(* refresh_worth_fixing: no threshold, but something must be pending.  Its   *)
(* start is recorded as explicit_request, which no query asks for.          *)
Refresh ==
  /\ unowned > 0
  /\ WakeRuns
  /\ UNCHANGED <<timeVars, tickVars>>

(* delete_all_insights_data empties the tables, wake_starts among them. *)
DeleteEverything ==
  /\ flushed' = FALSE
  /\ unowned' = 0 /\ episodes' = 0 /\ oldestAge' = 0
  /\ sinceAccepted' = Never /\ unfinished' = FALSE
  /\ UNCHANGED <<dayTime, tickVars, wakeFailures>>

(* The app ends while a tick is at work, and starts again. *)
AppEnds ==
  /\ ticking # "idle" /\ WakeTrouble
  /\ EndTick
  /\ UNCHANGED <<timeVars, pendingVars>>

WakeStep == RecordWakeStart \/ RunWake

WakeNext ==
  \/ AdmitObservation \/ TimePasses
  \/ \E ready, permitted \in BOOLEAN : Tick(ready, permitted)
  \/ StartFails \/ WakeStep \/ WakeFailsEarly
  \/ Refresh \/ DeleteEverything \/ AppEnds

(* On an evening the app is open, with its provider and on power. *)
EveningTick == dayTime >= Evening /\ Tick(TRUE, TRUE)

(* Time passes, a tick that has begun goes on, and now and then the user     *)
(* has the app open in the evening.                                         *)
WakeSpec ==
  /\ WakeInit /\ [][WakeNext]_wakeVars
  /\ WF_wakeVars(TimePasses) /\ WF_wakeVars(WakeStep)
  /\ SF_wakeVars(EveningTick)

-----------------------------------------------------------------------------
(* No observation waits for ever, be they ever so few: what the comment on   *)
(* WakePolicy promises of sparse work.  It is the end-of-day flush that      *)
(* keeps it, not the deadline, which asks for three of them; and the start   *)
(* of a flush is recorded before it has run, so that one that fails is made  *)
(* up for only on another evening.                                          *)
SparseWorkIsTaken == []<>(unowned = 0)
=============================================================================
