---------------------------- MODULE MC_Liveness ----------------------------
(***************************************************************************)
(* What must eventually happen, in the components whose scheduling says    *)
(* so.  They share no state: a behaviour is a behaviour of one of them,    *)
(* chosen at the start, and the others rest.                               *)
(***************************************************************************)
EXTENDS AskForFix, AskWatches, WakeSchedule

CONSTANTS
  Workers, Background, Contexts, NoPacket, ObservationLimit, MaxObservations,
  MaxFaults, MaxRefreshes, MaxWipes,
  Rows, Opportunities, RefLimit, MaxVersions, Disturbances, MaxDisturbances,
  Ticks, Frame, Event, Texts, NoRow, NoBatch, PageLimit, BatchLimit, Lag, MaxRows,
  WipeAtRest,
  Kinds, Windows, Pages, MaxText, Monitors, CacheLimit, BatchSize, BusSize,
  MailSize, MaxEvents, MaxSlips, MaxSessions,
  SettleLag, ChunkSize, MaxTime, MaxMishaps, MaxHour,
  Calls, Timers, NoTask, Asked, MaxBegun, MaxFailures,
  Runners, Loops, NoLoop, Permits, MaxAttempts, MaxTaken, MaxOthers, MaxChanges,
  TaskTroubles, MaxTaskTroubles,
  MaxRequests, MailPage, TakeLimit, MailTroubles, MaxMailTroubles

VARIABLES
  part,
  observations, lastSequence, status, log, reconciled, cursor, pc, packet,
  repair, number, faults, refreshes, wipes,
  present, excluded, rewritten, evidence, consumed, versions, active, disposed,
  tick, user, forget, stranded, disturbed,
  captureRows, live, cursors, compaction, batchJobs, doomed, points, local, errors, erasures,
  recording, kindOf, recorder, bus, lane, frames, remembered, seen, stored, link,
  mailbox, waiting, slips,
  clock, captured, syncState, pending, cloud, bare, pass, blind, mishaps,
  settings, allowed, server, capture, capturing, holder, begins, booting, handle, dialogs,
  hour, agreed, contended, begun, failed,
  newest, taken, clockHour, scheduled, eventCursor, baselines, runs, runners, loops, manager,
  manuals, changed, troubles,
  sent, answered, mailCursor, mails, wiped, fetch, mailer, queue, mailTroubles

Steward == INSTANCE StewardJobs
Cards   == INSTANCE Findings WITH cursor <- consumed
Explorer == INSTANCE ExplorerBatches WITH
  rows <- captureRows, cursor <- cursors, jobs <- batchJobs, pc <- points,
  faults <- errors, wipes <- erasures
Links    == INSTANCE EventLinks
Segments == INSTANCE SegmentSync
Switch == INSTANCE RecordingSwitch WITH active <- capturing, points <- dialogs
Automations == INSTANCE AutomationRuns
Mailbox == INSTANCE AgentMailbox WITH
  local <- mails, pc <- mailer, PageLimit <- MailPage

stewardVars == <<observations, lastSequence, status, log, reconciled, cursor, pc,
                 packet, repair, number, faults, refreshes, wipes>>
cardsVars   == <<present, excluded, rewritten, evidence, consumed, versions,
                 active, disposed, tick, user, forget, stranded, disturbed>>
explorerVars == <<captureRows, live, doomed, cursors, compaction, batchJobs, points, local,
                  errors, erasures>>
linksVars    == <<recording, kindOf, recorder, bus, lane, frames, remembered, seen,
                  stored, link, mailbox, waiting, slips>>
segmentsVars == <<clock, captured, syncState, pending, cloud, bare, pass, blind, mishaps>>
switchVars == <<settings, allowed, server, capture, capturing, holder, begins, booting, handle,
                dialogs, hour, agreed, contended, begun, failed>>
automationVars == <<newest, taken, clockHour, scheduled, eventCursor, baselines, runs, runners,
                    loops, manager, manuals, changed, troubles>>
mailboxVars == <<sent, answered, mailCursor, mails, wiped, fetch, mailer, queue, mailTroubles>>
liveVars == <<part, askVars, watchVars, wakeVars, stewardVars, cardsVars, explorerVars, linksVars,
              segmentsVars, switchVars, automationVars, mailboxVars>>

LiveInit ==
  /\ part \in {"ask", "watches", "steward", "cards", "explorer", "links",
              "segments", "switch", "automations", "mailbox", "wakes"}
  /\ AskInit /\ WatchInit /\ WakeInit /\ Steward!Init /\ Cards!Init /\ Explorer!Init
  /\ Links!EventInit /\ Segments!SegmentInit
  /\ Switch!SwitchInit /\ Automations!AutomationInit /\ Mailbox!MailboxInit

(* Bound: no review of a watch; the watches have a part of their own. *)
AskBound == \A r \in AskRuns : askRuns'[r].command # "review"

(* Bound: a refresh beside the background wake over one observation, or the *)
(* background wake alone over a backlog of two.                             *)
StewardBound == lastSequence' + refreshes' <= MaxObservations

LiveNext ==
  /\ UNCHANGED part
  /\ \/ part = "ask"      /\ AskNext /\ AskBound
     \/ part # "ask"      /\ UNCHANGED askVars
  /\ \/ part = "watches"  /\ WatchNext
     \/ part # "watches"  /\ UNCHANGED watchVars
  /\ \/ part = "wakes"    /\ WakeNext
     \/ part # "wakes"    /\ UNCHANGED wakeVars
  /\ \/ part = "steward"  /\ Steward!Next /\ StewardBound
     \/ part # "steward"  /\ UNCHANGED stewardVars
  /\ \/ part = "cards"    /\ Cards!Next
     \/ part # "cards"    /\ UNCHANGED cardsVars
  /\ \/ part = "explorer" /\ Explorer!Next
     \/ part # "explorer" /\ UNCHANGED explorerVars
  /\ \/ part = "links"    /\ Links!EventNext
     \/ part # "links"    /\ UNCHANGED linksVars
  /\ \/ part = "segments" /\ Segments!SegmentNext
     \/ part # "segments" /\ UNCHANGED segmentsVars
  /\ \/ part = "switch"   /\ Switch!SwitchNext
     \/ part # "switch"   /\ UNCHANGED switchVars
  /\ \/ part = "automations" /\ Automations!AutomationNext
     \/ part # "automations" /\ UNCHANGED automationVars
  /\ \/ part = "mailbox"  /\ Mailbox!MailboxNext
     \/ part # "mailbox"  /\ UNCHANGED mailboxVars

partVars ==
  CASE part = "ask"      -> askVars
    [] part = "watches"  -> watchVars
    [] part = "wakes"    -> wakeVars
    [] part = "steward"  -> stewardVars
    [] part = "cards"    -> cardsVars
    [] part = "explorer" -> explorerVars
    [] part = "links"    -> linksVars
    [] part = "segments" -> segmentsVars
    [] part = "switch"   -> switchVars
    [] part = "automations" -> automationVars
    [] part = "mailbox"  -> mailboxVars

(* What is scheduled fairly.  The part never changes, so that fairness of    *)
(* the first step is fairness of the step of the part at work; the next     *)
(* ones are of the parts with more than one.                                *)
FirstStep ==
  /\ UNCHANGED part
  /\ \/ part = "ask"      /\ \E r \in AskRuns : RunStep(r)
     \/ part = "watches"  /\ CollectStep
     \/ part = "wakes"    /\ TimePasses
     \/ part = "steward"  /\ (Steward!TickWake \/ Steward!Advance(Background))
     \/ part = "cards"    /\ Cards!Tick
     \/ part = "explorer" /\ \E w \in Ticks : Explorer!Advance(w)
     \/ part = "links"    /\ Links!RecorderStep
     \/ part = "segments" /\ Segments!TimePasses
     \/ part = "switch"   /\ Switch!ClockTicks
     \/ part = "automations" /\ \E l \in Loops : Automations!PollStep(l)
     \/ part = "mailbox"  /\ Mailbox!WorkerStep

ARunner == CHOOSE t \in Runners : TRUE

(* The steps of a sync pass exclude one another, so that fairness of any    *)
(* one of them is fairness of each.                                         *)
SegmentStep ==
  \/ Segments!UploadStep
  \/ Segments!ClearStructure
  \/ Segments!Acknowledge
  \/ Segments!PassEnds

SecondStep ==
  /\ UNCHANGED part
  /\ \/ part = "wakes"    /\ WakeStep
     \/ part = "cards"    /\ Cards!Deletion
     \/ part = "steward"  /\ \E w \in Workers \ {Background} : Steward!Advance(w)
     \/ part = "links"    /\ Links!LaneStep
     \/ part = "segments" /\ SegmentStep
     \/ part = "automations" /\ Automations!TaskStep(ARunner)
     \/ part = "switch"   /\ \E t \in Calls \cup Timers : Switch!Advance(t)

ThirdStep ==
  /\ UNCHANGED part
  /\ \/ part = "links"    /\ Links!Links
     \/ part = "automations" /\ \E t \in Runners \ {ARunner} : Automations!TaskStep(t)

FourthStep ==
  /\ UNCHANGED part
  /\ part = "links" /\ Links!StopStep

(* What must not be put off for ever although it is not always possible. *)
InTheEnd ==
  /\ UNCHANGED part
  /\ \/ part = "wakes"    /\ EveningTick
     \/ part = "segments" /\ Segments!Gather(TRUE, TRUE)

(* Each component is scheduled as its own specification says, or less. *)
LiveSpec ==
  /\ LiveInit /\ [][LiveNext]_liveVars
  /\ WF_partVars(FirstStep) /\ WF_partVars(SecondStep)
  /\ WF_partVars(ThirdStep) /\ WF_partVars(FourthStep)
  /\ SF_partVars(InTheEnd)

(* In the behaviours of another part each holds from the start. *)
EveryObservationSettles == Steward!EveryObservationSettles
GoneRowsAreDeleted == Cards!GoneRowsAreDeleted
ExclusionsReachCards == Cards!ExclusionsReachCards
EveryRowConsumed == Explorer!EveryRowConsumed
HeardEventsAreLinked == Links!HeardEventsAreLinked
EverythingReachesTheCloud == Segments!EverythingReachesTheCloud
PauseEnds == Switch!PauseEnds
EveryEventDelivered == Automations!EveryEventDelivered
EveryRequestAnswered == Mailbox!EveryRequestAnswered
=============================================================================
