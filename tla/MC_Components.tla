--------------------------- MODULE MC_Components ---------------------------
(***************************************************************************)
(* One instance for the components that share no state with one another:   *)
(* a behaviour is a behaviour of one of them, chosen at the start, and the *)
(* others rest.                                                            *)
(***************************************************************************)
EXTENDS AskWatches, ArtifactChanges, SkillBundles, EventLinks, SegmentSync, ImageSync,
        RecordingSwitch, AutomationRuns, AgentMailbox, TelemetryConsent

VARIABLE part

ComponentsInit ==
  /\ part \in {"watches", "changes", "bundles", "events", "segments", "images",
              "switch", "automations", "mailbox", "telemetry"}
  /\ WatchInit /\ ChangeInit /\ BundleInit
  /\ EventInit /\ SegmentInit /\ ImageInit
  /\ SwitchInit /\ AutomationInit /\ MailboxInit
  /\ ConsentInit /\ (part # "telemetry" => setting /\ onboarded)

(* Bound: no recorder is between its look and its count once the second     *)
(* command has begun.                                                       *)
ConsentBound == Cardinality(counting') + saves' =< MaxSaves

(* Bounds: at most two losses of messages, one once recording has begun a   *)
(* second time; a deletion of everything or a restart beside the builds,    *)
(* never both.                                                              *)
EventBound == slips' + recording'.count =< 3
BundleBound == forgets' + restarts' =< 1

ComponentsNext ==
  /\ UNCHANGED part
  /\ \/ part = "watches"  /\ WatchNext
     \/ part # "watches"  /\ UNCHANGED watchVars
  /\ \/ part = "changes"  /\ ChangeNext
     \/ part # "changes"  /\ UNCHANGED changeVars
  /\ \/ part = "bundles"  /\ BundleNext /\ BundleBound
     \/ part # "bundles"  /\ UNCHANGED bundleVars
  /\ \/ part = "events"   /\ EventNext /\ EventBound
     \/ part # "events"   /\ UNCHANGED eventVars
  /\ \/ part = "segments" /\ SegmentNext
     \/ part # "segments" /\ UNCHANGED segmentVars
  /\ \/ part = "images"   /\ ImageNext
     \/ part # "images"   /\ UNCHANGED imageVars
  /\ \/ part = "switch"   /\ SwitchNext
     \/ part # "switch"   /\ UNCHANGED switchVars
  /\ \/ part = "automations" /\ AutomationNext
     \/ part # "automations" /\ UNCHANGED automationVars
  /\ \/ part = "mailbox"  /\ MailboxNext
     \/ part # "mailbox"  /\ UNCHANGED mailboxVars
  /\ \/ part = "telemetry" /\ ConsentNext /\ ConsentBound
     \/ part # "telemetry" /\ UNCHANGED consentVars

ComponentsSpec ==
  ComponentsInit
    /\ [][ComponentsNext]_<<part, watchVars, changeVars, bundleVars,
                            eventVars, segmentVars, imageVars,
                            switchVars, automationVars, mailboxVars, consentVars>>
=============================================================================
