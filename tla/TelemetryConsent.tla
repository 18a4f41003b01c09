---------------------------- MODULE TelemetryConsent ----------------------------
(***************************************************************************)
(* Anonymous counters and the consent to send them                         *)
(* (crates/dystil-telemetry/src/aggregate.rs, and telemetry_consent.rs and *)
(* telemetry_exporter.rs of apps/dystil/src-tauri/src).  Recorders on any  *)
(* thread count into the banks when consent is granted; every five minutes *)
(* the exporter takes what the banks hold and sends it; a change of the    *)
(* setting or the end of onboarding decides the consent anew.  No lock     *)
(* covers two of them: a counter of changes, the generation, is all that   *)
(* tells the exporter that its snapshot is no longer current.              *)
(*                                                                         *)
(* The banks hold, in place of counts, the eras in which something was     *)
(* counted: an era ends where a revocation begins.  The atomics are        *)
(* sequentially consistent here; the code orders them by acquire and       *)
(* release.                                                                *)
(***************************************************************************)
EXTENDS Integers, FiniteSets, Sequences, SequencesExt

CONSTANTS
  MaxSaves,     \* bound: commands that save the setting or end the onboarding
  MaxRecorders  \* bound: banks into which somebody is about to count at once

ASSUME ConsentAssumption == {MaxSaves, MaxRecorders} \subseteq Nat

VARIABLES
  setting,         \* SettingsStore.telemetry_enabled
  onboarded,       \* OnboardingStore.is_completed
  consent,
  generation,
  banks,
  counting,        \* the banks a recorder that saw the consent is about to count into
  apply,           \* the application of the setting under way
  published,       \* RecordingState.server is there
  saves, toApply,  \* the commands begun; those of them that have still to apply
  exporter,        \* where the exporter is, and its snapshot
  era,             \* history: the revocations begun
  late             \* history: the banks of which something was sent that was from
                   \* before a revocation and was checked after it had begun

consentVars == <<setting, onboarded, consent, generation, banks, counting, apply,
                 published, saves, toApply, exporter, era, late>>

(* The banks in the order in which an interval drains them; "diagnostics"    *)
(* are sync_diagnostics and resource_activity.                              *)
Banks == <<"counters", "diagnostics", "traces">>
BankNames == ToSet(Banks)

(* What clear() empties. *)
Cleared == {"counters", "traces"}

NothingUnderWay == [at |-> "rest", to |-> "unknown", cleared |-> {}]

(* "checked" is history: the era of the check that let the requests go.      *)
ExporterRests ==
  [at |-> "rest", generation |-> 0, drained |-> 0, taken |-> {}, checked |-> 0]

(* Telemetry::new starts as unknown; the thread that made it then applies.   *)
ConsentInit ==
  /\ setting \in BOOLEAN /\ onboarded \in BOOLEAN
  /\ consent = "unknown" /\ generation = 0
  /\ banks = [b \in BankNames |-> {}] /\ counting = {}
  /\ apply = [NothingUnderWay EXCEPT !.at = "read"]
  /\ published = FALSE /\ saves = 0 /\ toApply = 0
  /\ exporter = ExporterRests
  /\ era = 0 /\ late = {}

IsEnabled == consent = "granted"

-----------------------------------------------------------------------------
(* record_*: a look at the consent, and the count. *)

Look(b) ==
  /\ IsEnabled /\ Cardinality(counting) < MaxRecorders
  /\ counting' = counting \cup {b}
  /\ UNCHANGED <<setting, onboarded, consent, generation, banks, apply, published, saves,
                 toApply, exporter, era, late>>

Count(b) ==
  /\ b \in counting /\ counting' = counting \ {b}
  /\ banks' = [banks EXCEPT ![b] = @ \cup {era}]
  /\ UNCHANGED <<setting, onboarded, consent, generation, apply, published, saves,
                 toApply, exporter, era, late>>

-----------------------------------------------------------------------------
(* The commands: save, and apply under the lock of the server if there is    *)
(* one; the start-up applies before it publishes the server.                *)

Save ==
  /\ saves < MaxSaves /\ saves' = saves + 1 /\ toApply' = toApply + 1
  /\ \/ setting' \in BOOLEAN /\ UNCHANGED onboarded
     \/ onboarded' = TRUE /\ UNCHANGED setting
  /\ UNCHANGED <<consent, generation, banks, counting, apply, published, exporter, era, late>>

Enter ==
  /\ toApply > 0 /\ toApply' = toApply - 1
  /\ IF published THEN apply.at = "rest" /\ apply' = [NothingUnderWay EXCEPT !.at = "read"]
                  ELSE UNCHANGED apply
  /\ UNCHANGED <<setting, onboarded, consent, generation, banks, counting, published, saves,
                 exporter, era, late>>

PublishRuntime ==
  /\ ~published /\ apply.at = "rest" /\ published' = TRUE
  /\ UNCHANGED <<setting, onboarded, consent, generation, banks, counting, apply, saves,
                 toApply, exporter, era, late>>

Resolution == IF ~setting THEN "denied" ELSE IF ~onboarded THEN "unknown" ELSE "granted"

(* A setting that cannot be read denies, an onboarding that cannot be read   *)
(* is not completed.                                                        *)
ReadSettings ==
  /\ apply.at = "read"
  /\ \E decision \in {Resolution, "denied", IF setting THEN "unknown" ELSE "denied"} :
       apply' = [apply EXCEPT !.at = "stop", !.to = decision]
  /\ UNCHANGED <<setting, onboarded, consent, generation, banks, counting, published, saves,
                 toApply, exporter, era, late>>

(* set_consent, one access of shared memory at a time. *)
DenyFirst ==
  /\ apply.at = "stop" /\ apply' = [apply EXCEPT !.at = "bump"]
  /\ consent' = "denied"
  /\ era' = IF apply.to = "granted" THEN era ELSE era + 1
  /\ UNCHANGED <<setting, onboarded, generation, banks, counting, published, saves, toApply,
                 exporter, late>>

Bump ==
  /\ apply.at = "bump" /\ apply' = [apply EXCEPT !.at = "clear"]
  /\ generation' = generation + 1
  /\ UNCHANGED <<setting, onboarded, consent, banks, counting, published, saves, toApply,
                 exporter, era, late>>

Clear(b) ==
  /\ apply.at = "clear" /\ b \in Cleared \ apply.cleared
  /\ banks' = [banks EXCEPT ![b] = {}]
  /\ apply' = [apply EXCEPT !.cleared = @ \cup {b}]
  /\ UNCHANGED <<setting, onboarded, consent, generation, counting, published, saves,
                 toApply, exporter, era, late>>

SetConsent ==
  /\ apply.at = "clear" /\ Cleared \subseteq apply.cleared
  /\ consent' = apply.to /\ apply' = [apply EXCEPT !.at = "settle"]
  /\ UNCHANGED <<setting, onboarded, generation, banks, counting, published, saves,
                 toApply, exporter, era, late>>

Settle ==
  /\ apply.at = "settle" /\ apply' = NothingUnderWay
  /\ generation' = generation + 1
  /\ UNCHANGED <<setting, onboarded, consent, banks, counting, published, saves, toApply,
                 exporter, era, late>>

-----------------------------------------------------------------------------
(* The exporter. *)

ExporterWakes ==
  /\ exporter.at = "rest" /\ IsEnabled
  /\ exporter' = [exporter EXCEPT !.at = "generation"]
  /\ UNCHANGED <<setting, onboarded, consent, generation, banks, counting, apply, published,
                 saves, toApply, era, late>>

Note ==
  /\ exporter.at = "generation"
  /\ exporter' = [exporter EXCEPT !.at = "drain", !.generation = generation]
  /\ UNCHANGED <<setting, onboarded, consent, generation, banks, counting, apply, published,
                 saves, toApply, era, late>>

Drain ==
  /\ exporter.at = "drain" /\ exporter.drained < Len(Banks)
  /\ LET b == Banks[exporter.drained + 1] IN
       /\ banks' = [banks EXCEPT ![b] = {}]
       /\ exporter' = [exporter EXCEPT !.drained = @ + 1,
                                       !.taken = @ \cup ({b} \X banks[b])]
  /\ UNCHANGED <<setting, onboarded, consent, generation, counting, apply, published, saves,
                 toApply, era, late>>

(* As if the generation alone told that the consent was withdrawn: it moves  *)
(* only after the consent.                                                  *)
CurrentByGeneration == exporter.generation = generation

StillCounts == IsEnabled /\ exporter.generation = generation

(* The check at the end of drain_interval. *)
Recheck ==
  /\ exporter.at = "drain" /\ exporter.drained = Len(Banks)
  /\ exporter' = IF StillCounts THEN [exporter EXCEPT !.at = "token"] ELSE ExporterRests
  /\ UNCHANGED <<setting, onboarded, consent, generation, banks, counting, apply, published,
                 saves, toApply, era, late>>

(* The device token has been waited for; snapshot_is_current, which is asked *)
(* once for the two requests of the interval.                               *)
SnapshotIsCurrent ==
  /\ exporter.at = "token"
  /\ exporter' = IF StillCounts THEN [exporter EXCEPT !.at = "metrics", !.checked = era]
                 ELSE ExporterRests
  /\ UNCHANGED <<setting, onboarded, consent, generation, banks, counting, apply, published,
                 saves, toApply, era, late>>

Sends(sent) ==
  late' = late \cup {b \in sent : \E e \in 0 .. exporter.checked - 1 :
                                   <<b, e>> \in exporter.taken}

Traced == \E e \in 0 .. era : <<"traces", e>> \in exporter.taken

(* The metrics go, and the answer is awaited; then, whatever it was, the     *)
(* traces if there are any.                                                 *)
PostMetrics ==
  /\ exporter.at = "metrics" /\ Sends(BankNames \ {"traces"})
  /\ exporter' = IF Traced THEN [exporter EXCEPT !.at = "traces"] ELSE ExporterRests
  /\ UNCHANGED <<setting, onboarded, consent, generation, banks, counting, apply, published,
                 saves, toApply, era>>

PostTraces ==
  /\ exporter.at = "traces" /\ Sends({"traces"}) /\ exporter' = ExporterRests
  /\ UNCHANGED <<setting, onboarded, consent, generation, banks, counting, apply, published,
                 saves, toApply, era>>

-----------------------------------------------------------------------------
ConsentNext ==
  \/ \E b \in BankNames : Look(b) \/ Count(b) \/ Clear(b)
  \/ Save \/ Enter \/ PublishRuntime
  \/ ReadSettings \/ DenyFirst \/ Bump \/ SetConsent \/ Settle
  \/ ExporterWakes \/ Note \/ Drain \/ Recheck
  \/ SnapshotIsCurrent \/ PostMetrics \/ PostTraces

ConsentSpec == ConsentInit /\ [][ConsentNext]_consentVars

-----------------------------------------------------------------------------
(* Properties. *)

(* "Enabling clears again, preventing a racing pre-revocation increment from *)
(* leaking forward", and an exporter must make sure "so consent revocation   *)
(* invalidates a snapshot drained concurrently" (aggregate.rs:633 and :760): *)
(* of a bank that is cleared nothing is sent that was counted before a       *)
(* revocation which had begun when the interval was last checked, even if    *)
(* the user has granted consent again by then.  What a revocation meets      *)
(* after that check goes out, the traces too although the answer to the      *)
(* metrics was awaited first.                                               *)
ClearedIsNotSent == late \cap Cleared = {}

(* telemetry_consent.rs:72: "Revoking consent clears everything already      *)
(* accumulated": when a revocation has been applied, no bank holds anything  *)
(* that was counted before it began.                                        *)
RevocationClears ==
  apply.at = "rest" /\ consent = "denied" => \A b \in BankNames : banks[b] \subseteq {era}
=============================================================================
