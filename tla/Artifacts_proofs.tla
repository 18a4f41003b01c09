--------------------------- MODULE Artifacts_proofs ---------------------------
(***************************************************************************)
(* Theorems about ArtifactChanges and SkillBundles, for every value of their*)
(* constants.                                                              *)
(***************************************************************************)
EXTENDS ArtifactChanges, SkillBundles, FiniteSetTheorems, SequenceTheorems, TLAPS

-----------------------------------------------------------------------------
(* Changes to an artifact (ArtifactChanges).                                *)
(* The parts of the inductive invariant.  Beyond the types: an artifact in   *)
(* use has a version, and an invocation that has begun holds a job.         *)
Rows == [change : Changes \cup {NoChange}, body : Nat]
ArtifactTyped ==
  /\ artifact \in [status : {"active", "removed"}, versions : Seq(Rows)]
  /\ artifact.status = "active" => artifact.versions # <<>>

ChangesTyped == changes \in [Changes -> [status : ChangeStatuses, body : Nat]]

Edits == [pc : {"idle", "insert", "run", "mark", "think", "answered"},
          change : Changes \cup {NoChange}, invalid : 0..1]
EditorsTyped ==
  /\ editors \in [Editors -> Edits]
  /\ \A e \in Editors : editors[e].pc # "idle" => editors[e].change \in Changes

ShownTyped == shown \subseteq Changes \X Nat

ChangeTyped ==
  /\ ArtifactTyped /\ ChangesTyped /\ EditorsTyped /\ ShownTyped
  /\ answers \in Nat /\ losses \in Nat

-----------------------------------------------------------------------------

LEMMA ChangeInitTyped == ChangeInit => ChangeTyped
<1> SUFFICES ASSUME ChangeInit PROVE ChangeTyped
  OBVIOUS
<1>1. ArtifactTyped
  BY DEF ChangeInit, ArtifactTyped, Rows
<1>2. ChangesTyped /\ ShownTyped
  BY DEF ChangeInit, ChangesTyped, ShownTyped, ChangeStatuses
<1>3. EditorsTyped
  BY DEF ChangeInit, EditorsTyped, Edits, NoEdit, Editing
<1> QED
  BY <1>1, <1>2, <1>3 DEF ChangeInit, ChangeTyped

(* An update of a row, and a step of an invocation, keep the types. *)
LEMMA SetChangeTyped ==
  ASSUME changes \in [Changes -> [status : ChangeStatuses, body : Nat]],
         NEW c, NEW status \in ChangeStatuses, NEW body \in Nat,
         SetChange(c, status, body)
  PROVE  changes' \in [Changes -> [status : ChangeStatuses, body : Nat]]
<1> DEFINE Row == [status |-> status, body |-> body]
<1>1. Row \in [status : ChangeStatuses, body : Nat]
  OBVIOUS
<1>2. changes' = changes \/ changes' = [changes EXCEPT ![c] = Row]
  BY DEF SetChange
<1> HIDE DEF Row
<1> QED
  BY <1>1, <1>2

LEMMA EditorsMove ==
  ASSUME EditorsTyped, NEW e \in Editors, NEW edit \in Edits,
         edit.pc # "idle" => edit.change \in Changes,
         editors' = [editors EXCEPT ![e] = edit]
  PROVE  EditorsTyped'
  BY DEF EditorsTyped

LEMMA EditorsStep ==
  ASSUME EditorsTyped, NEW e \in Editors, editors[e].pc # "idle",
         \/ \E point \in {"run", "mark", "think", "answered"} : EditorGoes(e, point)
         \/ EditorReturns(e)
         \/ editors' = [editors EXCEPT ![e].invalid = 1]
  PROVE  EditorsTyped'
<1> editors \in [Editors -> Edits] /\ editors[e] \in Edits
    /\ editors[e].change \in Changes
  BY DEF EditorsTyped
<1>1. CASE \E point \in {"run", "mark", "think", "answered"} : EditorGoes(e, point)
  <2> PICK point \in {"run", "mark", "think", "answered"} : EditorGoes(e, point)
    BY <1>1
  <2> DEFINE edit == [editors[e] EXCEPT !.pc = point]
  <2>1. edit \in Edits /\ edit.change \in Changes
    BY DEF Edits
  <2>2. editors' = [editors EXCEPT ![e] = edit]
    BY DEF EditorGoes
  <2> HIDE DEF edit
  <2> QED
    BY <2>1, <2>2, EditorsMove
<1>2. CASE EditorReturns(e)
  <2>1. NoEdit \in Edits /\ NoEdit.pc = "idle"
    BY DEF NoEdit, Editing, Edits
  <2> QED
    BY <1>2, <2>1, EditorsMove DEF EditorReturns
<1>3. CASE editors' = [editors EXCEPT ![e].invalid = 1]
  <2> DEFINE edit == [editors[e] EXCEPT !.invalid = 1]
  <2>1. edit \in Edits /\ edit.change \in Changes
    BY DEF Edits
  <2>2. editors' = [editors EXCEPT ![e] = edit]
    BY <1>3
  <2> HIDE DEF edit
  <2> QED
    BY <2>1, <2>2, EditorsMove
<1> QED
  BY <1>1, <1>2, <1>3

(* An invocation that begins takes up a job. *)
LEMMA EditorsBegin ==
  ASSUME EditorsTyped, NEW e \in Editors, NEW c \in Changes,
         NEW point \in {"run", "insert"},
         editors' = [editors EXCEPT ![e] = Editing(point, c)]
  PROVE  EditorsTyped'
<1>1. Editing(point, c) \in Edits /\ Editing(point, c).change \in Changes
  BY DEF Edits, Editing
<1> QED
  BY <1>1, EditorsMove

LEMMA StatusesAre ==
  {"none", "pending", "running", "preview_ready", "rejected", "accepted"} = ChangeStatuses
  BY DEF ChangeStatuses

(* What an invocation does keeps the types: jobs and invocations only change *)
(* within their own.                                                        *)
LEMMA EditorKeepsTypes ==
  ASSUME ChangeTyped, NEW e \in Editors, EditorStep(e)
  PROVE  ChangeTyped'
<1> DEFINE c == editors[e].change
<1>1. /\ ArtifactTyped /\ ChangesTyped /\ EditorsTyped /\ ShownTyped
      /\ answers \in Nat /\ losses \in Nat
  BY DEF ChangeTyped
<1>2. /\ editors[e].pc # "idle"
      /\ artifact' = artifact
      /\ answers' \in Nat /\ losses' \in Nat
  BY <1>1
  DEF EditorStep, InsertChange, RunReads, RunMarks, ModelAnswers, ShowsPreview, ModelErrs, ProviderErrs,
      EditorAt
<1>3. c \in Changes /\ changes[c].body \in Nat
  BY <1>1, <1>2 DEF EditorsTyped, ChangesTyped
<1>4. EditorsTyped'
  <2>1. \/ \E point \in {"run", "mark", "think", "answered"} : EditorGoes(e, point)
        \/ EditorReturns(e)
        \/ editors' = [editors EXCEPT ![e].invalid = 1]
    BY DEF EditorStep, InsertChange, RunReads, RunMarks, ModelAnswers, ShowsPreview, ModelErrs,
           ProviderErrs
  <2> QED
    BY <1>1, <1>2, <2>1, EditorsStep
<1>5. ChangesTyped'
  <2>1. CASE UNCHANGED changes
    BY <1>1, <2>1 DEF ChangesTyped
  <2>2. CASE changes' = [changes EXCEPT ![c].status = "pending"]
    BY <1>1, <2>2, StatusesAre DEF ChangesTyped
  <2>3. ASSUME NEW status \in ChangeStatuses, NEW body \in Nat, SetChange(c, status, body)
        PROVE  ChangesTyped'
    BY <1>1, <2>3, SetChangeTyped DEF ChangesTyped
  <2>4. \/ UNCHANGED changes
        \/ changes' = [changes EXCEPT ![c].status = "pending"]
        \/ \E status \in ChangeStatuses, body \in Nat : SetChange(c, status, body)
    <3> HIDE DEF c
    <3>1. answers + 1 \in Nat
      BY <1>1
    <3> QED
      BY <1>1, <1>3, <3>1, StatusesAre
      DEF EditorStep, InsertChange, RunReads, RunMarks, ModelAnswers, ShowsPreview, ModelErrs,
          ProviderErrs, c
  <2> QED
    BY <2>1, <2>2, <2>3, <2>4
<1>6. ShownTyped'
  <2>1. shown' = shown \/ shown' = shown \cup {<<c, changes[c].body>>}
    BY DEF EditorStep, InsertChange, RunReads, RunMarks, ModelAnswers, ShowsPreview, ModelErrs,
           ProviderErrs
  <2> QED
    BY <1>1, <1>3, <2>1 DEF ShownTyped
<1> QED
  BY <1>1, <1>2, <1>4, <1>5, <1>6 DEF ChangeTyped, ArtifactTyped

LEMMA ChangeNextTyped == ChangeTyped /\ [ChangeNext]_changeVars => ChangeTyped'
<1> SUFFICES ASSUME ChangeTyped, [ChangeNext]_changeVars PROVE ChangeTyped'
  OBVIOUS
<1>0. /\ ArtifactTyped /\ ChangesTyped /\ EditorsTyped /\ ShownTyped
      /\ answers \in Nat /\ losses \in Nat
  BY DEF ChangeTyped
<1>1. ASSUME NEW e \in Editors, NEW q \in Requests, ProposeChange(e, q)
      PROVE  ChangeTyped'
  <2>1. \E c \in Changes, point \in {"run", "insert"} :
           editors' = [editors EXCEPT ![e] = Editing(point, c)]
    <3>1. CASE \E c \in Changes :
            editors' = [editors EXCEPT ![e] = Editing("run", c)]
      BY <3>1
    <3>2. CASE CurrentVersion < MaxVersions /\
            editors' = [editors EXCEPT ![e] =
              Editing("insert", [base |-> CurrentVersion, request |-> q])]
                /\ artifact.status = "active"
      <4>1. CurrentVersion \in Nat
        BY <1>0 DEF ArtifactTyped, CurrentVersion
      <4>2. CurrentVersion # 0
        BY <1>0, <3>2 DEF ArtifactTyped, CurrentVersion
      <4>3. [base |-> CurrentVersion, request |-> q] \in Changes
        BY <3>2, <4>1, <4>2, ChangeAssumption DEF Changes
      <4> QED
        BY <3>2, <4>3
    <3> QED
      BY <1>1, <3>1, <3>2 DEF ProposeChange
  <2>2. EditorsTyped'
    BY <1>0, <2>1, EditorsBegin
  <2> QED
    BY <1>0, <1>1, <2>2
    DEF ChangeTyped, ProposeChange, ArtifactTyped, ChangesTyped, ShownTyped
<1>2. ASSUME NEW e \in Editors, NEW c \in Changes, RetryChange(e, c)
      PROVE  ChangeTyped'
  <2>1. EditorsTyped'
    BY <1>0, <1>2, EditorsBegin DEF RetryChange
  <2>2. ChangesTyped'
    BY <1>0, <1>2, SetChangeTyped, StatusesAre DEF RetryChange, ChangesTyped
  <2> QED
    BY <1>0, <1>2, <2>1, <2>2 DEF ChangeTyped, RetryChange, ArtifactTyped, ShownTyped
<1>3. ASSUME NEW e \in Editors, EditorStep(e) PROVE ChangeTyped'
  BY <1>3, EditorKeepsTypes
<1>4. ASSUME NEW c \in Changes, ConfirmChange(c) PROVE ChangeTyped'
  <2>1. changes[c].body \in Nat
    BY <1>0 DEF ChangesTyped
  <2>2. ChangesTyped'
    BY <1>0, <1>4, <2>1, SetChangeTyped, StatusesAre DEF ConfirmChange, ChangesTyped
  <2>3. ArtifactTyped'
    <3> DEFINE row == [change |-> c, body |-> changes[c].body]
    <3>1. row \in Rows
      BY <2>1 DEF Rows
    <3>2. artifact.versions \in Seq(Rows) /\ artifact.status \in {"active", "removed"}
      BY <1>0 DEF ArtifactTyped
    <3>3. artifact' = [artifact EXCEPT !.versions = Append(@, row)]
      BY <1>4 DEF ConfirmChange, AppendVersion
    <3>4. /\ Append(artifact.versions, row) \in Seq(Rows)
          /\ Append(artifact.versions, row) # <<>>
      BY <3>1, <3>2
    <3> HIDE DEF row
    <3> QED
      BY <1>0, <3>2, <3>3, <3>4 DEF ArtifactTyped
  <2> QED
    BY <1>0, <1>4, <2>2, <2>3
    DEF ChangeTyped, ConfirmChange, EditorsTyped, ShownTyped
<1>5. ASSUME NEW c \in Changes, RejectChange(c) PROVE ChangeTyped'
  <2>1. ChangesTyped'
    BY <1>0, <1>5, SetChangeTyped, StatusesAre DEF RejectChange, ChangesTyped
  <2> QED
    BY <1>0, <1>5, <2>1
    DEF ChangeTyped, RejectChange, ArtifactTyped, EditorsTyped, ShownTyped
<1>6. CASE RemoveArtifact
  <2>1. ArtifactTyped' /\ ChangesTyped'
    BY <1>6, StatusesAre DEF RemoveArtifact, ArtifactTyped, ChangesTyped
  <2> QED
    BY <1>0, <1>6, <2>1 DEF RemoveArtifact, ChangeTyped, EditorsTyped, ShownTyped
<1>7. CASE EditorCrash
  <2>1. EditorsTyped'
    BY <1>7 DEF EditorCrash, EditorsTyped, Edits, NoEdit, Editing
  <2> QED
    BY <1>0, <1>7, <2>1 DEF EditorCrash, ChangeTyped, ArtifactTyped, ChangesTyped, ShownTyped
<1>8. CASE UNCHANGED changeVars
  BY <1>0, <1>8
  DEF changeVars, ChangeTyped, ArtifactTyped, ChangesTyped, EditorsTyped, ShownTyped
<1> QED
  BY <1>1, <1>2, <1>3, <1>4, <1>5, <1>6, <1>7, <1>8 DEF ChangeNext

(* The variables hold what the columns and the locals allow, for any number *)
(* of requests, invocations and versions.                                   *)
THEOREM ChangesTypeCorrect == ChangeSpec => []ChangeTypeOK
<1>1. ChangeTyped => ChangeTypeOK
  BY DEF ChangeTyped, ChangeTypeOK, ArtifactTyped, Rows, ChangesTyped, EditorsTyped, Edits,
         ShownTyped
<1> QED
  BY <1>1, ChangeInitTyped, ChangeNextTyped, PTL DEF ChangeSpec

-----------------------------------------------------------------------------

(* Only a confirmation and the removal touch the artifact; a confirmation    *)
(* adds a version that was cut from the last one.                           *)
LEMMA ArtifactMoves ==
  ASSUME ChangeTyped, [ChangeNext]_changeVars
  PROVE  \/ artifact' = artifact
         \/ \E c \in Changes :
              /\ artifact.status = "active" /\ c.base = CurrentVersion
              /\ AppendVersion(c)
         \/ artifact' = [status |-> "removed", versions |-> <<>>]
<1>1. ASSUME NEW e \in Editors, EditorStep(e) PROVE artifact' = artifact
  BY <1>1
  DEF EditorStep, InsertChange, RunReads, RunMarks, ModelAnswers, ShowsPreview, ModelErrs, ProviderErrs
<1>2. ASSUME NEW e \in Editors, NEW q \in Requests, ProposeChange(e, q)
      PROVE  artifact' = artifact
  BY <1>2 DEF ProposeChange
<1>3. ASSUME NEW e \in Editors, NEW c \in Changes, RetryChange(e, c)
      PROVE  artifact' = artifact
  BY <1>3 DEF RetryChange
<1>4. ASSUME NEW c \in Changes, RejectChange(c) PROVE artifact' = artifact
  BY <1>4 DEF RejectChange
<1>5. ASSUME NEW c \in Changes, ConfirmChange(c)
      PROVE  /\ artifact.status = "active" /\ c.base = CurrentVersion
             /\ AppendVersion(c)
  BY <1>5 DEF ConfirmChange
<1>6. CASE UNCHANGED changeVars
  BY <1>6 DEF changeVars
<1> QED
  BY <1>1, <1>2, <1>3, <1>4, <1>5, <1>6 DEF ChangeNext, RemoveArtifact, EditorCrash

(* However changes are proposed, run, run again late, confirmed and rejected:*)
(* each version replaces the one its change was cut from, so that no change  *)
(* is lost under another.                                                   *)
THEOREM VersionsBuildOnEachOther == ChangeSpec => []NoLostUpdate
<1> DEFINE I == ChangeTyped /\ NoLostUpdate
<1>1. ChangeInit => I
  BY ChangeInitTyped DEF ChangeInit, NoLostUpdate, CurrentVersion
<1>2. I /\ [ChangeNext]_changeVars => I'
  <2> SUFFICES ASSUME I, [ChangeNext]_changeVars PROVE NoLostUpdate'
    BY ChangeNextTyped
  <2>1. CASE artifact' = artifact
    BY <2>1 DEF NoLostUpdate, CurrentVersion
  <2>2. ASSUME NEW c \in Changes, artifact.status = "active", c.base = CurrentVersion,
               AppendVersion(c)
        PROVE  NoLostUpdate'
    <3>1. artifact.versions \in Seq(Rows)
      BY DEF ChangeTyped, ArtifactTyped
    <3>2. /\ artifact'.versions = Append(artifact.versions, [change |-> c, body |-> changes[c].body])
          /\ artifact'.status = "active"
      BY <2>2 DEF AppendVersion, ChangeTyped, ArtifactTyped
    <3>3. /\ Len(artifact'.versions) = Len(artifact.versions) + 1
          /\ \A n \in 1..Len(artifact.versions) : artifact'.versions[n] = artifact.versions[n]
          /\ artifact'.versions[Len(artifact.versions) + 1].change = c
      BY <3>1, <3>2
    <3> QED
      BY <2>2, <3>1, <3>2, <3>3 DEF NoLostUpdate, CurrentVersion
  <2>3. CASE artifact' = [status |-> "removed", versions |-> <<>>]
    BY <2>3 DEF NoLostUpdate, CurrentVersion
  <2> QED
    BY <2>1, <2>2, <2>3, ArtifactMoves
<1>3. I => NoLostUpdate
  OBVIOUS
<1> QED
  BY <1>1, <1>2, <1>3, PTL DEF ChangeSpec

-----------------------------------------------------------------------------
(* Builds of skill bundles (SkillBundles).                                  *)
Points  == {"none", "lookup", "prepare", "investigate", "record", "draft",
            "review", "revision", "rename", "insert", "finish", "clean"}
Resting == {"none", "clean"}
Asking  == {"lookup", "prepare", "investigate", "record", "draft", "review", "revision"}

Statuses == {"running", "ready", "failed", "interrupted", "gone"}
BuildRow == [status : Statuses, input : Nat]
Builder  == [pc : Points, cached : BOOLEAN, revision : 0 .. MaxJobs, rewritten : BOOLEAN]

-----------------------------------------------------------------------------
(* The inductive invariant. *)

(* One task and one row for each build under way; the row may have been      *)
(* deleted under the task, and a deserted row is without one.               *)
InHand ==
  /\ \A j \in 1 .. MaxJobs : builders[j].pc \notin Resting =>
       j \in Jobs /\ builds[j].status \in {"running", "gone"}
  /\ \A j \in Jobs : builds[j].status = "running" /\ builders[j].pc \in Resting =>
       builders[j].pc = "none" /\ j \in deserted
  /\ \A j, k \in Jobs :
       builds[j].status = "running" /\ builds[k].status = "running" => j = k

(* A full deletion takes all rows at once, and nothing is inserted after it. *)
AllOrNothing ==
  IF skilled = "gone"
  THEN bundles = {} /\ \A j \in Jobs : builds[j].status = "gone"
  ELSE wiping = "no" /\ \A j \in Jobs : builds[j].status # "gone"

(* A build files at most one bundle, at its last step but one. *)
OneEach ==
  /\ \A b, c \in bundles : b.job = c.job => b = c
  /\ \A b \in bundles : builders[b.job].pc \in Resting \cup {"finish"}

(* Unless its row was deleted, the build that is about to insert its bundle  *)
(* has its directory, and the one about to read "ready" has its bundle.     *)
Placed ==
  /\ \A j \in Jobs : builders[j].pc \in {"rename", "insert"} =>
       builders[j].revision \in Revisions
  /\ \A j \in Jobs : builders[j].pc = "insert" /\ JobExists(j) =>
       shelf[builders[j].revision] = j
  /\ \A j \in Jobs : builders[j].pc = "finish" /\ JobExists(j) =>
       \E b \in bundles : b.job = j

BundleInv ==
  BundleTypeOK /\ InHand /\ AllOrNothing /\ OneEach /\ Placed /\ ReadyIsOnDisk

-----------------------------------------------------------------------------

LEMMA BundleTypes ==
  ASSUME BundleTypeOK
  PROVE  /\ builds \in Seq(BuildRow) /\ Len(builds) \in Nat /\ MaxJobs \in Nat
         /\ Len(builds) =< MaxJobs /\ DOMAIN builds = Jobs
         /\ \A j \in Jobs : builds[j] \in BuildRow /\ j \in 1 .. MaxJobs
         /\ builders \in [1 .. MaxJobs -> Builder]
<1>1. builds \in Seq(BuildRow) /\ Len(builds) =< MaxJobs
  BY DEF BundleTypeOK, BuildRow, Statuses
<1>2. Len(builds) \in Nat /\ DOMAIN builds = Jobs /\ \A j \in Jobs : builds[j] \in BuildRow
  BY <1>1, LenProperties, ElementOfSeq DEF Jobs
<1>3. MaxJobs \in Nat
  BY BundleAssumption
<1>4. \A j \in Jobs : j \in 1 .. MaxJobs
  BY <1>1, <1>2, <1>3 DEF Jobs
<1> QED
  BY <1>1, <1>2, <1>3, <1>4 DEF BundleTypeOK, Builder, Points

LEMMA BundleInitInv == BundleInit => BundleInv
<1> SUFFICES ASSUME BundleInit PROVE BundleInv
  OBVIOUS
<1>1. builds \in Seq(BuildRow) /\ Len(builds) = 0 /\ Jobs = {}
  BY EmptySeq DEF BundleInit, Jobs
<1>2. BundleTypeOK
  BY <1>1, BundleAssumption DEF BundleInit, BundleTypeOK, NoBuilder, Revisions, BuildRow, Statuses
<1> QED
  BY <1>1, <1>2 DEF BundleInit, BundleInv, InHand, AllOrNothing, OneEach, Placed,
    ReadyIsOnDisk, NoBuilder, Resting

(* SetStatus changes the status of one row, if it is there. *)
LEMMA OneStatusSet ==
  ASSUME BundleTypeOK, NEW j \in Jobs, NEW s \in Statuses, SetStatus(j, s)
  PROVE  /\ builds' \in Seq(BuildRow) /\ Len(builds') = Len(builds)
         /\ \A k \in Jobs : k # j => builds'[k] = builds[k]
         /\ builds'[j].status = IF JobExists(j) THEN s ELSE "gone"
<1>1. builds \in Seq(BuildRow) /\ \A k \in Jobs : builds[k] \in BuildRow
  BY BundleTypes
<1>2. CASE ~JobExists(j)
  BY <1>1, <1>2 DEF SetStatus, JobExists
<1>3. CASE JobExists(j)
  <2> DEFINE row == [builds[j] EXCEPT !.status = s]
  <2>1. row \in BuildRow /\ row.status = s
    BY <1>1 DEF BuildRow
  <2>2. builds' = [builds EXCEPT ![j] = row]
    BY <1>3 DEF SetStatus
  <2> HIDE DEF row
  <2>3. builds' \in Seq(BuildRow) /\ Len(builds') = Len(builds)
        /\ \A k \in Jobs : builds'[k] = IF k = j THEN row ELSE builds[k]
    BY <1>1, <2>1, <2>2, ExceptSeq DEF Jobs
  <2> QED
    BY <1>3, <2>1, <2>3
<1> QED
  BY <1>2, <1>3

(* A row for each row is a table as long. *)
LEMMA RowForRow ==
  ASSUME BundleTypeOK, NEW t \in [Jobs -> BuildRow]
  PROVE  t \in Seq(BuildRow) /\ Len(t) = Len(builds)
<1>1. Len(builds) \in Nat
  BY BundleTypes
<1>2. t \in [1 .. Len(builds) -> BuildRow]
  BY DEF Jobs
<1> QED
  BY <1>1, <1>2

(* The revision that is free next: each bundle so far is of another build.   *)
LEMMA FreeRevision ==
  ASSUME BundleInv, NEW j \in Jobs, builders[j].pc = "revision"
  PROVE  NextRevision \in Revisions
<1> DEFINE others == Jobs \ {j}
           byJob == [b \in bundles |-> b.job]
<1>1. Len(builds) \in Nat /\ MaxJobs \in Nat /\ Len(builds) =< MaxJobs /\ j \in 1 .. Len(builds)
  BY BundleTypes DEF BundleInv, Jobs
<1>2. IsFiniteSet(Jobs) /\ Cardinality(Jobs) = Len(builds)
  BY <1>1, FS_Interval DEF Jobs
<1>3. IsFiniteSet(others) /\ Cardinality(others) = Len(builds) - 1
  BY <1>1, <1>2, FS_RemoveElement
<1>4. \A b \in bundles : b.job \in others
  BY DEF BundleInv, BundleTypeOK, OneEach, Resting
<1>5. byJob \in Injection(bundles, others)
  BY <1>4 DEF BundleInv, OneEach, Injection, IsInjective
<1>6. IsFiniteSet(bundles) /\ Cardinality(bundles) =< Cardinality(others)
  BY <1>3, <1>5, FS_Injection
<1>7. Cardinality(bundles) \in Nat
  BY <1>6, FS_CardinalityType
<1> QED
  BY <1>1, <1>3, <1>6, <1>7 DEF NextRevision, Revisions

-----------------------------------------------------------------------------
(* The steps of a build that touch no row of a build, no bundle and no       *)
(* directory.                                                               *)
Moves ==
  /\ UNCHANGED <<builds, bundles, shelf, deserted, wiping>>
  /\ skilled' = "gone" <=> skilled = "gone"
  /\ \/ UNCHANGED builders
     \/ \E j \in Jobs : \E b \in Builder :
          /\ builders' = [builders EXCEPT ![j] = b]
          /\ \/ /\ builders[j].pc \in Asking /\ b.pc \in Asking \cup {"rename"}
                /\ b.pc = "rename" => b.revision \in Revisions
             \/ builders[j].pc = "clean" /\ b.pc = "none"

(* A new record of a builder that differs in its point.                      *)
LEMMA PointMoves ==
  ASSUME BundleTypeOK, NEW j \in Jobs, NEW point \in Points, BuilderGoes(j, point)
  PROVE  \E b \in Builder :
           /\ builders' = [builders EXCEPT ![j] = b]
           /\ b.pc = point /\ b.revision = builders[j].revision
<1>1. builders[j] \in Builder
  BY BundleTypes
<1> DEFINE b == [builders[j] EXCEPT !.pc = point]
<1>2. b \in Builder /\ b.pc = point /\ b.revision = builders[j].revision
  BY <1>1 DEF Builder
<1>3. builders' = [builders EXCEPT ![j] = b]
  BY DEF BuilderGoes
<1> QED
  BY <1>2, <1>3

LEMMA BuilderRests ==
  ASSUME BundleTypeOK, NEW j \in Jobs, BuilderEnds(j)
  PROVE  NoBuilder \in Builder /\ NoBuilder.pc = "none" /\ builders' = [builders EXCEPT ![j] = NoBuilder]
<1>1. 0 \in 0 .. MaxJobs
  BY BundleTypes
<1> QED
  BY <1>1 DEF BuilderEnds, NoBuilder, Builder, Points

LEMMA AskingMoves ==
  ASSUME BundleInv, NEW j \in Jobs,
         \/ LooksUp(j) \/ Prepares(j) \/ Investigates(j) \/ RecordsWorkflow(j)
         \/ Drafts(j) \/ Reviews(j) \/ ReadsRevision(j) \/ CleansUp(j)
  PROVE  Moves
<1> USE DEF BuilderAt
<1>1. builders[j] \in Builder /\ BundleTypeOK
  BY BundleTypes DEF BundleInv
<1>2. CASE LooksUp(j)
  <2> DEFINE b == [builders[j] EXCEPT !.pc = "prepare",
                                       !.cached = \E w \in workflows : w.input = builds[j].input]
  <2>1. b \in Builder /\ b.pc = "prepare"
    BY <1>1 DEF Builder, Points
  <2>2. builders' = [builders EXCEPT ![j] = b]
    BY <1>2 DEF LooksUp
  <2> HIDE DEF b
  <2> QED
    BY <1>2, <2>1, <2>2 DEF LooksUp, Moves, Asking
<1>3. CASE Prepares(j) \/ Investigates(j) \/ RecordsWorkflow(j) \/ Drafts(j)
  <2>1. PICK point \in {"record", "investigate", "draft", "review"} : BuilderGoes(j, point)
    BY <1>3 DEF Prepares, Investigates, RecordsWorkflow, Drafts
  <2>2. PICK b \in Builder : builders' = [builders EXCEPT ![j] = b] /\ b.pc = point
    BY <1>1, <2>1, PointMoves DEF Points
  <2> QED
    BY <1>3, <2>2 DEF Prepares, Investigates, RecordsWorkflow, Drafts, Moves, Asking
<1>4. CASE Reviews(j)
  <2>1. CASE BuilderGoes(j, "revision")
    <3>1. PICK b \in Builder : builders' = [builders EXCEPT ![j] = b] /\ b.pc = "revision"
      BY <1>1, <2>1, PointMoves DEF Points
    <3> QED
      BY <1>4, <3>1 DEF Reviews, Moves, Asking
  <2>2. CASE builders' = [builders EXCEPT ![j].rewritten = TRUE, ![j].pc = "draft"]
    <3> DEFINE b == [builders[j] EXCEPT !.rewritten = TRUE, !.pc = "draft"]
    <3>1. b \in Builder /\ b.pc = "draft"
      BY <1>1 DEF Builder, Points
    <3>2. builders' = [builders EXCEPT ![j] = b]
      BY <2>2
    <3> HIDE DEF b
    <3> QED
      BY <1>4, <3>1, <3>2 DEF Reviews, Moves, Asking
  <2> QED
    BY <1>4, <2>1, <2>2 DEF Reviews
<1>5. CASE ReadsRevision(j)
  <2> DEFINE b == [builders[j] EXCEPT !.pc = "rename", !.revision = NextRevision]
  <2>1. NextRevision \in Revisions /\ NextRevision \in 0 .. MaxJobs
    BY <1>5, FreeRevision, BundleTypes, <1>1 DEF ReadsRevision, Revisions
  <2>2. b \in Builder /\ b.pc = "rename" /\ b.revision \in Revisions
    BY <1>1, <2>1 DEF Builder, Points
  <2>3. builders' = [builders EXCEPT ![j] = b]
    BY <1>5 DEF ReadsRevision
  <2> HIDE DEF b
  <2> QED
    BY <1>5, <2>2, <2>3 DEF ReadsRevision, Moves, Asking
<1>6. CASE CleansUp(j)
  BY <1>1, <1>6, BuilderRests DEF CleansUp, Moves
<1> QED
  BY <1>2, <1>3, <1>4, <1>5, <1>6

Sound == InHand /\ AllOrNothing /\ OneEach /\ Placed /\ ReadyIsOnDisk

LEMMA MovesAreSound ==
  ASSUME BundleInv, Moves
  PROVE  Sound'
<1>1. /\ \A j \in Jobs : builders[j] \in Builder /\ j \in 1 .. MaxJobs
      /\ builders \in [1 .. MaxJobs -> Builder]
      /\ \A b \in bundles : b.job \in Jobs
  BY BundleTypes DEF BundleInv, BundleTypeOK
<1>2. Jobs' = Jobs /\ \A j \in Jobs : JobExists(j)' <=> JobExists(j)
  BY DEF Moves, Jobs, JobExists
<1>3. AllOrNothing' /\ ReadyIsOnDisk'
  BY <1>2 DEF Moves, BundleInv, AllOrNothing, ReadyIsOnDisk
<1>4. CASE UNCHANGED builders
  BY <1>2, <1>3, <1>4 DEF Moves, BundleInv, Sound, InHand, OneEach, Placed, Revisions, JobExists
<1>5. ASSUME NEW j \in Jobs, NEW b \in Builder, builders' = [builders EXCEPT ![j] = b],
             \/ /\ builders[j].pc \in Asking /\ b.pc \in Asking \cup {"rename"}
                /\ b.pc = "rename" => b.revision \in Revisions
             \/ builders[j].pc = "clean" /\ b.pc = "none"
      PROVE  InHand' /\ OneEach' /\ Placed'
  <2>1. \A k \in 1 .. MaxJobs : builders'[k] = IF k = j THEN b ELSE builders[k]
    BY <1>1, <1>5
  <2>2. InHand'
    BY <1>1, <1>2, <1>5, <2>1 DEF Moves, BundleInv, InHand, Resting, Asking
  <2>3. OneEach'
    BY <1>1, <1>2, <1>5, <2>1 DEF Moves, BundleInv, OneEach, Resting, Asking
  <2>4. Placed'
    BY <1>1, <1>2, <1>5, <2>1 DEF Moves, BundleInv, Placed, Asking, Revisions, JobExists
  <2> QED
    BY <2>2, <2>3, <2>4
<1> QED
  BY <1>3, <1>4, <1>5 DEF Moves, Sound

LEMMA RenameIsSound ==
  ASSUME BundleInv, NEW j \in Jobs, Renames(j)
  PROVE  Sound'
<1>0. \A k \in Jobs : k # 0
  BY BundleTypes DEF BundleInv, Jobs
<1>1. /\ \A k \in Jobs : builders[k] \in Builder /\ k \in 1 .. MaxJobs /\ k # 0
      /\ builders \in [1 .. MaxJobs -> Builder] /\ j \in 1 .. MaxJobs
      /\ \A b \in bundles : b.job \in Jobs /\ b.revision \in Revisions
      /\ shelf \in [Revisions -> 0 .. Len(builds)]
  BY <1>0, BundleTypes DEF BundleInv, BundleTypeOK
<1>2. Jobs' = Jobs /\ \A k \in Jobs : JobExists(k)' <=> JobExists(k)
  BY DEF Renames, Jobs, JobExists
<1> DEFINE r == builders[j].revision
<1>3. r \in Revisions /\ shelf[r] = 0 /\ builders[j].pc = "rename"
  BY DEF Renames, BuilderAt, BundleInv, Placed
<1>4. PICK b \in Builder : builders' = [builders EXCEPT ![j] = b] /\ b.pc = "insert" /\ b.revision = r
  BY PointMoves DEF Renames, BundleInv, Points
<1>5. \A k \in 1 .. MaxJobs : builders'[k] = IF k = j THEN b ELSE builders[k]
  BY <1>1, <1>4
<1>6. \A s \in Revisions : shelf'[s] = IF s = r THEN j ELSE shelf[s]
  BY <1>1, <1>3 DEF Renames
<1> HIDE DEF r
<1>7. InHand'
  BY <1>1, <1>2, <1>3, <1>4, <1>5 DEF Renames, BundleInv, InHand, Resting
<1>8. AllOrNothing'
  BY <1>2 DEF Renames, BundleInv, AllOrNothing
<1>9. OneEach'
  BY <1>1, <1>3, <1>4, <1>5 DEF Renames, BundleInv, OneEach, Resting
<1>10. Placed'
  BY <1>1, <1>2, <1>3, <1>4, <1>5, <1>6 DEF Renames, BundleInv, Placed, Revisions, JobExists
<1>11. ReadyIsOnDisk'
  BY <1>1, <1>2, <1>3, <1>6 DEF Renames, BundleInv, ReadyIsOnDisk
<1> QED
  BY <1>7, <1>8, <1>9, <1>10, <1>11 DEF Sound

LEMMA InsertionIsSound ==
  ASSUME BundleInv, NEW j \in Jobs, InsertsBundle(j)
  PROVE  Sound'
<1>1. /\ \A k \in Jobs : builders[k] \in Builder /\ k \in 1 .. MaxJobs
      /\ builders \in [1 .. MaxJobs -> Builder] /\ j \in 1 .. MaxJobs
      /\ \A b \in bundles : b.job \in Jobs /\ b.revision \in Revisions
  BY BundleTypes DEF BundleInv, BundleTypeOK
<1>2. Jobs' = Jobs /\ \A k \in Jobs : JobExists(k)' <=> JobExists(k)
  BY DEF InsertsBundle, Jobs, JobExists
<1> DEFINE new == [revision |-> builders[j].revision, job |-> j]
<1>3. new.job = j /\ new.revision = builders[j].revision /\ builders[j].pc = "insert"
      /\ JobExists(j) /\ bundles' = bundles \cup {new}
  BY DEF InsertsBundle, BuilderAt
<1> HIDE DEF new
<1>4. PICK b \in Builder : builders' = [builders EXCEPT ![j] = b] /\ b.pc = "finish"
  BY PointMoves DEF InsertsBundle, BundleInv, Points
<1>5. \A k \in 1 .. MaxJobs : builders'[k] = IF k = j THEN b ELSE builders[k]
  BY <1>1, <1>4
<1>6. InHand'
  BY <1>1, <1>2, <1>3, <1>4, <1>5 DEF InsertsBundle, BundleInv, InHand, Resting
<1>7. skilled # "gone"
  BY <1>3 DEF BundleInv, AllOrNothing, JobExists
<1>8. AllOrNothing'
  BY <1>2, <1>7 DEF InsertsBundle, BundleInv, AllOrNothing
<1>9. \A c \in bundles : c.job # j
  BY <1>3 DEF BundleInv, OneEach, Resting
<1>10. OneEach'
  BY <1>1, <1>3, <1>4, <1>5, <1>9 DEF BundleInv, OneEach, Resting
<1>11. Placed'
  BY <1>1, <1>2, <1>3, <1>4, <1>5 DEF InsertsBundle, BundleInv, Placed, Revisions, JobExists
<1>12. ReadyIsOnDisk'
  BY <1>2, <1>3 DEF InsertsBundle, BundleInv, Placed, ReadyIsOnDisk
<1> QED
  BY <1>6, <1>8, <1>10, <1>11, <1>12 DEF Sound

(* The build ends, well or not, with the status of its row.                  *)
LEMMA EndIsSound ==
  ASSUME BundleInv, NEW j \in Jobs, SetsReady(j) \/ BuildFails(j)
  PROVE  Sound'
<1>1. /\ \A k \in Jobs : builders[k] \in Builder /\ k \in 1 .. MaxJobs
      /\ builders \in [1 .. MaxJobs -> Builder] /\ j \in 1 .. MaxJobs
      /\ \A b \in bundles : b.job \in Jobs
  BY BundleTypes DEF BundleInv, BundleTypeOK
<1>2. PICK s \in {"ready", "failed"} : SetStatus(j, s) /\ (s = "ready" => builders[j].pc = "finish")
  BY DEF SetsReady, BuildFails, BuilderAt
<1>3. PICK b \in Builder : builders' = [builders EXCEPT ![j] = b] /\ b.pc \in Resting
  <2>1. CASE SetsReady(j)
    BY <2>1, PointMoves DEF SetsReady, BundleInv, Points, Resting
  <2>2. CASE BuildFails(j)
    BY <2>2, BuilderRests DEF BuildFails, BundleInv, Resting
  <2> QED
    BY <2>1, <2>2
<1>4. \A k \in 1 .. MaxJobs : builders'[k] = IF k = j THEN b ELSE builders[k]
  BY <1>1, <1>3
<1>5. /\ Len(builds') = Len(builds)
      /\ \A k \in Jobs : k # j => builds'[k] = builds[k]
      /\ builds'[j].status = IF JobExists(j) THEN s ELSE "gone"
  BY <1>2, OneStatusSet DEF BundleInv, Statuses
<1>6. Jobs' = Jobs /\ \A k \in Jobs : JobExists(k)' <=> JobExists(k)
  BY <1>2, <1>5 DEF Jobs, JobExists
<1>7. UNCHANGED <<skilled, bundles, shelf, deserted, wiping>>
  BY DEF SetsReady, BuildFails
<1>8. InHand'
  <2>1. builds'[j].status # "running"
    BY <1>2, <1>5
  <2>2. \A k \in 1 .. MaxJobs : builders'[k].pc \notin Resting =>
          k \in Jobs' /\ builds'[k].status \in {"running", "gone"}
    BY <1>3, <1>4, <1>5, <1>6 DEF BundleInv, InHand
  <2>3. \A k \in Jobs' : builds'[k].status = "running" /\ builders'[k].pc \in Resting =>
          builders'[k].pc = "none" /\ k \in deserted'
    BY <1>1, <1>4, <1>5, <1>6, <1>7, <2>1 DEF BundleInv, InHand
  <2> QED
    BY <1>5, <1>6, <2>1, <2>2, <2>3 DEF BundleInv, InHand
<1>9. AllOrNothing'
  BY <1>2, <1>5, <1>6, <1>7 DEF BundleInv, AllOrNothing, JobExists
<1>10. OneEach'
  BY <1>1, <1>3, <1>4, <1>7 DEF BundleInv, OneEach, Resting
<1>11. Placed'
  BY <1>1, <1>3, <1>4, <1>6, <1>7 DEF BundleInv, Placed, Revisions, Resting, JobExists
<1>12. ReadyIsOnDisk'
  BY <1>2, <1>5, <1>6, <1>7 DEF BundleInv, Placed, ReadyIsOnDisk, JobExists
<1> QED
  BY <1>8, <1>9, <1>10, <1>11, <1>12 DEF Sound

(* The build ends and leaves its row as it was.                              *)
LEMMA DesertionIsSound ==
  ASSUME BundleInv, NEW j \in Jobs, Deserts(j)
  PROVE  Sound'
<1>1. /\ \A k \in Jobs : builders[k] \in Builder /\ k \in 1 .. MaxJobs
      /\ builders \in [1 .. MaxJobs -> Builder] /\ j \in 1 .. MaxJobs
      /\ \A b \in bundles : b.job \in Jobs
  BY BundleTypes DEF BundleInv, BundleTypeOK
<1>2. UNCHANGED <<skilled, builds, bundles, shelf, wiping>>
  BY DEF Deserts
<1>3. Jobs' = Jobs /\ \A k \in Jobs : JobExists(k)' <=> JobExists(k)
  BY <1>2 DEF Jobs, JobExists
<1>4. \A k \in 1 .. MaxJobs : builders'[k] = IF k = j THEN NoBuilder ELSE builders[k]
  BY <1>1 DEF Deserts, BuilderEnds
<1>5. NoBuilder.pc = "none"
  BY DEF NoBuilder
<1>6. \A k \in Jobs : k \in deserted \/ (k = j /\ builds[k].status = "running") => k \in deserted'
  BY DEF Deserts
<1>7. InHand'
  BY <1>1, <1>2, <1>3, <1>4, <1>5, <1>6 DEF BundleInv, InHand, Resting
<1>8. AllOrNothing' /\ ReadyIsOnDisk'
  BY <1>2, <1>3 DEF BundleInv, AllOrNothing, ReadyIsOnDisk
<1>9. OneEach'
  BY <1>1, <1>2, <1>4, <1>5 DEF BundleInv, OneEach, Resting
<1>10. Placed'
  BY <1>1, <1>2, <1>3, <1>4, <1>5 DEF BundleInv, Placed, Revisions, JobExists
<1> QED
  BY <1>7, <1>8, <1>9, <1>10 DEF Sound

(* A new row for a running build, if the artifact is there and no other runs. *)
LEMMA InsertedIsSound ==
  ASSUME BundleInv, NEW i, BuildInserts(i), skilled # "gone", ~BuildRunning
  PROVE  /\ Sound' /\ builds' \in Seq(BuildRow) /\ Len(builds') = Len(builds) + 1
         /\ Len(builds') =< MaxJobs /\ builders' \in [1 .. MaxJobs -> Builder]
<1> DEFINE n == Len(builds) + 1
           row == [status |-> "running", input |-> i]
<1>1. /\ \A k \in Jobs : builders[k] \in Builder /\ k \in 1 .. MaxJobs
      /\ builders \in [1 .. MaxJobs -> Builder]
      /\ \A b \in bundles : b.job \in Jobs
      /\ builds \in Seq(BuildRow) /\ Len(builds) \in Nat /\ MaxJobs \in Nat
      /\ Jobs = 1 .. Len(builds)
  BY BundleTypes DEF BundleInv, BundleTypeOK, Jobs
<1>2. row \in BuildRow /\ row.status = "running"
  BY DEF BuildInserts, BundleInv, BundleTypeOK, BuildRow, Statuses
<1>3. builds' = Append(builds, row) /\ builders' = [builders EXCEPT ![n].pc = "lookup"]
      /\ Len(builds) < MaxJobs /\ UNCHANGED <<skilled, bundles, shelf, wiping>>
  BY DEF BuildInserts
<1> HIDE DEF row
<1>4. /\ builds' \in Seq(BuildRow) /\ Len(builds') = n /\ builds'[n] = row
      /\ \A k \in Jobs : builds'[k] = builds[k]
  BY <1>1, <1>2, <1>3
<1>5. n \in 1 .. MaxJobs /\ n \notin Jobs /\ Jobs' = Jobs \cup {n}
  <2>1. n \in 1 .. MaxJobs /\ n \notin Jobs
    BY <1>1, <1>3
  <2>2. Jobs' = 1 .. Len(builds')
    BY DEF Jobs
  <2> QED
    BY <1>1, <1>4, <2>1, <2>2
<1> DEFINE b == [builders[n] EXCEPT !.pc = "lookup"]
<1>6. b \in Builder /\ b.pc = "lookup" /\ builders' = [builders EXCEPT ![n] = b]
  <2>1. builders[n] \in Builder
    BY <1>1, <1>5
  <2>2. b \in Builder /\ b.pc = "lookup"
    BY <2>1 DEF Builder, Points
  <2>3. builders' = [builders EXCEPT ![n] = b]
    BY <1>3
  <2> QED
    BY <2>2, <2>3
<1> HIDE DEF n, b
<1>7. \A k \in 1 .. MaxJobs : builders'[k] = IF k = n THEN b ELSE builders[k]
  BY <1>1, <1>6
<1>8. \A k \in Jobs : builds[k].status \notin {"running", "gone"}
  BY DEF BuildRunning, BundleInv, AllOrNothing
<1>9. InHand'
  <2>1. ASSUME NEW k \in 1 .. MaxJobs, builders'[k].pc \notin Resting
        PROVE  k \in Jobs' /\ builds'[k].status \in {"running", "gone"}
    <3>1. CASE k = n
      BY <1>2, <1>4, <1>5, <3>1
    <3>2. CASE k # n
      BY <1>4, <1>5, <1>7, <2>1, <3>2 DEF BundleInv, InHand
    <3> QED
      BY <3>1, <3>2
  <2>2. ASSUME NEW k \in Jobs', builds'[k].status = "running"
        PROVE  k = n /\ builders'[k].pc \notin Resting
    <3>1. k = n
      BY <1>4, <1>5, <1>8, <2>2
    <3> QED
      BY <1>5, <1>6, <1>7, <3>1 DEF Resting
  <2> QED
    BY <2>1, <2>2 DEF InHand
<1>10. AllOrNothing'
  BY <1>2, <1>3, <1>4, <1>5 DEF BundleInv, AllOrNothing
<1>11. OneEach'
  BY <1>1, <1>3, <1>5, <1>7 DEF BundleInv, OneEach
<1>12. Placed'
  BY <1>1, <1>3, <1>4, <1>5, <1>6, <1>7 DEF BundleInv, Placed, Revisions, JobExists
<1>13. ReadyIsOnDisk'
  BY <1>2, <1>3, <1>4, <1>5 DEF BundleInv, ReadyIsOnDisk
<1>14. builders' \in [1 .. MaxJobs -> Builder]
  BY <1>1, <1>5, <1>6
<1> QED
  BY <1>1, <1>3, <1>4, <1>5, <1>9, <1>10, <1>11, <1>12, <1>13, <1>14 DEF Sound, n

(* What the rows of the builds become at a full deletion or a restart.       *)
LEMMA RowsReplaced ==
  ASSUME BundleTypeOK, WipeRows \/ CrashAndReopen
  PROVE  /\ builds' \in Seq(BuildRow) /\ Len(builds') = Len(builds)
         /\ WipeRows => \A j \in Jobs : builds'[j].status = "gone"
         /\ CrashAndReopen => \A j \in Jobs : builds'[j].status = Interrupted(builds[j].status)
<1>1. \A j \in Jobs : builds[j] \in BuildRow
  BY BundleTypes
<1>2. CASE WipeRows
  <2>1. builds' \in [Jobs -> BuildRow] /\ \A j \in Jobs : builds'[j].status = "gone"
    BY <1>1, <1>2 DEF WipeRows, BuildRow, Statuses
  <2>2. WipeRows /\ CrashAndReopen => FALSE
    BY DEF WipeRows, CrashAndReopen, BundleTypeOK
  <2> QED
    BY <1>2, <2>1, <2>2, RowForRow
<1>3. CASE CrashAndReopen
  <2>1. builds' \in [Jobs -> BuildRow]
        /\ \A j \in Jobs : builds'[j].status = Interrupted(builds[j].status)
    BY <1>1, <1>3 DEF CrashAndReopen, BuildRow, Statuses, Interrupted
  <2>2. WipeRows /\ CrashAndReopen => FALSE
    BY DEF WipeRows, CrashAndReopen, BundleTypeOK
  <2> QED
    BY <1>3, <2>1, <2>2, RowForRow
<1> QED
  BY <1>2, <1>3

LEMMA WipeIsSound ==
  ASSUME BundleInv, WipeRows
  PROVE  Sound'
<1>1. Jobs' = Jobs /\ \A j \in Jobs : builds'[j].status = "gone"
  BY RowsReplaced DEF BundleInv, Jobs
<1>2. InHand'
  BY <1>1 DEF WipeRows, BundleInv, InHand
<1>3. AllOrNothing' /\ OneEach' /\ ReadyIsOnDisk'
  BY <1>1 DEF WipeRows, AllOrNothing, OneEach, ReadyIsOnDisk
<1>4. Placed'
  BY <1>1 DEF WipeRows, BundleInv, Placed, JobExists, Revisions
<1> QED
  BY <1>2, <1>3, <1>4 DEF Sound

LEMMA RestartIsSound ==
  ASSUME BundleInv, CrashAndReopen
  PROVE  Sound'
<1>1. Jobs' = Jobs /\ \A j \in Jobs : builds'[j].status = Interrupted(builds[j].status)
  BY RowsReplaced DEF BundleInv, Jobs
<1>2. \A j \in 1 .. MaxJobs : builders'[j].pc = "none"
  BY DEF CrashAndReopen, NoBuilder
<1>3. \A j \in Jobs : j \in 1 .. MaxJobs
  BY BundleTypes DEF BundleInv
<1>4. \A j \in Jobs : /\ builds'[j].status # "running"
                      /\ builds'[j].status = "ready" <=> builds[j].status = "ready"
                      /\ builds'[j].status = "gone" <=> builds[j].status = "gone"
  BY <1>1 DEF Interrupted
<1>5. InHand' /\ Placed'
  BY <1>1, <1>2, <1>3, <1>4 DEF InHand, Placed, Resting
<1>6. AllOrNothing' /\ ReadyIsOnDisk'
  BY <1>1, <1>4 DEF CrashAndReopen, BundleInv, AllOrNothing, ReadyIsOnDisk
<1>7. OneEach'
  BY <1>2, <1>3 DEF CrashAndReopen, BundleInv, BundleTypeOK, OneEach, Resting
<1> QED
  BY <1>5, <1>6, <1>7 DEF Sound

(* The directories go when the rows have gone. *)
LEMMA DirectoriesGo ==
  ASSUME BundleInv, WipeBundles \/ WipeWorkspaces
  PROVE  Sound'
<1>1. skilled = "gone" /\ bundles = {} /\ \A j \in Jobs : ~JobExists(j)
  BY DEF WipeBundles, WipeWorkspaces, BundleInv, AllOrNothing, JobExists
<1>2. Jobs' = Jobs /\ UNCHANGED <<builds, bundles, builders, deserted, skilled>>
  BY DEF WipeBundles, WipeWorkspaces, Jobs
<1>3. InHand' /\ OneEach'
  BY <1>1, <1>2 DEF BundleInv, InHand, OneEach
<1>4. Placed'
  BY <1>1, <1>2 DEF BundleInv, Placed, JobExists, Revisions
<1>5. AllOrNothing' /\ ReadyIsOnDisk'
  BY <1>1, <1>2 DEF AllOrNothing, ReadyIsOnDisk, JobExists
<1> QED
  BY <1>3, <1>4, <1>5 DEF Sound

-----------------------------------------------------------------------------
LEMMA EveryStepIsSound ==
  ASSUME BundleInv, [BundleNext]_bundleVars
  PROVE  Sound'
<1>1. CASE BuildReads \/ IntentChanges \/ RemoveSkilled \/ ForgetWorkflows \/ UNCHANGED bundleVars
  <2>1. Moves
    BY <1>1 DEF BuildReads, IntentChanges, RemoveSkilled, ForgetWorkflows, bundleVars, Moves
  <2> QED
    BY <2>1, MovesAreSound
<1>2. ASSUME NEW i \in 1 .. MaxInputs, BuildInserts(i) PROVE Sound'
  <2>1. CASE skilled # "gone" /\ ~BuildRunning
    BY <1>2, <2>1, InsertedIsSound
  <2>2. CASE ~(skilled # "gone" /\ ~BuildRunning)
    <3>1. Moves
      BY <1>2, <2>2 DEF BuildInserts, Moves
    <3> QED
      BY <3>1, MovesAreSound
  <2> QED
    BY <2>1, <2>2
<1>3. ASSUME NEW j \in Jobs, BuilderStep(j) PROVE Sound'
  BY <1>3, AskingMoves, MovesAreSound, RenameIsSound, InsertionIsSound, EndIsSound,
     DesertionIsSound DEF BuilderStep
<1> QED
  BY <1>1, <1>2, <1>3, WipeIsSound, DirectoriesGo, RestartIsSound DEF BundleNext

LEMMA EveryStepIsTyped ==
  ASSUME BundleInv, [BundleNext]_bundleVars
  PROVE  BundleTypeOK'
<1> DEFINE Rest == /\ skilled \in {"active", "removed", "gone"} /\ intent \in Nat
                   /\ wiping \in {"no", "bundles", "workspaces"} /\ asking \subseteq Nat
           Table == builds \in Seq(BuildRow) /\ Len(builds) =< MaxJobs
           Shelved == /\ bundles \subseteq [revision : Revisions, job : Jobs]
                      /\ shelf \in [Revisions -> 0 .. Len(builds)]
                      /\ workspaces \subseteq Jobs
                      /\ workflows \subseteq [job : Jobs, input : Nat]
                      /\ deserted \subseteq Jobs
           Tasks == builders \in [1 .. MaxJobs -> Builder]
<1>0. /\ Rest /\ Table /\ Shelved /\ Tasks
      /\ Len(builds) \in Nat /\ MaxJobs \in Nat
      /\ \A j \in Jobs : builds[j] \in BuildRow /\ j \in 1 .. MaxJobs
      /\ 0 \in 0 .. Len(builds)
  <2>1. BundleTypeOK
    BY DEF BundleInv
  <2>2. Len(builds) \in Nat /\ Table /\ Tasks /\ MaxJobs \in Nat
    BY <2>1, BundleTypes
  <2>3. Rest /\ Shelved
    BY <2>1 DEF BundleTypeOK
  <2>4. 0 \in 0 .. Len(builds)
    BY <2>2
  <2> QED
    BY <2>1, <2>2, <2>3, <2>4, BundleTypes
<1>1. Rest' /\ Table' /\ Shelved' /\ Tasks' => BundleTypeOK'
  BY DEF BundleTypeOK, BuildRow, Statuses, Builder, Points
<1>2. CASE UNCHANGED bundleVars
  BY <1>0, <1>1, <1>2 DEF bundleVars, Jobs, Revisions
<1>3. CASE BuildReads \/ IntentChanges \/ RemoveSkilled \/ ForgetWorkflows
  <2>0. 1 .. MaxInputs \subseteq Nat
    BY BundleAssumption
  <2>1. Rest'
    <3>1. CASE BuildReads
      BY <1>0, <3>1 DEF BuildReads
    <3>2. CASE IntentChanges
      BY <1>0, <2>0, <3>2 DEF IntentChanges
    <3>3. CASE RemoveSkilled \/ ForgetWorkflows
      BY <1>0, <3>3 DEF RemoveSkilled, ForgetWorkflows
    <3> QED
      BY <1>3, <3>1, <3>2, <3>3
  <2>2. Table' /\ Shelved' /\ Tasks'
    BY <1>0, <1>3 DEF BuildReads, IntentChanges, RemoveSkilled, ForgetWorkflows, Jobs, Revisions
  <2> QED
    BY <1>1, <2>1, <2>2
<1>4. ASSUME NEW i \in 1 .. MaxInputs, BuildInserts(i) PROVE BundleTypeOK'
  <2>1. Rest'
    BY <1>0, <1>4 DEF BuildInserts
  <2>2. CASE skilled # "gone" /\ ~BuildRunning
    <3>1. Table' /\ Tasks' /\ Len(builds') = Len(builds) + 1
      BY <1>4, <2>2, InsertedIsSound
    <3>2. Jobs \subseteq Jobs' /\ 0 .. Len(builds) \subseteq 0 .. Len(builds')
      BY <1>0, <3>1 DEF Jobs
    <3>3. Shelved'
      BY <1>0, <1>4, <3>2 DEF BuildInserts, Revisions
    <3> QED
      BY <1>1, <2>1, <3>1, <3>3
  <2>3. CASE ~(skilled # "gone" /\ ~BuildRunning)
    <3>1. Table' /\ Shelved' /\ Tasks'
      BY <1>0, <1>4, <2>3 DEF BuildInserts, Jobs, Revisions
    <3> QED
      BY <1>1, <2>1, <3>1
  <2> QED
    BY <2>2, <2>3
<1>5. ASSUME NEW j \in Jobs,
             \/ LooksUp(j) \/ Prepares(j) \/ Investigates(j) \/ RecordsWorkflow(j)
             \/ Drafts(j) \/ Reviews(j) \/ ReadsRevision(j) \/ CleansUp(j)
      PROVE  BundleTypeOK'
  <2>1. Moves
    BY <1>5, AskingMoves
  <2>2. Tasks' /\ Table'
    BY <1>0, <2>1 DEF Moves
  <2>3. Rest'
    BY <1>0, <1>5 DEF LooksUp, Prepares, Investigates, RecordsWorkflow, Drafts, Reviews,
      ReadsRevision, CleansUp
  <2>4. workspaces' \subseteq Jobs /\ workflows' \subseteq [job : Jobs, input : Nat]
    BY <1>0, <1>5 DEF LooksUp, Prepares, Investigates, RecordsWorkflow, Drafts, Reviews,
      ReadsRevision, CleansUp, BuildRow
  <2>5. Shelved'
    BY <1>0, <2>1, <2>4 DEF Moves, Jobs, Revisions
  <2> QED
    BY <1>1, <2>2, <2>3, <2>5
<1>6. ASSUME NEW j \in Jobs, Renames(j) \/ InsertsBundle(j) PROVE BundleTypeOK'
  <2>1. builders[j].revision \in Revisions
    BY <1>6 DEF BundleInv, Placed, Renames, InsertsBundle, BuilderAt
  <2>2. j \in 0 .. Len(builds)
    BY <1>0 DEF Jobs
  <2>3. Rest' /\ Table'
    BY <1>0, <1>6 DEF Renames, InsertsBundle
  <2>4. Shelved'
    <3>1. CASE Renames(j)
      BY <1>0, <2>1, <2>2, <3>1 DEF Renames, Jobs, Revisions
    <3>2. CASE InsertsBundle(j)
      BY <1>0, <2>1, <3>2 DEF InsertsBundle, Jobs, Revisions
    <3> QED
      BY <1>6, <3>1, <3>2
  <2>5. PICK point \in Points : BuilderGoes(j, point)
    BY <1>6 DEF Renames, InsertsBundle, Points
  <2>6. Tasks'
    BY <1>0, <2>5, PointMoves DEF BundleInv
  <2> QED
    BY <1>1, <2>3, <2>4, <2>6
<1>7. ASSUME NEW j \in Jobs, SetsReady(j) \/ BuildFails(j) PROVE BundleTypeOK'
  <2>1. PICK s \in Statuses : SetStatus(j, s)
    BY <1>7 DEF SetsReady, BuildFails, Statuses
  <2>2. builds' \in Seq(BuildRow) /\ Len(builds') = Len(builds)
    BY <2>1, OneStatusSet DEF BundleInv
  <2>3. Rest' /\ Table'
    BY <1>0, <1>7, <2>2 DEF SetsReady, BuildFails
  <2>4. Shelved'
    BY <1>0, <1>7, <2>2 DEF SetsReady, BuildFails, Jobs, Revisions
  <2>5. PICK b \in Builder : builders' = [builders EXCEPT ![j] = b]
    BY <1>7, PointMoves, BuilderRests DEF SetsReady, BuildFails, BundleInv, Points
  <2> QED
    BY <1>0, <1>1, <2>3, <2>4, <2>5
<1>8. CASE WipeRows \/ CrashAndReopen
  <2>1. builds' \in Seq(BuildRow) /\ Len(builds') = Len(builds)
    BY <1>8, RowsReplaced DEF BundleInv
  <2>2. Rest' /\ Table'
    BY <1>0, <1>8, <2>1 DEF WipeRows, CrashAndReopen
  <2>3. Shelved'
    BY <1>0, <1>8, <2>1 DEF WipeRows, CrashAndReopen, Jobs, Revisions
  <2>4. Tasks'
    <3>1. NoBuilder \in Builder
      <4>1. 0 \in 0 .. MaxJobs
        BY <1>0
      <4> QED
        BY <4>1 DEF NoBuilder, Builder, Points
    <3> QED
      BY <1>0, <1>8, <3>1 DEF WipeRows, CrashAndReopen
  <2> QED
    BY <1>1, <2>2, <2>3, <2>4
<1>9. CASE WipeBundles \/ WipeWorkspaces
  <2>1. Rest' /\ Table' /\ Tasks'
    BY <1>0, <1>9 DEF WipeBundles, WipeWorkspaces
  <2>2. Shelved'
    BY <1>0, <1>9 DEF WipeBundles, WipeWorkspaces, Jobs, Revisions
  <2> QED
    BY <1>1, <2>1, <2>2
<1>10. ASSUME NEW j \in Jobs, Deserts(j) PROVE BundleTypeOK'
  <2>1. Rest' /\ Table' /\ Shelved'
    BY <1>0, <1>10 DEF Deserts, Jobs, Revisions
  <2>2. Tasks'
    BY <1>0, <1>10, BuilderRests DEF Deserts, BundleInv
  <2> QED
    BY <1>1, <2>1, <2>2
<1> QED
  BY <1>2, <1>3, <1>4, <1>5, <1>6, <1>7, <1>8, <1>9, <1>10 DEF BundleNext, BuilderStep

LEMMA BundleInvHolds == BundleSpec => []BundleInv
<1>1. BundleInv /\ [BundleNext]_bundleVars => BundleInv'
  BY EveryStepIsSound, EveryStepIsTyped DEF Sound, BundleInv
<1> QED
  BY <1>1, BundleInitInv, PTL DEF BundleSpec

(* The rows, directories and tasks of the builds keep their types.           *)
THEOREM BundlesTypeCorrect == BundleSpec => []BundleTypeOK
<1>1. BundleInv => BundleTypeOK
  BY DEF BundleInv
<1> QED
  BY <1>1, BundleInvHolds, PTL

(* A job that reads "ready" has its bundle, and the directory of every       *)
(* bundle is the output of the build it names, although directory, row and  *)
(* status are written one after the other and builds, deletions and restarts*)
(* come between (skill_bundle.rs).                                          *)
THEOREM ReadyBundlesAreOnDisk == BundleSpec => []ReadyIsOnDisk
<1>1. BundleInv => ReadyIsOnDisk
  BY DEF BundleInv
<1> QED
  BY <1>1, BundleInvHolds, PTL

(* A job that reads "running" has its task, unless a statement that failed   *)
(* has deserted it in this process, and no other task builds: what          *)
(* one_active_artifact_bundle_job keeps out is a build that somebody does,  *)
(* or one whose lookup, or whose write of "failed", has failed.             *)
THEOREM RunningBuildsHaveTheirTask == BundleSpec => []RunningIsBuilt
<1>1. ASSUME BundleInv, NEW j \in Jobs, builds[j].status = "running"
      PROVE  /\ builders[j].pc = "none" => j \in deserted
             /\ \A k \in Jobs \ {j} : builders[k].pc \in Resting
  <2>1. ASSUME NEW k \in Jobs \ {j} PROVE builders[k].pc \in Resting
    <3>1. k \in 1 .. MaxJobs
      BY <1>1, BundleTypes DEF BundleInv
    <3>2. builds[k].status # "gone"
      BY <1>1 DEF BundleInv, AllOrNothing
    <3> QED
      BY <1>1, <3>1, <3>2 DEF BundleInv, InHand
  <2> QED
    BY <1>1, <2>1 DEF BundleInv, InHand, Resting
<1>2. BundleInv => RunningIsBuilt
  BY <1>1 DEF RunningIsBuilt, Resting
<1> QED
  BY <1>2, BundleInvHolds, PTL
=============================================================================
