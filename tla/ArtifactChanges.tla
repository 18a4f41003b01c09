-------------------------- MODULE ArtifactChanges --------------------------
(***************************************************************************)
(* One Ready-to-use artifact and the changes the user asks for             *)
(* (crates/dystil-insights/src/artifact_engine.rs, artifact.rs).  A change *)
(* is a job cut from the current version; an invocation runs it against    *)
(* the model and files a preview, which the user confirms or rejects.      *)
(* Nothing keeps two invocations from running one job.                     *)
(*                                                                         *)
(* A body is the number of the answer it came with; version 1, which was   *)
(* kept from a card or from an answer of Ask for a fix, has body 0.        *)
(***************************************************************************)
EXTENDS Integers, Sequences

CONSTANTS
  Requests,        \* bound: what the user asks to change
  Editors,         \* bound: invocations alive at once
  NoChange,
  MaxVersions,     \* bound: versions of the artifact
  MaxAnswers,      \* bound: answers of the model
  MaxLosses        \* bound: provider failures and crashes

ASSUME ChangeAssumption ==
  {MaxVersions, MaxAnswers, MaxLosses} \subseteq Nat

VARIABLES
  artifact,    \* the row of artifacts and its artifact_versions
  changes,     \* the rows of artifact_change_jobs
  editors,     \* where each invocation is
  shown,       \* the bodies each change was previewed with
  answers,     \* how many answers there were
  losses

changeVars == <<artifact, changes, editors, shown, answers, losses>>

(* A job is found by its fingerprint: the version it was cut from and the    *)
(* request.                                                                 *)
Changes  == [base : 1..MaxVersions, request : Requests]
ChangeStatuses == {"none", "pending", "running", "preview_ready", "rejected",
                   "accepted"}
Editing(point, c) == [pc |-> point, change |-> c, invalid |-> 0]
NoEdit == Editing("idle", NoChange)

ChangeInit ==
  /\ artifact = [status |-> "active",
                 versions |-> <<[change |-> NoChange, body |-> 0]>>]
  /\ changes = [c \in Changes |-> [status |-> "none", body |-> 0]]
  /\ editors = [e \in Editors |-> NoEdit]
  /\ shown = {} /\ answers = 0 /\ losses = 0

CurrentVersion == Len(artifact.versions)

Underway == {"pending", "running", "preview_ready"}

(* one_active_artifact_change_job: no other job of the artifact is under     *)
(* way.                                                                     *)
MayBeActive(c) == \A d \in Changes \ {c} : changes[d].status \notin Underway

ChangeExists(c) == changes[c].status # "none"

(* An UPDATE of a row that may be gone. *)
SetChange(c, status, body) ==
  changes' = IF ChangeExists(c)
             THEN [changes EXCEPT ![c] = [status |-> status, body |-> body]]
             ELSE changes

(* The user names a job that a preview came with. *)
Known(c) == \E body \in 0..answers : <<c, body>> \in shown

EditorAt(e, point) == editors[e].pc = point
EditorGoes(e, point) == editors' = [editors EXCEPT ![e].pc = point]
EditorReturns(e) == editors' = [editors EXCEPT ![e] = NoEdit]

-----------------------------------------------------------------------------
(* propose_artifact_change *)

(* A job under way is run again, whatever it was asked for; otherwise the    *)
(* current version is read ...                                              *)
ProposeChange(e, q) ==
  /\ EditorAt(e, "idle")
  /\ \/ \E c \in Changes :
          /\ changes[c].status \in Underway
          /\ editors' = [editors EXCEPT ![e] = Editing("run", c)]
     \/ /\ \A c \in Changes : changes[c].status \notin Underway
        /\ artifact.status = "active" /\ CurrentVersion < MaxVersions
        /\ editors' = [editors EXCEPT ![e] =
             Editing("insert", [base |-> CurrentVersion, request |-> q])]
  /\ UNCHANGED <<artifact, changes, shown, answers, losses>>

(* ... and the job is found by its fingerprint, or inserted. *)
InsertChange(e) ==
  /\ EditorAt(e, "insert")
  /\ LET c == editors[e].change IN
     IF ChangeExists(c) THEN EditorGoes(e, "run") /\ UNCHANGED changes
     ELSE IF MayBeActive(c)
     THEN /\ EditorGoes(e, "run")
          /\ changes' = [changes EXCEPT ![c].status = "pending"]
     ELSE EditorReturns(e) /\ UNCHANGED changes
  /\ UNCHANGED <<artifact, shown, answers, losses>>

(* retry_artifact_change *)
RetryChange(e, c) ==
  /\ EditorAt(e, "idle") /\ Known(c)
  /\ changes[c].status \in {"preview_ready", "rejected", "pending"}
  /\ MayBeActive(c)
  /\ SetChange(c, "pending", 0)
  /\ editors' = [editors EXCEPT ![e] = Editing("run", c)]
  /\ UNCHANGED <<artifact, shown, answers, losses>>

-----------------------------------------------------------------------------
(* run_job *)

(* preview_for_job joins the version the change was cut from. *)
HasPreview(c) ==
  changes[c].status \in {"preview_ready", "accepted"} /\ c.base =< CurrentVersion

(* A preview on file is the answer; else the status is read ... *)
RunReads(e) ==
  /\ EditorAt(e, "run")
  /\ LET c == editors[e].change IN
     \/ /\ HasPreview(c)
        /\ shown' = shown \cup {<<c, changes[c].body>>} /\ EditorReturns(e)
     \/ /\ ~HasPreview(c) /\ UNCHANGED shown
        /\ IF changes[c].status \in {"pending", "running", "rejected"}
           THEN EditorGoes(e, "mark") ELSE EditorReturns(e)
  /\ UNCHANGED <<artifact, changes, answers, losses>>

(* ... and the job is marked running, whatever it has become. *)
RunMarks(e) ==
  /\ EditorAt(e, "mark")
  /\ LET c == editors[e].change IN
     IF MayBeActive(c)
     THEN SetChange(c, "running", changes[c].body) /\ EditorGoes(e, "think")
     ELSE EditorReturns(e) /\ UNCHANGED changes
  /\ UNCHANGED <<artifact, shown, answers, losses>>

(* A valid answer becomes the preview. *)
ModelAnswers(e) ==
  /\ EditorAt(e, "think") /\ answers < MaxAnswers
  /\ answers' = answers + 1
  /\ LET c == editors[e].change IN
     IF ChangeExists(c) /\ MayBeActive(c)
     THEN SetChange(c, "preview_ready", answers + 1) /\ EditorGoes(e, "answered")
     ELSE EditorReturns(e) /\ UNCHANGED changes
  /\ UNCHANGED <<artifact, shown, losses>>

(* It is read back, if it is still there. *)
ShowsPreview(e) ==
  /\ EditorAt(e, "answered") /\ EditorReturns(e)
  /\ LET c == editors[e].change IN
     shown' = IF HasPreview(c) THEN shown \cup {<<c, changes[c].body>>} ELSE shown
  /\ UNCHANGED <<artifact, changes, answers, losses>>

(* The second invalid answer gives the job up; its attempts are recorded     *)
(* first, which fails when the job is gone.                                 *)
ModelErrs(e) ==
  /\ EditorAt(e, "think") /\ losses < MaxLosses /\ losses' = losses + 1
  /\ LET c == editors[e].change IN
     IF ChangeExists(c) /\ editors[e].invalid = 0
     THEN editors' = [editors EXCEPT ![e].invalid = 1] /\ UNCHANGED changes
     ELSE /\ EditorReturns(e)
          /\ IF ChangeExists(c) THEN SetChange(c, "rejected", changes[c].body)
             ELSE UNCHANGED changes
  /\ UNCHANGED <<artifact, shown, answers>>

ProviderErrs(e) ==
  /\ EditorAt(e, "think") /\ losses < MaxLosses /\ losses' = losses + 1
  /\ EditorReturns(e)
  /\ LET c == editors[e].change IN
     IF ChangeExists(c) /\ MayBeActive(c) THEN SetChange(c, "pending", changes[c].body)
     ELSE UNCHANGED changes
  /\ UNCHANGED <<artifact, shown, answers>>

-----------------------------------------------------------------------------
(* The user decides.  Each is one transaction. *)

AppendVersion(c) ==
  artifact' = [artifact EXCEPT !.versions =
                 Append(@, [change |-> c, body |-> changes[c].body])]

(* The version is not compared. *)
ConfirmOverAny(c) ==
  /\ Known(c)
  /\ changes[c].status = "preview_ready" /\ artifact.status = "active"
  /\ CurrentVersion < MaxVersions
  /\ AppendVersion(c)
  /\ SetChange(c, "accepted", changes[c].body)
  /\ UNCHANGED <<editors, shown, answers, losses>>

(* confirm_artifact_change *)
ConfirmChange(c) ==
  /\ Known(c)
  /\ changes[c].status = "preview_ready" /\ artifact.status = "active"
  /\ c.base = CurrentVersion
  /\ AppendVersion(c)
  /\ SetChange(c, "accepted", changes[c].body)
  /\ UNCHANGED <<editors, shown, answers, losses>>

(* reject_artifact_change *)
RejectChange(c) ==
  /\ Known(c)
  /\ changes[c].status \in {"preview_ready", "rejected"}
  /\ SetChange(c, "rejected", 0)
  /\ UNCHANGED <<artifact, editors, shown, answers, losses>>

(* remove_artifact *)
RemoveArtifact ==
  /\ artifact.status = "active"
  /\ artifact' = [status |-> "removed", versions |-> <<>>]
  /\ changes' = [c \in Changes |-> [status |-> "none", body |-> 0]]
  /\ UNCHANGED <<editors, shown, answers, losses>>

EditorCrash ==
  /\ losses < MaxLosses /\ losses' = losses + 1
  /\ editors' = [e \in Editors |-> NoEdit]
  /\ UNCHANGED <<artifact, changes, shown, answers>>

EditorStep(e) ==
  \/ InsertChange(e) \/ RunReads(e) \/ RunMarks(e)
  \/ ModelAnswers(e) \/ ShowsPreview(e) \/ ModelErrs(e) \/ ProviderErrs(e)

ChangeNext ==
  \/ \E e \in Editors :
       \/ \E q \in Requests : ProposeChange(e, q)
       \/ \E c \in Changes : RetryChange(e, c)
       \/ EditorStep(e)
  \/ \E c \in Changes : ConfirmChange(c) \/ RejectChange(c)
  \/ RemoveArtifact
  \/ EditorCrash

ChangeSpec == ChangeInit /\ [][ChangeNext]_changeVars

-----------------------------------------------------------------------------
(* Properties. *)

(* The variables hold what the columns and the locals allow. *)
ChangeTypeOK ==
  /\ artifact \in [status : {"active", "removed"},
       versions : Seq([change : Changes \cup {NoChange}, body : Nat])]
  /\ changes \in [Changes -> [status : ChangeStatuses, body : Nat]]
  /\ editors \in [Editors ->
       [pc : {"idle", "insert", "run", "mark", "think", "answered"},
        change : Changes \cup {NoChange}, invalid : 0..1]]
  /\ shown \subseteq Changes \X Nat
  /\ answers \in Nat /\ losses \in Nat

(* No change is lost under another: a version replaces the one its change    *)
(* was cut from, and a removed artifact has none.                           *)
NoLostUpdate ==
  /\ \A n \in 2..CurrentVersion : artifact.versions[n].change.base = n - 1
  /\ artifact.status = "removed" => CurrentVersion = 0
=============================================================================
