---------------------------- MODULE SkillBundles ----------------------------
(***************************************************************************)
(* Building the portable skill of a Ready-to-use artifact                  *)
(* (crates/dystil-insights/src/skill_bundle.rs).  A build is a job in the  *)
(* database and a task of this process: it reconstructs the workflow from  *)
(* retained evidence, has a bundle written and reviewed in a workspace,    *)
(* and files the bundle as the artifact's next revision: first its         *)
(* directory, then its row, then the status of the job.  Deletions of      *)
(* captured data run beside it.                                            *)
(*                                                                         *)
(* There is one artifact.  A job is its number, and what is built from,    *)
(* which the code identifies by a fingerprint, is a number too.  The       *)
(* phases that only ask the provider are one step for each kind of         *)
(* outcome.                                                                *)
(***************************************************************************)
EXTENDS Integers, FiniteSets, Sequences

CONSTANTS
  MaxJobs,      \* bound: builds of the artifact
  MaxInputs,    \* bound: what the builds are made from
  MaxForgets,   \* bound: scoped deletions
  MaxRestarts   \* bound: crashes of the app

ASSUME BundleAssumption ==
  {MaxJobs, MaxInputs, MaxForgets, MaxRestarts} \subseteq Nat

VARIABLES
  skilled,     \* the artifact's row: "active", "removed" or "gone"
  intent,      \* what a build would be made from now
  builds,      \* the rows of artifact_bundle_jobs
  bundles,     \* the rows of artifact_bundles
  shelf,       \* skill-bundles/<artifact>: who made revision r, 0 for nobody
  workspaces,  \* skill-bundle-builds: jobs whose directory has an output
  workflows,   \* the rows of artifact_workflow_reconstructions
  asking,      \* starts that found no ready job and are still to insert
  builders,    \* the task of each job
  deserted,    \* history: jobs left without a task and with their row as it was,
               \*   by a statement that failed in this process
  wiping,      \* where a full deletion is
  forgets, restarts

bundleVars == <<skilled, intent, builds, bundles, shelf, workspaces, workflows,
                asking, builders, deserted, wiping, forgets, restarts>>

Jobs      == 1 .. Len(builds)
Revisions == 1 .. MaxJobs
NoBuilder == [pc |-> "none", cached |-> FALSE, revision |-> 0, rewritten |-> FALSE]

BundleInit ==
  /\ skilled = "active" /\ intent = 1
  /\ builds = <<>> /\ bundles = {} /\ shelf = [r \in Revisions |-> 0]
  /\ workspaces = {} /\ workflows = {}
  /\ asking = {} /\ builders = [j \in 1 .. MaxJobs |-> NoBuilder] /\ deserted = {}
  /\ wiping = "no" /\ forgets = 0 /\ restarts = 0

BuilderAt(j, point) == j \in Jobs /\ builders[j].pc = point
BuilderGoes(j, point) == builders' = [builders EXCEPT ![j].pc = point]
BuilderEnds(j) == builders' = [builders EXCEPT ![j] = NoBuilder]

JobExists(j) == builds[j].status # "gone"

(* An UPDATE of the job's row, which may be gone. *)
SetStatus(j, status) ==
  builds' = IF JobExists(j) THEN [builds EXCEPT ![j].status = status] ELSE builds

(* one_active_artifact_bundle_job *)
BuildRunning == \E j \in Jobs : builds[j].status = "running"

-----------------------------------------------------------------------------
(* start_skill_bundle_build *)

(* The input is read, and a ready job made from it is the answer ... *)
BuildReads ==
  /\ skilled = "active"
  /\ \A j \in Jobs : ~(builds[j].status = "ready" /\ builds[j].input = intent)
  /\ intent \notin asking /\ asking' = asking \cup {intent}
  /\ UNCHANGED <<skilled, intent, builds, bundles, shelf, workspaces,
                 workflows, builders, deserted, wiping, forgets, restarts>>

(* ... else the job is inserted, unless one is running or the artifact has   *)
(* gone.                                                                    *)
BuildInserts(i) ==
  /\ i \in asking /\ asking' = asking \ {i}
  /\ Len(builds) < MaxJobs
  /\ IF skilled # "gone" /\ ~BuildRunning
     THEN /\ builds' = Append(builds, [status |-> "running", input |-> i])
          /\ builders' = [builders EXCEPT ![Len(builds) + 1].pc = "lookup"]
     ELSE UNCHANGED <<builds, builders>>
  /\ UNCHANGED <<skilled, intent, bundles, shelf, workspaces, workflows,
                 deserted, wiping, forgets, restarts>>

(* A reconstruction of the same input is kept in hand. *)
LooksUp(j) ==
  /\ BuilderAt(j, "lookup")
  /\ builders' = [builders EXCEPT
       ![j].pc = "prepare",
       ![j].cached = \E w \in workflows : w.input = builds[j].input]
  /\ UNCHANGED <<skilled, intent, builds, bundles, shelf, workspaces,
                 workflows, asking, deserted, wiping, forgets, restarts>>

-----------------------------------------------------------------------------
(* run_skill_bundle_build *)

(* The workspace is made; a reconstruction in hand is written into it. *)
Prepares(j) ==
  /\ BuilderAt(j, "prepare")
  /\ workspaces' = workspaces \cup {j}
  /\ BuilderGoes(j, IF builders[j].cached THEN "record" ELSE "investigate")
  /\ UNCHANGED <<skilled, intent, builds, bundles, shelf, workflows,
                 asking, deserted, wiping, forgets, restarts>>

(* A workflow that passes, at the first attempt or repaired. *)
Investigates(j) ==
  /\ BuilderAt(j, "investigate") /\ BuilderGoes(j, "record")
  /\ UNCHANGED <<skilled, intent, builds, bundles, shelf, workspaces,
                 workflows, asking, deserted, wiping, forgets, restarts>>

RecordsWorkflow(j) ==
  /\ BuilderAt(j, "record") /\ JobExists(j)
  /\ workflows' = workflows \cup {[job |-> j, input |-> builds[j].input]}
  /\ BuilderGoes(j, "draft")
  /\ UNCHANGED <<skilled, intent, builds, bundles, shelf, workspaces,
                 asking, deserted, wiping, forgets, restarts>>

(* An output that passes, at the first attempt or repaired. *)
Drafts(j) ==
  /\ BuilderAt(j, "draft") /\ BuilderGoes(j, "review")
  /\ UNCHANGED <<skilled, intent, builds, bundles, shelf, workspaces,
                 workflows, asking, deserted, wiping, forgets, restarts>>

(* The review approves, or asks once for a rewrite. *)
Reviews(j) ==
  /\ BuilderAt(j, "review")
  /\ \/ BuilderGoes(j, "revision")
     \/ /\ ~builders[j].rewritten
        /\ builders' = [builders EXCEPT ![j].rewritten = TRUE, ![j].pc = "draft"]
  /\ UNCHANGED <<skilled, intent, builds, bundles, shelf, workspaces,
                 workflows, asking, deserted, wiping, forgets, restarts>>

NextRevision == Cardinality(bundles) + 1

ReadsRevision(j) ==
  /\ BuilderAt(j, "revision")
  /\ builders' = [builders EXCEPT ![j].pc = "rename", ![j].revision = NextRevision]
  /\ UNCHANGED <<skilled, intent, builds, bundles, shelf, workspaces,
                 workflows, asking, deserted, wiping, forgets, restarts>>

(* An error of the rename is ignored. *)
RenamesLoosely(j) ==
  /\ BuilderAt(j, "rename")
  /\ LET r == builders[j].revision IN
     IF j \in workspaces /\ shelf[r] = 0
     THEN /\ shelf' = [shelf EXCEPT ![r] = j]
          /\ workspaces' = workspaces \ {j}
     ELSE UNCHANGED <<shelf, workspaces>>
  /\ BuilderGoes(j, "insert")
  /\ UNCHANGED <<skilled, intent, builds, bundles, workflows, asking,
                 deserted, wiping, forgets, restarts>>

(* The output becomes the directory of the revision, which must be free. *)
Renames(j) ==
  /\ BuilderAt(j, "rename") /\ j \in workspaces
  /\ shelf[builders[j].revision] = 0
  /\ shelf' = [shelf EXCEPT ![builders[j].revision] = j]
  /\ workspaces' = workspaces \ {j}
  /\ BuilderGoes(j, "insert")
  /\ UNCHANGED <<skilled, intent, builds, bundles, workflows, asking,
                 deserted, wiping, forgets, restarts>>

InsertsBundle(j) ==
  /\ BuilderAt(j, "insert") /\ JobExists(j)
  /\ \A b \in bundles : b.revision # builders[j].revision
  /\ bundles' = bundles \cup {[revision |-> builders[j].revision, job |-> j]}
  /\ BuilderGoes(j, "finish")
  /\ UNCHANGED <<skilled, intent, builds, shelf, workspaces, workflows,
                 asking, deserted, wiping, forgets, restarts>>

SetsReady(j) ==
  /\ BuilderAt(j, "finish") /\ SetStatus(j, "ready") /\ BuilderGoes(j, "clean")
  /\ UNCHANGED <<skilled, intent, bundles, shelf, workspaces, workflows,
                 asking, deserted, wiping, forgets, restarts>>

CleansUp(j) ==
  /\ BuilderAt(j, "clean") /\ BuilderEnds(j)
  /\ UNCHANGED <<skilled, intent, builds, bundles, shelf, workspaces,
                 workflows, asking, deserted, wiping, forgets, restarts>>

(* Any step up to the last may fail: the provider, the output twice invalid, *)
(* the review, a statement, a row or a directory that is not as expected.   *)
BuildFails(j) ==
  /\ j \in Jobs /\ builders[j].pc \notin {"none", "lookup"}
  /\ SetStatus(j, "failed") /\ BuilderEnds(j)
  /\ UNCHANGED <<skilled, intent, bundles, shelf, workspaces, workflows,
                 asking, deserted, wiping, forgets, restarts>>

(* The lookup fails, when the row is inserted and its task not yet begun; or  *)
(* a step fails, and so does the UPDATE that would have recorded it, which    *)
(* is ignored.                                                              *)
Deserts(j) ==
  /\ j \in Jobs /\ builders[j].pc # "none"
  /\ BuilderEnds(j)
  /\ deserted' = deserted \cup {k \in {j} : builds[k].status = "running"}
  /\ UNCHANGED <<skilled, intent, builds, bundles, shelf, workspaces, workflows,
                 asking, wiping, forgets, restarts>>

-----------------------------------------------------------------------------
(* The rest of the app. *)

(* The artifact is revised, its evidence re-judged, its session continued.   *)
IntentChanges ==
  /\ intent' \in 1 .. MaxInputs /\ intent' # intent
  /\ UNCHANGED <<skilled, builds, bundles, shelf, workspaces, workflows,
                 asking, builders, deserted, wiping, forgets, restarts>>

(* remove_artifact leaves the bundles alone. *)
RemoveSkilled ==
  /\ skilled = "active" /\ skilled' = "removed"
  /\ UNCHANGED <<intent, builds, bundles, shelf, workspaces, workflows,
                 asking, builders, deserted, wiping, forgets, restarts>>

(* invalidate_workflow_reconstructions, of a scoped deletion. *)
ForgetWorkflows ==
  /\ wiping = "no" /\ forgets < MaxForgets /\ forgets' = forgets + 1
  /\ workflows' = {}
  /\ UNCHANGED <<skilled, intent, builds, bundles, shelf, workspaces,
                 asking, builders, deserted, wiping, restarts>>

(* A full deletion: the rows in one transaction, then the directories. *)
WipeRows ==
  /\ wiping = "no" /\ skilled # "gone"
  /\ skilled' = "gone" /\ bundles' = {} /\ workflows' = {}
  /\ builds' = [j \in Jobs |-> [builds[j] EXCEPT !.status = "gone"]]
  /\ wiping' = "bundles"
  /\ UNCHANGED <<intent, shelf, workspaces, asking, builders, deserted, forgets, restarts>>

WipeBundles ==
  /\ wiping = "bundles" /\ wiping' = "workspaces"
  /\ shelf' = [r \in Revisions |-> 0]
  /\ UNCHANGED <<skilled, intent, builds, bundles, workspaces, workflows,
                 asking, builders, deserted, forgets, restarts>>

WipeWorkspaces ==
  /\ wiping = "workspaces" /\ wiping' = "no"
  /\ workspaces' = {}
  /\ UNCHANGED <<skilled, intent, builds, bundles, shelf, workflows,
                 asking, builders, deserted, forgets, restarts>>

(* The abandoned builds are left as they are. *)
LeftAlone(status) == status

(* interrupt_abandoned_skill_bundle_builds *)
Interrupted(status) == IF status = "running" THEN "interrupted" ELSE status

(* The app closes in the middle.  The next process interrupts what it finds  *)
(* before anything else uses the database.                                  *)
CrashAndReopen ==
  /\ restarts < MaxRestarts /\ restarts' = restarts + 1
  /\ builds' = [j \in Jobs |-> [builds[j] EXCEPT !.status = Interrupted(@)]]
  /\ builders' = [j \in 1 .. MaxJobs |-> NoBuilder]
  /\ asking' = {} /\ wiping' = "no" /\ deserted' = {}
  /\ UNCHANGED <<skilled, intent, bundles, shelf, workspaces, workflows, forgets>>

BuilderStep(j) ==
  \/ LooksUp(j) \/ Prepares(j) \/ Investigates(j) \/ RecordsWorkflow(j)
  \/ Drafts(j) \/ Reviews(j) \/ ReadsRevision(j) \/ Renames(j)
  \/ InsertsBundle(j) \/ SetsReady(j) \/ CleansUp(j) \/ BuildFails(j) \/ Deserts(j)

BundleNext ==
  \/ BuildReads
  \/ \E i \in 1 .. MaxInputs : BuildInserts(i)
  \/ \E j \in Jobs : BuilderStep(j)
  \/ IntentChanges \/ RemoveSkilled \/ ForgetWorkflows
  \/ WipeRows \/ WipeBundles \/ WipeWorkspaces
  \/ CrashAndReopen

BundleSpec == BundleInit /\ [][BundleNext]_bundleVars

-----------------------------------------------------------------------------
(* Properties. *)

(* The variables hold what the columns, the directories and the locals      *)
(* allow.                                                                   *)
BundleTypeOK ==
  /\ skilled \in {"active", "removed", "gone"} /\ intent \in Nat
  /\ builds \in Seq([status : {"running", "ready", "failed", "interrupted", "gone"},
                     input : Nat])
  /\ Len(builds) =< MaxJobs
  /\ bundles \subseteq [revision : Revisions, job : Jobs]
  /\ shelf \in [Revisions -> 0 .. Len(builds)] /\ workspaces \subseteq Jobs
  /\ workflows \subseteq [job : Jobs, input : Nat]
  /\ asking \subseteq Nat
  /\ builders \in [1 .. MaxJobs ->
       [pc : {"none", "lookup", "prepare", "investigate", "record", "draft",
              "review", "revision", "rename", "insert", "finish", "clean"},
        cached : BOOLEAN, revision : 0 .. MaxJobs, rewritten : BOOLEAN]]
  /\ deserted \subseteq Jobs
  /\ wiping \in {"no", "bundles", "workspaces"}

(* A job that reads "ready" has its bundle, and, until a full deletion, the  *)
(* directory of every bundle holds the output of the build it names: no      *)
(* crash, failure or other build has come between row and directory.        *)
ReadyIsOnDisk ==
  /\ \A j \in Jobs : builds[j].status = "ready" => \E b \in bundles : b.job = j
  /\ \A b \in bundles : shelf[b.revision] = b.job

(* A job that reads "running" is in the hands of one live task, and no other *)
(* task of the artifact is beyond its start: one that is lost would keep     *)
(* every later build out.  Only a job that a failed statement has deserted   *)
(* has no task, and that until the app is started again.                    *)
RunningIsBuilt ==
  \A j \in Jobs :
    builds[j].status = "running" =>
      /\ builders[j].pc = "none" => j \in deserted
      /\ \A k \in Jobs \ {j} : builders[k].pc \in {"none", "clean"}
=============================================================================
