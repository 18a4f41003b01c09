------------------------------ MODULE AskForFix ------------------------------
(***************************************************************************)
(* One conversation of Ask for a fix: the rows of ask_sessions,            *)
(* ask_messages, ask_jobs and ask_retrieval_reports that belong to it      *)
(* (crates/dystil-insights/src/ask_for_fix.rs) and the commands that drive *)
(* it (apps/dystil/src-tauri/src/ask_for_fix_commands.rs).                 *)
(*                                                                         *)
(* A command is a run: it registers in a map of runs in flight, stages the *)
(* user's turn, asks the model once or, around a retrieval, twice, and     *)
(* applies the move it was given.  Beside it the user may stop it, the     *)
(* view may be opened again, capture may be deleted, and the app may end.  *)
(*                                                                         *)
(* A failure, a stop and a recovery settle the session's row: one statement *)
(* reads which status to fall back to, a later one writes it, and anything *)
(* may come between.                                                       *)
(*                                                                         *)
(* The words of a conversation are left out.  A turn is the number of      *)
(* messages staged, and the two attempts at a valid move are one call.     *)
(***************************************************************************)
EXTENDS Integers

CONSTANTS
  AskRuns, NoAskRun,  \* bound: runs alive at once
  NoJob,
  MaxQuestions,       \* MAX_QUESTIONS: 12 in the app
  MaxTurns,           \* bound: turns the user stages
  MaxReplies,         \* bound: replies to one turn, where a turn is replayed;
                      \*   a review may add one
  Troubles,           \* bound: which of "stop" (the user presses Stop),
                      \*   "view" (the view is opened while the session
                      \*   works), "crash" (the app ends) and "erase" (the
                      \*   user deletes everything) happen
  MaxTroubles         \* bound: troubles in one behaviour

ASSUME AskAssumption ==
  /\ {NoAskRun, "stop", "view"} \cap AskRuns = {}
  /\ {MaxQuestions, MaxTurns, MaxReplies, MaxTroubles} \subseteq Nat
  /\ Troubles \subseteq {"stop", "view", "crash", "erase"}

VARIABLES
  session,     \* the row of ask_sessions, and whether a question is pending
  turn,        \* how many turns were staged
  replies,     \* assistant messages after the last message of the user
  memo,        \* the turn of the retrieval memo on file; 0 when there is none
  job,         \* the packet of the one running job
  watch,       \* the state of the session's row in ask_watches; "over" is
               \* stopped or dismissed
  erased,      \* whether the user deleted everything
  inflight,    \* AskForFixState::inflight
  askRuns,     \* where each run is, and its locals
  settling,    \* where each run, the stop and the view are in settling the row
  overtaken,   \* history: the status was read before the lock it was written
               \* beside was set or released
  troubled     \* how many troubles there were

askRows  == <<session, turn, replies, memo, job, watch>>
tasks    == <<inflight, askRuns, settling>>
askVars  == <<askRows, erased, tasks, overtaken, troubled>>

Phases   == {"understand", "follow_up", "consolidate", "present"}
Statuses == {"active", "working", "locked", "answered"}
Moves    == {"ask", "retrieve", "consolidate", "present"}
Commands == {"submit", "confirm", "retry", "review"}
Errors   == {"none", "failed", "user_cancelled", "interrupted"}

(* What a packet fixes of the conversation; a job is named after it. *)
Packets == [turn : Nat, replies : Nat, phase : Phases, questions : Nat,
            memo : BOOLEAN]

(* A row of ask_sessions, and what a run holds. *)
SessionRows == [phase : Phases, status : Statuses, locked : BOOLEAN,
                asking : BOOLEAN, presented : BOOLEAN, error : Errors,
                questions : Nat]

Points == {"none", "open", "turn", "infer", "think", "explore", "apply", "close",
           "failing", "dropped", "done"}
Locals == [pc : Points, command : Commands, packet : Packets \cup {NoJob},
           move : Moves, explores : BOOLEAN]

(* Who settles the row: a run, ask_for_fix_cancel, ask_for_fix_latest. *)
Settlers == AskRuns \cup {"stop", "view"}

(* The statement it is at, the status it has read and the error it writes. *)
Settlements == [at : {"rest", "read", "write", "jobs"}, status : {"active", "locked"},
                error : Errors]

Settled == [at |-> "rest", status |-> "active", error |-> "none"]

Resting == [pc |-> "none", command |-> "submit", packet |-> NoJob,
            move |-> "ask", explores |-> FALSE]

Opening(c) == [pc |-> "open", command |-> c, packet |-> NoJob,
               move |-> "ask", explores |-> c = "submit"]

AskInit ==
  /\ session = [phase |-> "understand", status |-> "active", locked |-> FALSE,
                asking |-> FALSE, presented |-> FALSE, error |-> "none",
                questions |-> 0]
  /\ turn = 0 /\ replies = 0 /\ memo = 0 /\ job = NoJob /\ watch = "none"
  /\ erased = "no"
  /\ inflight = NoAskRun /\ askRuns = [r \in AskRuns |-> Resting]
  /\ settling = [x \in Settlers |-> Settled]
  /\ overtaken = FALSE /\ troubled = 0

Trouble(kind) ==
  /\ kind \in Troubles /\ troubled < MaxTroubles
  /\ troubled' = troubled + 1

-----------------------------------------------------------------------------
(* The session's row. *)

Working(s) == [s EXCEPT !.status = "working", !.error = "none"]

(* The status to fall back to: what was asked is kept. *)
Fallback(s) == IF s.locked THEN "locked" ELSE "active"

(* canonical_user_message and the guard of stage_ask_for_fix_turn. *)
Accepts(s, event) ==
  /\ s.status # "working"
  /\ event # "revise" => s.status # "answered" /\ ~s.locked
  /\ CASE event = "initial_problem" -> turn = 0
       [] event = "answer" -> s.asking
       [] event = "refine" -> s.phase = "consolidate" /\ ~s.locked
       [] event = "revise" -> /\ s.phase = "present" /\ s.status = "answered"
                              /\ s.locked /\ s.presented

Events == {"initial_problem", "answer", "refine", "revise"}

Confirmable(s) == s.phase = "consolidate" /\ ~s.locked /\ s.status # "working"

(* turn_packet *)
Packet == [turn |-> turn, replies |-> replies, phase |-> session.phase,
           questions |-> session.questions, memo |-> memo # 0]

(* validate_move; what depends on the words may always be violated. *)
Legal(p) ==
  IF p.phase = "present" THEN {"present"}
  ELSE {"consolidate"}
       \cup (IF p.questions < MaxQuestions THEN {"ask"} ELSE {})
       \cup (IF p.memo THEN {} ELSE {"retrieve"})

(* apply_move of a move that is not a retrieval. *)
AfterMove(m) ==
  CASE m = "ask" ->
         [session EXCEPT !.phase = "follow_up", !.status = "active",
            !.asking = TRUE, !.error = "none", !.questions = @ + 1]
    [] m = "consolidate" ->
         [session EXCEPT !.phase = "consolidate", !.status = "active",
            !.asking = FALSE, !.error = "none"]
    [] m = "present" ->
         [session EXCEPT !.phase = "present", !.status = "answered",
            !.asking = FALSE, !.presented = TRUE, !.error = "none"]

-----------------------------------------------------------------------------
(* Settling the row: mark_session_error, set_ask_for_fix_error,             *)
(* cancel_ask_for_fix_turn and recover_interrupted_ask_for_fix_turn.        *)

At(r, point) == erased # "yes" /\ askRuns[r].pc = point /\ settling[r].at = "rest"
Goto(r, point) == askRuns' = [askRuns EXCEPT ![r].pc = point]

ToSettle(error) == [at |-> "read", status |-> "active", error |-> error]

(* A recovery reads the row of a session that works. *)
Recovering == [at |-> "write", status |-> Fallback(session), error |-> "interrupted"]

DoneSettling(x) == settling' = [settling EXCEPT ![x] = Settled]

(* The run returns, unless it was recovering a session it is to go on with. *)
RunReturns(r) == askRuns' = [askRuns EXCEPT ![r] = [Resting EXCEPT !.pc = "done"]]
GoesOn(x) ==
  IF x \in AskRuns /\ settling[x].error # "interrupted" THEN RunReturns(x) ELSE UNCHANGED askRuns

SettleReads(x) ==
  /\ settling[x].at = "read"
  /\ settling' = [settling EXCEPT ![x].at = "write", ![x].status = Fallback(session)]
  /\ UNCHANGED <<session, job, askRuns, overtaken>>

(* A recovery writes only where the session is still working; the error of a *)
(* run is all it writes.                                                     *)
SettleWrites(x) ==
  /\ settling[x].at = "write"
  /\ LET s == settling[x] IN
     /\ IF s.error = "interrupted" /\ session.status # "working" THEN UNCHANGED <<session, overtaken>>
        ELSE /\ session' = [session EXCEPT !.status = s.status, !.error = s.error]
             /\ overtaken' = (s.status # Fallback(session))
     /\ IF s.error = "failed" THEN DoneSettling(x) /\ GoesOn(x)
        ELSE settling' = [settling EXCEPT ![x].at = "jobs"] /\ UNCHANGED askRuns
  /\ UNCHANGED job

(* The running job of the session is cancelled, or pending again. *)
SettleJobs(x) ==
  /\ settling[x].at = "jobs"
  /\ job' = NoJob
  /\ DoneSettling(x) /\ GoesOn(x)
  /\ UNCHANGED <<session, overtaken>>

Settles(x) ==
  /\ erased # "yes"
  /\ SettleReads(x) \/ SettleWrites(x) \/ SettleJobs(x)
  /\ UNCHANGED <<turn, replies, memo, watch, erased, inflight, troubled>>

-----------------------------------------------------------------------------
(* The commands: run_cancellable and what it runs. *)

(* Which of the runs that are not alive stands for a command makes no        *)
(* difference.                                                              *)
Free == CHOOSE r \in AskRuns \cup {NoAskRun} :
          IF \E q \in AskRuns : askRuns[q].pc = "none"
          THEN r \in AskRuns /\ askRuns[r].pc = "none" ELSE r = NoAskRun

(* Nobody looks whether a run is in flight. *)
BeginAnyway(r, c) ==
  /\ r = Free /\ erased # "yes"
  /\ c = "retry" => replies < MaxReplies
  /\ c = "review" => replies =< MaxReplies
  /\ inflight' = r
  /\ askRuns' = [askRuns EXCEPT ![r] = Opening(c)]
  /\ UNCHANGED <<askRows, erased, settling, overtaken, troubled>>

(* One run at a time: the map has one entry for the session. *)
Begin(r, c) ==
  /\ r = Free /\ inflight = NoAskRun /\ erased # "yes"
  /\ c = "retry" => replies < MaxReplies
  /\ c = "review" => replies =< MaxReplies
  /\ inflight' = r
  /\ askRuns' = [askRuns EXCEPT ![r] = Opening(c)]
  /\ UNCHANGED <<askRows, erased, settling, overtaken, troubled>>

Refuse(r) ==
  /\ RunReturns(r) /\ DoneSettling(r)
  /\ UNCHANGED <<turn, replies, memo, watch, erased, inflight, troubled>>

(* The run fails and its error is to be recorded. *)
Fails(r) ==
  /\ Goto(r, "failing") /\ settling' = [settling EXCEPT ![r] = ToSettle("failed")]
  /\ UNCHANGED <<session, turn, replies, memo, watch, erased, inflight, overtaken, troubled>>

(* A session that the last run left working is recovered first. *)
Recover(r) ==
  /\ At(r, "open") /\ askRuns[r].command = "submit" /\ session.status = "working"
  /\ settling' = [settling EXCEPT ![r] = Recovering]
  /\ UNCHANGED <<askRows, erased, inflight, askRuns, overtaken, troubled>>

(* The memo of the last turn stays. *)
StageKeepingMemo(r) ==
  /\ At(r, "open") /\ askRuns[r].command = "submit" /\ turn < MaxTurns
  /\ \E event \in Events : Accepts(session, event)
  /\ session' = Working(session) /\ overtaken' = FALSE
  /\ turn' = turn + 1 /\ replies' = 0
  /\ Goto(r, "turn")
  /\ UNCHANGED <<memo, job, watch, erased, inflight, settling, troubled>>

(* stage_ask_for_fix_turn: a new turn drops the memo of the last one. *)
Stage(r) ==
  /\ At(r, "open") /\ askRuns[r].command = "submit" /\ turn < MaxTurns
  /\ \E event \in Events : Accepts(session, event)
  /\ session' = Working(session) /\ overtaken' = FALSE
  /\ turn' = turn + 1 /\ replies' = 0 /\ memo' = 0
  /\ Goto(r, "turn")
  /\ UNCHANGED <<job, watch, erased, inflight, settling, troubled>>

(* Any session refuses some event, and after a recovery one that works again.*)
RefuseStage(r) ==
  /\ At(r, "open") /\ askRuns[r].command = "submit" /\ session.status # "working"
  /\ Refuse(r) /\ UNCHANGED <<session, job, overtaken>>

(* lock_ask_for_fix *)
Lock(r) ==
  /\ At(r, "open") /\ askRuns[r].command = "confirm"
  /\ Confirmable(session)
  /\ session' = [Working(session) EXCEPT !.phase = "present", !.locked = TRUE,
                                         !.asking = FALSE]
  /\ overtaken' = FALSE /\ replies' = 0
  /\ Goto(r, "turn")
  /\ UNCHANGED <<turn, memo, job, watch, erased, inflight, settling, troubled>>

RefuseLock(r) ==
  /\ At(r, "open") /\ askRuns[r].command = "confirm"
  /\ ~Confirmable(session)
  /\ Refuse(r) /\ UNCHANGED <<session, job, overtaken>>

(* No runtime: record_runtime_error.  A retry or a review resolves it first. *)
RuntimeFails(r) ==
  /\ \/ At(r, "turn") /\ askRuns[r].command \in {"submit", "confirm"}
     \/ At(r, "open") /\ askRuns[r].command \in {"retry", "review"}
  /\ Fails(r) /\ UNCHANGED job

(* retry_ask_for_fix, of a turn that failed ... *)
Retry(r) ==
  /\ At(r, "open") /\ askRuns[r].command = "retry"
  /\ session.error # "none"
  /\ session' = Working(session) /\ overtaken' = FALSE
  /\ Goto(r, "infer")
  /\ UNCHANGED <<turn, replies, memo, job, watch, erased, inflight, settling, troubled>>

RefuseRetry(r) ==
  /\ At(r, "open") /\ askRuns[r].command = "retry"
  /\ session.error = "none"
  /\ Refuse(r) /\ UNCHANGED <<session, job, overtaken>>

(* prepare_ask_for_fix_watch_review: the watch's dossier becomes the memo,   *)
(* and the confirmed understanding is open again.                           *)
Reopen(r) ==
  /\ At(r, "open") /\ askRuns[r].command = "review"
  /\ watch = "review_ready"
  /\ memo' = turn
  /\ session' = [Working(session) EXCEPT !.phase = "follow_up", !.locked = FALSE,
                                         !.asking = FALSE, !.presented = FALSE]
  /\ overtaken' = FALSE
  /\ Goto(r, "infer")
  /\ UNCHANGED <<turn, replies, job, watch, erased, inflight, settling, troubled>>

RefuseReview(r) ==
  /\ At(r, "open") /\ askRuns[r].command = "review"
  /\ watch # "review_ready"
  /\ Refuse(r) /\ UNCHANGED <<session, job, overtaken>>

-----------------------------------------------------------------------------
(* infer_move *)

(* The packet is read and its job runs ... *)
ReadTurn(r) ==
  /\ At(r, "turn") \/ At(r, "infer")
  /\ job \in {NoJob, Packet}
  /\ job' = Packet
  /\ askRuns' = [askRuns EXCEPT ![r].pc = "think", ![r].packet = Packet]
  /\ UNCHANGED <<session, turn, replies, memo, watch, erased, inflight, settling, overtaken,
                 troubled>>

(* ... unless another of the session does: one_running_ask_job_per_session. *)
(* That error is not recorded in the session.                               *)
JobConflict(r) ==
  /\ At(r, "turn") \/ At(r, "infer")
  /\ job \notin {NoJob, Packet}
  /\ Refuse(r) /\ UNCHANGED <<session, job, overtaken>>

JobSettled(r) == IF job = askRuns[r].packet THEN NoJob ELSE job

(* A valid move; the first one of a turn may be to look into the history. *)
Decide(r) ==
  /\ At(r, "think")
  /\ \E m \in Legal(askRuns[r].packet) :
       askRuns' = [askRuns EXCEPT
         ![r].pc = IF m = "retrieve" /\ askRuns[r].explores THEN "explore" ELSE "apply",
         ![r].move = m]
  /\ job' = JobSettled(r)
  /\ UNCHANGED <<session, turn, replies, memo, watch, erased, inflight, settling, overtaken,
                 troubled>>

(* The provider failed, or gave two invalid objects. *)
ThinkFails(r) ==
  /\ At(r, "think")
  /\ Fails(r) /\ job' = JobSettled(r)

(* run_retrieval_explorer; an explorer that fails leaves a memo that says so. *)
Explore(r) ==
  /\ At(r, "explore")
  /\ memo' = askRuns[r].packet.turn
  /\ askRuns' = [askRuns EXCEPT ![r].pc = "infer", ![r].explores = FALSE]
  /\ UNCHANGED <<session, turn, replies, job, watch, erased, inflight, settling, overtaken,
                 troubled>>

(* apply_move: the reply is appended and the session settles. *)
Apply(r) ==
  /\ At(r, "apply") /\ askRuns[r].move # "retrieve"
  /\ session' = AfterMove(askRuns[r].move) /\ overtaken' = FALSE
  /\ replies' = replies + 1
  /\ IF askRuns[r].command = "review" THEN Goto(r, "close") ELSE RunReturns(r)
  /\ UNCHANGED <<turn, memo, job, watch, erased, inflight, settling, troubled>>

(* Nobody runs the retrieval of a retry, a review or a second inference: its *)
(* error is returned and not recorded in the session.                       *)
ApplyRetrieval(r) ==
  /\ At(r, "apply") /\ askRuns[r].move = "retrieve"
  /\ Refuse(r) /\ UNCHANGED <<session, job, overtaken>>

(* review_ask_for_fix_watch: a question leaves the watch on. *)
CloseReview(r) ==
  /\ At(r, "close")
  /\ watch' = IF watch # "review_ready" THEN watch
              ELSE IF askRuns[r].move = "ask" THEN "active" ELSE "over"
  /\ RunReturns(r)
  /\ UNCHANGED <<session, turn, replies, memo, job, erased, inflight, settling, overtaken,
                 troubled>>

-----------------------------------------------------------------------------
(* Stopping, ending, opening again. *)

(* A run whose sender is gone is dropped where it waits, unless it has its   *)
(* result already; what it does then is to cancel the turn.                 *)
Droppable(r) == r \in AskRuns /\ askRuns[r].pc \notin {"none", "dropped", "done"}

DropRun(r) ==
  IF Droppable(r) THEN [askRuns EXCEPT ![r] = [Resting EXCEPT !.pc = "dropped"]] ELSE askRuns

DropSettling(r) ==
  IF Droppable(r) THEN [settling EXCEPT ![r] = ToSettle("user_cancelled")] ELSE settling

(* ask_for_fix_cancel takes the entry out of the map and signals, and then   *)
(* settles the session, whatever has become of the run.                     *)
StopSignals ==
  /\ Trouble("stop") /\ settling["stop"].at = "rest" /\ erased # "yes"
  /\ inflight' = NoAskRun
  /\ askRuns' = DropRun(inflight)
  /\ settling' = [DropSettling(inflight) EXCEPT !["stop"] = ToSettle("user_cancelled")]
  /\ UNCHANGED <<askRows, erased, overtaken>>

(* The entry is not removed when the run fails. *)
FinishOnlySuccess(r) ==
  /\ askRuns[r].pc = "done"
  /\ inflight' = IF session.error = "none" THEN NoAskRun ELSE inflight
  /\ askRuns' = [askRuns EXCEPT ![r] = Resting]
  /\ UNCHANGED <<askRows, erased, settling, overtaken, troubled>>

(* It then removes the entry of the session, which may by now be that of a   *)
(* later run: that run finds its sender gone.                               *)
Finish(r) ==
  /\ askRuns[r].pc = "done"
  /\ inflight' = NoAskRun
  /\ askRuns' = IF inflight = r THEN [askRuns EXCEPT ![r] = Resting]
                ELSE [DropRun(inflight) EXCEPT ![r] = Resting]
  /\ settling' = IF inflight = r THEN settling ELSE DropSettling(inflight)
  /\ UNCHANGED <<askRows, erased, overtaken, troubled>>

(* ask_for_fix_latest, when the view is opened: a working session is        *)
(* recovered, though its run may be alive.                                  *)
Latest ==
  /\ Trouble("view")
  /\ session.status = "working" /\ erased # "yes" /\ settling["view"].at = "rest"
  /\ settling' = [settling EXCEPT !["view"] = Recovering]
  /\ UNCHANGED <<askRows, erased, inflight, askRuns, overtaken>>

(* The app ends; whoever settles the row may be between two statements. *)
AskCrash ==
  /\ Trouble("crash")
  /\ inflight' = NoAskRun /\ askRuns' = [r \in AskRuns |-> Resting]
  /\ settling' = [x \in Settlers |-> Settled]
  /\ UNCHANGED <<askRows, erased, overtaken>>

-----------------------------------------------------------------------------
(* The watch, as the session sees it, and deletion. *)

(* start_ask_for_fix_watch, the collector, stop_ask_for_fix_watch. *)
WatchMoves ==
  /\ erased # "yes"
  /\ \/ watch = "none" /\ session.presented /\ watch' = "active"
     \/ watch = "active" /\ watch' = "review_ready"
     \/ watch \in {"active", "review_ready"} /\ watch' = "over"
  /\ UNCHANGED <<session, turn, replies, memo, job, erased, tasks, overtaken, troubled>>

(* A scoped deletion: the memos go, and the watch may lose its evidence. *)
ForgetMemos ==
  /\ erased # "yes" /\ memo # 0
  /\ memo' = 0
  /\ watch' \in {watch, IF watch = "review_ready" THEN "active" ELSE watch}
  /\ UNCHANGED <<session, turn, replies, job, erased, tasks, overtaken, troubled>>

(* delete_all_insights_data deletes the sessions and not the memos that     *)
(* refer to them: with a memo on file nothing is deleted.                   *)
DeleteAll ==
  /\ Trouble("erase") /\ erased # "yes"
  /\ erased' = IF memo # 0 THEN "refused" ELSE "yes"
  /\ UNCHANGED <<askRows, tasks, overtaken>>

(* A run whose session is gone fails at its next statement. *)
RunLost(r) ==
  /\ erased = "yes" /\ askRuns[r].pc \notin {"none", "done"}
  /\ Refuse(r) /\ UNCHANGED <<session, job, overtaken>>

-----------------------------------------------------------------------------

RunStep(r) ==
  \/ Recover(r) \/ Stage(r) \/ RefuseStage(r) \/ Lock(r) \/ RefuseLock(r)
  \/ Retry(r) \/ RefuseRetry(r) \/ Reopen(r) \/ RefuseReview(r)
  \/ RuntimeFails(r) \/ ReadTurn(r) \/ JobConflict(r)
  \/ Decide(r) \/ ThinkFails(r) \/ Explore(r)
  \/ Apply(r) \/ ApplyRetrieval(r) \/ CloseReview(r)
  \/ Settles(r) \/ RunLost(r) \/ Finish(r)

AskNext ==
  \/ \E r \in AskRuns : (\E c \in Commands : Begin(r, c)) \/ RunStep(r)
  \/ StopSignals \/ Settles("stop")
  \/ Latest \/ Settles("view")
  \/ AskCrash
  \/ WatchMoves \/ ForgetMemos \/ DeleteAll

AskSpec == AskInit /\ [][AskNext]_askVars

(* A run goes on: its awaits are on SQLite, on a provider with a timeout, or *)
(* on the lock of the map.                                                  *)
AskFairness == \A r \in AskRuns : WF_askVars(RunStep(r))

AskFairSpec == AskSpec /\ AskFairness
-----------------------------------------------------------------------------
(* Properties. *)

(* The variables hold what the columns and the map allow. *)
AskTypeOK ==
  /\ session \in SessionRows
  /\ turn \in Nat /\ replies \in Nat /\ memo \in Nat
  /\ job \in Packets \cup {NoJob}
  /\ watch \in {"none", "active", "review_ready", "over"}
  /\ erased \in {"no", "refused", "yes"}
  /\ inflight \in AskRuns \cup {NoAskRun}
  /\ askRuns \in [AskRuns -> Locals] /\ settling \in [Settlers -> Settlements]
  /\ overtaken \in BOOLEAN /\ troubled \in Nat

(* No row is at odds with itself, whatever was stopped, replayed, recovered  *)
(* or reviewed: an understanding is locked exactly while its answer is       *)
(* presented, nothing is presented that was not confirmed, a question is     *)
(* pending only in a follow-up, and the status tells whether it is locked.   *)
(* Only a stop or a recovery may write a status that is out of date: another *)
(* command has set or released the lock since it was read.                  *)
SessionIsWhole ==
  /\ session.locked <=> session.phase = "present"
  /\ session.presented => session.locked
  /\ session.status = "answered" => session.presented
  /\ session.asking => session.phase = "follow_up"
  /\ session.status \in {"active", "locked"} /\ ~overtaken => session.status = Fallback(session)
  /\ overtaken => session.error \in {"user_cancelled", "interrupted"}

(* A bounded conversation: a move is judged against the count its packet     *)
(* was read with, and applied later.                                        *)
QuestionBudget == session.questions =< MaxQuestions

(* "Reports remain reusable for retries of this same staged turn, but not    *)
(* after a follow-up, refinement, or revision changes the user's intent."   *)
MemoIsOfThisTurn == memo \in {0, turn}

(* Where nothing runs, the conversation can go on: a command is accepted, or *)
(* the session is working and is recovered when the view is opened.         *)
NeverStuck ==
  inflight = NoAskRun /\ erased # "yes" =>
    \/ \E event \in Events : Accepts(session, event)
    \/ Confirmable(session)
    \/ session.error # "none"
    \/ session.status = "working"

(* Whatever a run meets, the session is free again for the next command.     *)
ThinkingEnds == []<>(inflight = NoAskRun)

(* store.rs: "Clears all user-derived Worth Fixing and Ready-to-use content":*)
(* a deletion of everything is not refused.                                 *)
DeletionClears == erased # "refused"
=============================================================================
