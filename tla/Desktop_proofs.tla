---------------------------- MODULE Desktop_proofs ----------------------------
(***************************************************************************)
(* Theorems about the tasks of the desktop app, AgentMailbox,              *)
(* AutomationRuns, TelemetryConsent and RecordingSwitch, for every value of*)
(* their constants.                                                        *)
(***************************************************************************)
EXTENDS AgentMailbox, AutomationRuns, TelemetryConsent, RecordingSwitch, SequenceTheorems, TLAPS

-----------------------------------------------------------------------------
(* The mailbox of the agent worker (AgentMailbox).                          *)
Statuses == {"none", "received", "processing", "interrupted", "responded"}

MailTyped ==
  /\ sent \in 0 .. MaxRequests /\ mailCursor \in 0 .. sent
  /\ local \in [Messages -> Statuses]
  /\ fetch \in [Fetchers -> Int]
  /\ \A f \in Fetchers : fetch[f] = NoFetch \/ fetch[f] \in 0 .. sent

(* What became of a request: it is on file, or was deleted. *)
Kept(r) == local[r] # "none" \/ r \in wiped

(* The inductive invariant.  A fetch carries a cursor that was right when it *)
(* was read and may be older than the one on file: what it has passed is    *)
(* kept as well.  And the worker comes to record a request only when it is  *)
(* answered.                                                                *)
Passed(number) == \A r \in Messages : r =< number => Kept(r)
KeptSoFar == Passed(mailCursor) /\ \A f \in Fetchers : Passed(fetch[f])

AnsweredInTime ==
  /\ \A r \in Messages : local[r] = "responded" => r \in answered
  /\ pc \in {"persist", "record"} => Current \in answered

MailInv == MailTyped /\ KeptSoFar /\ AnsweredInTime

-----------------------------------------------------------------------------
(* Min and Max of two numbers are one of the two, in order. *)
LEMMA PairMin ==
  ASSUME NEW a \in Int, NEW b \in Int
  PROVE  Min({a, b}) \in {a, b} /\ Min({a, b}) =< a /\ Min({a, b}) =< b
<1>1. \E x \in {a, b} : \A y \in {a, b} : x =< y
  OBVIOUS
<1> QED
  BY <1>1 DEF Min

LEMMA PairMax ==
  ASSUME NEW a \in Int, NEW b \in Int
  PROVE  Max({a, b}) \in {a, b} /\ Max({a, b}) >= a /\ Max({a, b}) >= b
<1>1. \E x \in {a, b} : \A y \in {a, b} : x >= y
  OBVIOUS
<1> QED
  BY <1>1 DEF Max

(* The cloud's answer goes neither back behind the cursor it was asked with  *)
(* nor past what was sent.                                                  *)
LEMMA NextCursorGrows ==
  ASSUME sent \in Nat, NEW after \in 0 .. sent
  PROVE  NextCursor(after) \in after .. sent
<1> DEFINE last == Max({after, sent})
<1>1. last = sent
  BY PairMax
<1> HIDE DEF last
<1>2. after + PageLimit \in Nat /\ after + PageLimit >= after
  BY MailboxAssumption
<1>3. Min({after + PageLimit, last}) \in {after + PageLimit, last}
        /\ Min({after + PageLimit, last}) =< last
  BY <1>1, <1>2, PairMin
<1> QED
  BY <1>1, <1>2, <1>3 DEF NextCursor, last

(* A step that takes nothing off the file and nothing out of the history     *)
(* keeps what is kept; if no cursor moves, nothing else is to be shown.     *)
LEMMA KeptStays ==
  ASSUME KeptSoFar,
         \A r \in Messages : Kept(r) => Kept(r)'
  PROVE  \A number \in Int : Passed(number) => Passed(number)'
  BY DEF Passed

LEMMA KeptHolds ==
  ASSUME KeptSoFar, \A r \in Messages : Kept(r) => Kept(r)',
         mailCursor' = mailCursor, fetch' = fetch
  PROVE  KeptSoFar'
  BY DEF KeptSoFar, Passed

(* SetLocal keeps the types and what is kept, and answers nothing by itself. *)
LEMMA SetLocalKeeps ==
  ASSUME MailTyped, NEW r, NEW status \in Statuses \ {"none"}, SetLocal(r, status),
         wiped' = wiped
  PROVE  /\ local' \in [Messages -> Statuses]
         /\ \A q \in Messages : Kept(q) => Kept(q)'
         /\ \A q \in Messages : local'[q] = local[q] \/ (q = r /\ local'[q] = status)
  BY DEF MailTyped, SetLocal, Kept

-----------------------------------------------------------------------------
LEMMA MailInitHolds == MailboxInit => MailInv
<1> SUFFICES ASSUME MailboxInit PROVE MailInv
  OBVIOUS
<1>1. MailTyped
  BY MailboxAssumption DEF MailboxInit, MailTyped, Statuses, NoFetch, Fetchers
<1>2. KeptSoFar
  BY DEF MailboxInit, KeptSoFar, Passed, NoFetch, Messages, Kept
<1>3. AnsweredInTime
  BY DEF MailboxInit, AnsweredInTime
<1> QED
  BY <1>1, <1>2, <1>3 DEF MailInv

LEMMA MailStep == MailInv /\ [MailboxNext]_mailboxVars => MailInv'
<1> SUFFICES ASSUME MailInv, [MailboxNext]_mailboxVars PROVE MailInv'
  OBVIOUS
<1> USE DEF MailInv
<1>1. CASE Ask
  <2>1. MailTyped'
    BY <1>1, MailboxAssumption DEF Ask, MailTyped
  <2>2. KeptSoFar'
    BY <1>1, KeptHolds DEF Ask, Kept
  <2>3. AnsweredInTime'
    BY <1>1 DEF Ask, AnsweredInTime, Current
  <2> QED
    BY <2>1, <2>2, <2>3
<1>2. ASSUME NEW f \in Fetchers, ReadCursor(f) PROVE MailInv'
  <2>1. MailTyped'
    BY <1>2 DEF ReadCursor, MailTyped
  <2>2. KeptSoFar'
    BY <1>2 DEF ReadCursor, MailTyped, KeptSoFar, Passed, Kept
  <2>3. AnsweredInTime'
    BY <1>2 DEF ReadCursor, AnsweredInTime, Current
  <2> QED
    BY <2>1, <2>2, <2>3
<1>3. ASSUME NEW f \in Fetchers, Keep(f) PROVE MailInv'
  <2> DEFINE next == NextCursor(fetch[f])
  <2>1. fetch[f] \in 0 .. sent
    BY <1>3 DEF Keep, MailTyped
  <2>2. next \in fetch[f] .. sent
    BY <2>1, NextCursorGrows DEF MailTyped
  <2>3. \A r \in Messages : r \in FetchedAfter(fetch[f]) <=> fetch[f] + 1 =< r /\ r =< next
    BY <2>1, <2>2 DEF FetchedAfter, Messages
  <2> HIDE DEF next
  <2>4. \A r \in Messages : /\ local'[r] \in {local[r], "received"}
                            /\ local'[r] = local[r] \/ local[r] = "none"
                            /\ r \in FetchedAfter(fetch[f]) => local'[r] # "none"
    BY <1>3 DEF Keep, MailTyped
  <2>5. MailTyped'
    <3>1. mailCursor' \in 0 .. sent
      BY <1>3, <2>1, <2>2 DEF Keep, next
    <3>2. local' \in [Messages -> Statuses]
      BY <1>3 DEF Keep, MailTyped, Statuses
    <3>3. /\ fetch' \in [Fetchers -> Int]
          /\ \A g \in Fetchers : fetch'[g] = NoFetch \/ fetch'[g] \in 0 .. sent
      BY <1>3 DEF Keep, MailTyped, NoFetch
    <3> QED
      BY <1>3, <3>1, <3>2, <3>3 DEF Keep, MailTyped
  <2>6. \A r \in Messages : Kept(r) => Kept(r)'
    BY <1>3, <2>4 DEF Keep, Kept
  <2>7. Passed(fetch[f])
    BY DEF KeptSoFar
  <2>8. Passed(mailCursor)'
    <3> SUFFICES ASSUME NEW r \in Messages, r =< next PROVE Kept(r)'
      BY <1>3 DEF Passed, Keep, next
    <3>1. CASE r =< fetch[f]
      BY <3>1, <2>6, <2>7 DEF Passed
    <3>2. CASE ~(r =< fetch[f])
      <4>1. fetch[f] + 1 =< r
        BY <3>2, <2>1 DEF Messages
      <4> QED
        BY <4>1, <2>3, <2>4 DEF Kept
    <3> QED
      BY <3>1, <3>2
  <2>9. ASSUME NEW g \in Fetchers PROVE Passed(fetch[g])'
    <3>1. fetch'[g] \in {fetch[g], NoFetch}
      BY <1>3 DEF Keep, MailTyped
    <3> QED
      BY <3>1, <2>6 DEF KeptSoFar, Passed, NoFetch, Messages
  <2>10. AnsweredInTime'
    BY <1>3, <2>4 DEF Keep, AnsweredInTime, Current
  <2> QED
    BY <2>5, <2>8, <2>9, <2>10 DEF KeptSoFar
<1>4. ASSUME NEW f \in Fetchers, FetchFails(f) PROVE MailInv'
  <2>1. fetch' = [fetch EXCEPT ![f] = NoFetch]
    BY <1>4 DEF FetchFails
  <2>2. MailTyped'
    BY <1>4, <2>1 DEF FetchFails, MailTyped, NoFetch
  <2>3. KeptSoFar'
    BY <1>4, <2>1 DEF FetchFails, MailTyped, KeptSoFar, Passed, Kept, NoFetch, Messages
  <2>4. AnsweredInTime'
    BY <1>4 DEF FetchFails, AnsweredInTime, Current
  <2> QED
    BY <2>2, <2>3, <2>4
<1>5. CASE Pending \/ Persist \/ StepFails \/ InterruptFails
  <2>1. /\ UNCHANGED <<sent, mailCursor, local, wiped, fetch>>
        /\ answered \subseteq answered'
    BY <1>5 DEF Pending, Persist, StepFails, InterruptFails
  <2>2. MailTyped'
    BY <2>1 DEF MailTyped
  <2>3. KeptSoFar'
    BY <2>1, KeptHolds DEF Kept
  <2>4. pc' \in {"persist", "record"} => Current' \in answered'
    BY <1>5, <2>1 DEF Pending, Persist, StepFails, InterruptFails, AnsweredInTime, Current
  <2> QED
    BY <2>1, <2>2, <2>3, <2>4 DEF AnsweredInTime
<1>6. CASE Take
  <2>1. MailTyped' /\ \A r \in Messages : Kept(r) => Kept(r)'
    BY <1>6, SetLocalKeeps DEF Take, MailTyped, Statuses, Kept
  <2>2. \A r \in Messages : local'[r] \in {local[r], "processing"}
    BY <1>6, SetLocalKeeps DEF Take, Statuses
  <2>3. KeptSoFar'
    BY <1>6, <2>1, KeptHolds DEF Take
  <2>4. AnsweredInTime'
    BY <1>6, <2>2 DEF Take, AnsweredInTime
  <2> QED
    BY <2>1, <2>3, <2>4
<1>7. CASE Reply
  <2>1. MailTyped'
    BY <1>7 DEF Reply, MailTyped
  <2>2. KeptSoFar'
    BY <1>7, KeptHolds DEF Reply, Kept
  <2>3. AnsweredInTime'
    BY <1>7 DEF Reply, AnsweredInTime, Current
  <2> QED
    BY <2>1, <2>2, <2>3
<1>8. CASE Record
  <2>1. MailTyped' /\ \A r \in Messages : Kept(r) => Kept(r)'
    BY <1>8, SetLocalKeeps DEF Record, MailTyped, Statuses, Kept
  <2>2. \A r \in Messages : local'[r] = local[r] \/ r = Current
    BY <1>8, SetLocalKeeps DEF Record, Statuses
  <2>3. KeptSoFar'
    BY <1>8, <2>1, KeptHolds DEF Record
  <2>4. AnsweredInTime'
    BY <1>8, <2>2 DEF Record, AnsweredInTime
  <2> QED
    BY <2>1, <2>3, <2>4
<1>9. CASE Interrupt
  <2>1. MailTyped' /\ \A r \in Messages : Kept(r) => Kept(r)'
    BY <1>9, SetLocalKeeps DEF Interrupt, MailTyped, Statuses, Kept
  <2>2. \A r \in Messages : local'[r] \in {local[r], "interrupted"}
    BY <1>9, SetLocalKeeps DEF Interrupt, Statuses
  <2>3. KeptSoFar'
    BY <1>9, <2>1, KeptHolds DEF Interrupt
  <2>4. AnsweredInTime'
    BY <1>9, <2>2 DEF Interrupt, AnsweredInTime
  <2> QED
    BY <2>1, <2>3, <2>4
<1>10. CASE Wipe
  <2>1. MailTyped'
    BY <1>10 DEF Wipe, MailTyped, Statuses
  <2>2. \A r \in Messages : Kept(r) => Kept(r)'
    BY <1>10 DEF Wipe, Kept
  <2>3. KeptSoFar'
    BY <1>10, <2>2, KeptHolds DEF Wipe
  <2>4. AnsweredInTime'
    BY <1>10 DEF Wipe, AnsweredInTime, Current
  <2> QED
    BY <2>1, <2>3, <2>4
<1>11. CASE WorkerCrash
  <2>1. MailTyped'
    BY <1>11 DEF WorkerCrash, MailTyped, NoFetch
  <2>2. KeptSoFar'
    BY <1>11 DEF WorkerCrash, MailTyped, KeptSoFar, Passed, Kept, NoFetch, Messages
  <2>3. AnsweredInTime'
    BY <1>11 DEF WorkerCrash, AnsweredInTime
  <2> QED
    BY <2>1, <2>2, <2>3
<1>12. CASE UNCHANGED mailboxVars
  <2>1. UNCHANGED <<sent, answered, mailCursor, local, wiped, fetch, pc, queue>>
    BY <1>12 DEF mailboxVars
  <2>2. MailTyped' /\ AnsweredInTime'
    BY <2>1 DEF MailTyped, AnsweredInTime, Current
  <2>3. KeptSoFar'
    BY <2>1, KeptHolds DEF Kept
  <2> QED
    BY <2>2, <2>3
<1> QED
  BY <1>1, <1>2, <1>3, <1>4, <1>5, <1>6, <1>7, <1>8, <1>9, <1>10, <1>11, <1>12
  DEF MailboxNext

(* A disconnect, a failing statement, a second fetch, a deletion or a crash  *)
(* may delay a request; none is passed over by the cursor without being on  *)
(* file, and none counts as responded without an answer                     *)
(* (agent_mailbox.rs, sync; agent_worker.rs, process_request).              *)
THEOREM NothingIsLost == MailboxSpec => []NoRequestIsLost
<1>1. MailInv => NoRequestIsLost
  <2> SUFFICES ASSUME MailInv PROVE NoRequestIsLost
    OBVIOUS
  <2>1. \A r \in Messages : local[r] = "responded" => r \in answered
    BY DEF MailInv, AnsweredInTime
  <2>2. ASSUME NEW r \in 1 .. mailCursor PROVE local[r] # "none" \/ r \in wiped
    <3>1. r \in Messages /\ r =< mailCursor
      BY MailboxAssumption DEF MailInv, MailTyped, Messages
    <3> QED
      BY <3>1 DEF MailInv, KeptSoFar, Passed, Kept
  <2> QED
    BY <2>1, <2>2 DEF NoRequestIsLost
<1> QED
  BY MailInitHolds, MailStep, <1>1, PTL DEF MailboxSpec

-----------------------------------------------------------------------------
(* Automations (AutomationRuns).                                            *)
TaskKinds   == {"none", "schedule", "event", "manual"}
TaskPoints  == {"none", "wait", "check", "insert", "resolve", "start", "run", "files",
                "advance", "backoff", "cancel"}
TaskRecords == [pc : TaskPoints, kind : TaskKinds, frame : Nat, row : Nat, attempt : Nat]
RunStatuses == {"queued", "running", "failed", "succeeded", "cancelled"}
RunRows     == [kind : TaskKinds, frame : Nat, status : RunStatuses, attempt : Nat]
LoopPoints  == {"off", "idle", "due", "frames", "cursor", "first"}
LoopRecords == [pc : LoopPoints, seen : Nat, now : Nat, stopping : BOOLEAN]

ClocksTyped == {newest, taken, clockHour, scheduled, eventCursor} \subseteq Nat
RunsTyped   == runs \in Seq(RunRows)
TasksTyped  == runners \in [Runners -> TaskRecords]
LoopsTyped  == loops \in [Loops -> LoopRecords] /\ manager \in Loops \cup {NoLoop}
AutomationTyped == ClocksTyped /\ RunsTyped /\ TasksTyped /\ LoopsTyped

(* The inductive invariant.  A task that has a row has it to itself, and the *)
(* row is of its frame; until the run has ended it is not a success; and a  *)
(* task that is about to set the cursor has a success of its frame on file. *)
Owning  == {"resolve", "start", "run", "files", "cancel"}
Writing == {"resolve", "start", "run"}

Owns(task) ==
  task.pc \in Owning => /\ task.row \in DOMAIN runs
                        /\ runs[task.row].frame = task.frame
Unended(task) == task.pc \in Writing => runs[task.row].status # "succeeded"
Earned(task) ==
  task.pc = "advance" \/ (task.pc = "files" /\ task.kind = "event") => Delivered(task.frame)
Apart(task, other) ==
  task.pc \in Owning /\ other.pc \in Owning => task.row # other.row

Sound(task) == Owns(task) /\ Unended(task) /\ Earned(task)
TasksSound ==
  /\ \A t \in Runners : Sound(runners[t])
  /\ \A t, u \in Runners : t # u => Apart(runners[t], runners[u])

RunsInv == AutomationTyped /\ TasksSound /\ CursorMeansDone

-----------------------------------------------------------------------------
(* Rows are added and change their status; a success stays one. *)
RunsGrow ==
  \A i \in DOMAIN runs :
    /\ i \in DOMAIN runs'
    /\ runs'[i].frame = runs[i].frame
    /\ runs[i].status = "succeeded" => runs'[i].status = "succeeded"

LEMMA DeliveredStays ==
  ASSUME RunsGrow, NEW frame, Delivered(frame)
  PROVE  Delivered(frame)'
  BY DEF RunsGrow, Delivered

(* One task moves, and only its own row changes. *)
LEMMA OneTaskMoves ==
  ASSUME TasksTyped, TasksSound, RunsGrow, NEW t \in Runners, NEW task \in TaskRecords,
         runners' = [runners EXCEPT ![t] = task],
         \A i \in DOMAIN runs :
            runs'[i] = runs[i] \/ (runners[t].pc \in Owning /\ i = runners[t].row),
         task.pc \in Owning =>
            /\ task.row \in DOMAIN runs'
            /\ runs'[task.row].frame = task.frame
            /\ task.pc \in Writing => runs'[task.row].status # "succeeded"
            /\ \/ task.row \notin DOMAIN runs
               \/ runners[t].pc \in Owning /\ task.row = runners[t].row,
         task.pc = "advance" \/ (task.pc = "files" /\ task.kind = "event") =>
            Delivered(task.frame)'
  PROVE  TasksTyped' /\ TasksSound'
<1>1. TasksTyped'
  BY DEF TasksTyped
<1>2. runners'[t] = task /\ \A u \in Runners : u # t => runners'[u] = runners[u]
  BY DEF TasksTyped
<1>3. ASSUME NEW u \in Runners, u # t, runners[u].pc \in Owning
      PROVE  /\ runners[u].row \in DOMAIN runs
             /\ runners[u].row \in DOMAIN runs'
             /\ runs'[runners[u].row] = runs[runners[u].row]
  <2>1. runners[u].row \in DOMAIN runs
    BY <1>3 DEF TasksSound, Sound, Owns
  <2>2. runners[t].pc \in Owning => runners[u].row # runners[t].row
    BY <1>3 DEF TasksSound, Apart
  <2> QED
    BY <2>1, <2>2 DEF RunsGrow
<1>4. ASSUME NEW u \in Runners PROVE Sound(runners[u])'
  <2>1. CASE u = t
    BY <2>1, <1>2 DEF Sound, Owns, Unended, Earned, Owning, Writing
  <2>2. CASE u # t
    <3>1. Sound(runners[u])
      BY DEF TasksSound
    <3>2. Owns(runners[u])' /\ Unended(runners[u])'
      BY <2>2, <1>2, <1>3, <3>1 DEF Sound, Owns, Unended, Owning, Writing
    <3>3. Earned(runners[u])'
      BY <2>2, <1>2, <3>1, DeliveredStays DEF Sound, Earned
    <3> QED
      BY <3>2, <3>3 DEF Sound
  <2> QED
    BY <2>1, <2>2
<1>5. ASSUME NEW u \in Runners, NEW v \in Runners, u # v PROVE Apart(runners[u], runners[v])'
  <2>1. Apart(runners[u], runners[v]) /\ Apart(runners[v], runners[u])
    BY <1>5 DEF TasksSound
  <2>2. CASE u # t /\ v # t
    BY <2>1, <2>2, <1>2 DEF Apart
  <2>3. CASE u = t
    BY <2>1, <2>3, <1>2, <1>3, <1>5 DEF Apart
  <2>4. CASE v = t
    BY <2>1, <2>4, <1>2, <1>3, <1>5 DEF Apart
  <2> QED
    BY <2>2, <2>3, <2>4
<1> QED
  BY <1>1, <1>4, <1>5 DEF TasksSound

(* A task that moves without a row, or keeps its row without writing it. *)
LEMMA TaskMovesAlone ==
  ASSUME TasksTyped, TasksSound, runs' = runs, NEW t \in Runners, NEW task \in TaskRecords,
         runners' = [runners EXCEPT ![t] = task],
         task.pc \in Owning =>
            /\ runners[t].pc \in Owning /\ task.row = runners[t].row /\ task.frame = runners[t].frame
            /\ task.pc \in Writing => runners[t].pc \in Writing,
         task.pc = "advance" \/ (task.pc = "files" /\ task.kind = "event") =>
            Delivered(task.frame)
  PROVE  TasksTyped' /\ TasksSound'
<1>1. RunsGrow
  BY DEF RunsGrow
<1>2. Sound(runners[t])
  BY DEF TasksSound
<1>3. Delivered(task.frame) => Delivered(task.frame)'
  BY <1>1, DeliveredStays
<1> QED
  BY <1>1, <1>2, <1>3, OneTaskMoves DEF Sound, Owns, Unended, Owning, Writing

(* Becomes changes the status of one row. *)
LEMMA BecomesChanges ==
  ASSUME RunsTyped, NEW t \in Runners, NEW status \in RunStatuses, Becomes(t, status)
  PROVE  /\ RunsTyped'
         /\ DOMAIN runs' = DOMAIN runs
         /\ \A i \in DOMAIN runs :
              /\ runs'[i].frame = runs[i].frame
              /\ i # runners[t].row => runs'[i] = runs[i]
              /\ i = runners[t].row => runs'[i].status = status
<1> DEFINE row == runners[t].row
           new == [runs[row] EXCEPT !.status = status]
<1>1. runs' = [runs EXCEPT ![row] = new]
  BY DEF Becomes
<1>2. DOMAIN runs = 1 .. Len(runs)
  BY DEF RunsTyped
<1>3. CASE row \in DOMAIN runs
  <2>1. runs[row] \in RunRows
    BY <1>3, <1>2 DEF RunsTyped
  <2>2. new \in RunRows /\ new.frame = runs[row].frame /\ new.status = status
    BY <2>1 DEF RunRows
  <2> HIDE DEF new
  <2>3. /\ runs' \in Seq(RunRows) /\ Len(runs') = Len(runs)
        /\ \A i \in 1 .. Len(runs) : runs'[i] = IF i = row THEN new ELSE runs[i]
    BY <1>1, <1>2, <1>3, <2>2, ExceptSeq DEF RunsTyped
  <2>4. DOMAIN runs' = 1 .. Len(runs')
    BY <2>3
  <2> QED
    BY <1>2, <2>2, <2>3, <2>4 DEF RunsTyped, row
<1>4. CASE row \notin DOMAIN runs
  <2>1. runs' = runs
    BY <1>1, <1>4 DEF RunsTyped
  <2> QED
    BY <2>1, <1>4 DEF RunsTyped, row
<1> QED
  BY <1>3, <1>4

(* A new task owns nothing yet. *)
LEMMA SpawnHolds ==
  ASSUME TasksTyped, TasksSound, runs' = runs, NEW kind \in TaskKinds, NEW frame \in Nat,
         SpawnRun(kind, frame)
  PROVE  TasksTyped' /\ TasksSound'
<1> PICK t \in Runners : runners' = [runners EXCEPT ![t] = NewTask(kind, frame)]
  BY DEF SpawnRun
<1>1. NewTask(kind, frame) \in TaskRecords /\ NewTask(kind, frame).pc = "wait"
  BY DEF NewTask, NoRun, TaskRecords, TaskPoints
<1> QED
  BY <1>1, TaskMovesAlone DEF Owning

LEMMA EndsHolds ==
  ASSUME TasksTyped, TasksSound, runs' = runs, NEW t \in Runners, Ends(t)
  PROVE  TasksTyped' /\ TasksSound'
<1>1. NoRun \in TaskRecords /\ NoRun.pc = "none"
  BY DEF NoRun, TaskRecords, TaskPoints, TaskKinds
<1>2. runners' = [runners EXCEPT ![t] = NoRun]
  BY DEF Ends
<1> QED
  BY <1>1, <1>2, TaskMovesAlone DEF Owning

LEMMA GoesHolds ==
  ASSUME TasksTyped, TasksSound, runs' = runs, NEW t \in Runners,
         NEW point \in TaskPoints \ {"files"}, Goes(t, point),
         point \in Owning => runners[t].pc \in Owning,
         point \in Writing => runners[t].pc \in Writing,
         point = "advance" => Delivered(runners[t].frame)
  PROVE  TasksTyped' /\ TasksSound'
<1> DEFINE task == [runners[t] EXCEPT !.pc = point]
<1>1. runners[t] \in TaskRecords
  BY DEF TasksTyped
<1>2. /\ task \in TaskRecords /\ task.pc = point
      /\ task.row = runners[t].row /\ task.frame = runners[t].frame
  BY <1>1 DEF TaskRecords
<1>3. runners' = [runners EXCEPT ![t] = task]
  BY DEF Goes
<1> HIDE DEF task
<1> QED
  BY <1>2, <1>3, TaskMovesAlone

(* The cursor stays where it may be. *)
LEMMA CursorStays ==
  ASSUME CursorMeansDone, RunsGrow, eventCursor' = eventCursor, baselines \subseteq baselines'
  PROVE  CursorMeansDone'
<1>1. Delivered(eventCursor) => Delivered(eventCursor)'
  BY DeliveredStays
<1> QED
  BY <1>1 DEF CursorMeansDone

LEMMA SameRunsGrow ==
  ASSUME runs' = runs
  PROVE  RunsGrow /\ (RunsTyped => RunsTyped')
  BY DEF RunsGrow, RunsTyped

-----------------------------------------------------------------------------
LEMMA RunsInitHolds == AutomationInit => RunsInv
<1> SUFFICES ASSUME AutomationInit PROVE RunsInv
  OBVIOUS
<1>1. ClocksTyped /\ RunsTyped /\ CursorMeansDone
  BY DEF AutomationInit, ClocksTyped, RunsTyped, CursorMeansDone
<1>2. NoRun \in TaskRecords /\ NoRun.pc = "none"
  BY DEF NoRun, TaskRecords, TaskPoints, TaskKinds
<1>3. Off \in LoopRecords
  BY DEF Off, LoopRecords, LoopPoints
<1>4. TasksTyped /\ LoopsTyped
  BY <1>2, <1>3 DEF AutomationInit, TasksTyped, LoopsTyped
<1>5. TasksSound
  BY <1>2 DEF AutomationInit, TasksSound, Sound, Owns, Unended, Earned, Apart, Owning, Writing
<1> QED
  BY <1>1, <1>4, <1>5 DEF RunsInv, AutomationTyped

(* The steps of the world and of the managers. *)
LEMMA LoopMoves ==
  ASSUME LoopsTyped, NEW l \in Loops, NEW loop \in LoopRecords,
         loops' = [loops EXCEPT ![l] = loop], manager' \in Loops \cup {NoLoop}
  PROVE  LoopsTyped'
  BY DEF LoopsTyped

LEMMA AfterPollTyped ==
  ASSUME NEW l \in Loops
  PROVE  AfterPoll(l) \in LoopRecords
  BY DEF AfterPoll, Off, LoopRecords, LoopPoints

(* What a manager's step leaves to be shown. *)
LEMMA LoopStep ==
  ASSUME RunsInv, runs' = runs, eventCursor' = eventCursor, baselines \subseteq baselines',
         ClocksTyped', LoopsTyped', TasksTyped' /\ TasksSound'
  PROVE  RunsInv'
  BY SameRunsGrow, CursorStays DEF RunsInv, AutomationTyped

LEMMA SameTasks ==
  ASSUME TasksTyped, TasksSound, runners' = runners, runs' = runs
  PROVE  TasksTyped' /\ TasksSound'
<1>1. TasksTyped'
  BY DEF TasksTyped
<1>2. ASSUME NEW t \in Runners PROVE Sound(runners[t])'
  BY DEF TasksSound, Sound, Owns, Unended, Earned, Delivered
<1>3. ASSUME NEW t \in Runners, NEW u \in Runners, t # u PROVE Apart(runners[t], runners[u])'
  BY <1>3 DEF TasksSound, Apart
<1> QED
  BY <1>1, <1>2, <1>3 DEF TasksSound

LEMMA WorldStep ==
  ASSUME RunsInv, FrameStored \/ FramesDeleted \/ HourPasses
  PROVE  RunsInv'
<1>1. /\ UNCHANGED <<runs, eventCursor, baselines, runners, loops, manager, scheduled>>
      /\ {newest', taken', clockHour'} \subseteq Nat
  BY DEF FrameStored, FramesDeleted, HourPasses, loopVars, frameVars, RunsInv, AutomationTyped,
         ClocksTyped
<1>2. ClocksTyped' /\ LoopsTyped'
  BY <1>1 DEF RunsInv, AutomationTyped, ClocksTyped, LoopsTyped
<1> QED
  BY <1>1, <1>2, SameTasks, LoopStep DEF RunsInv, AutomationTyped

LEMMA ManagerStep ==
  ASSUME RunsInv, NEW l \in Loops, StartManager(l) \/ PollStep(l) \/ PollFails(l)
  PROVE  RunsInv'
<1> USE DEF RunsInv, AutomationTyped
<1>1. loops[l] \in LoopRecords
  BY DEF LoopsTyped
<1>2. CASE StartManager(l)
  <2>1. [loops[l] EXCEPT !.pc = "idle"] \in LoopRecords
    BY <1>1 DEF LoopRecords, LoopPoints
  <2>2. LoopsTyped'
    BY <1>2, <2>1, LoopMoves DEF StartManager
  <2>3. ClocksTyped'
    BY <1>2 DEF StartManager, ClocksTyped, frameVars
  <2> QED
    BY <1>2, <2>2, <2>3, SameTasks, LoopStep DEF StartManager
<1>3. CASE PollSchedule(l)
  <2>1. [loops[l] EXCEPT !.pc = "due", !.seen = scheduled, !.now = clockHour] \in LoopRecords
    BY <1>1 DEF LoopRecords, LoopPoints, ClocksTyped
  <2>2. loops' = [loops EXCEPT ![l] = [loops[l] EXCEPT !.pc = "due", !.seen = scheduled,
                                                       !.now = clockHour]]
    BY <1>3 DEF PollSchedule
  <2>3. LoopsTyped'
    BY <1>3, <2>1, <2>2, LoopMoves DEF PollSchedule, LoopsTyped
  <2>4. ClocksTyped'
    BY <1>3 DEF PollSchedule, ClocksTyped, frameVars
  <2> QED
    BY <1>3, <2>3, <2>4, SameTasks, LoopStep DEF PollSchedule
<1>4. CASE PollDue(l)
  <2>1. [loops[l] EXCEPT !.pc = "frames"] \in LoopRecords
    BY <1>1 DEF LoopRecords, LoopPoints
  <2>2. LoopsTyped'
    BY <1>4, <2>1, LoopMoves DEF PollDue, LoopsTyped
  <2>3. ClocksTyped'
    BY <1>1, <1>4 DEF PollDue, ClocksTyped, frameVars, LoopRecords
  <2>4. TasksTyped' /\ TasksSound'
    BY <1>4, SameTasks, SpawnHolds DEF PollDue, TaskKinds
  <2> QED
    BY <1>4, <2>2, <2>3, <2>4, LoopStep DEF PollDue
<1>5. CASE PollFrames(l)
  <2> DEFINE loop == IF newest = 0 THEN AfterPoll(l)
                     ELSE [loops[l] EXCEPT !.pc = "cursor", !.seen = newest]
  <2>1. loop \in LoopRecords
    BY <1>1, AfterPollTyped DEF LoopRecords, LoopPoints, ClocksTyped
  <2>2. loops' = [loops EXCEPT ![l] = loop]
    BY <1>5 DEF PollFrames
  <2> HIDE DEF loop
  <2>3. LoopsTyped'
    BY <1>5, <2>1, <2>2, LoopMoves DEF PollFrames, LoopsTyped
  <2>4. ClocksTyped'
    BY <1>5 DEF PollFrames, ClocksTyped, frameVars
  <2> QED
    BY <1>5, <2>3, <2>4, SameTasks, LoopStep DEF PollFrames
<1>6. CASE PollCursor(l)
  <2> DEFINE loop == IF eventCursor = 0 THEN [loops[l] EXCEPT !.pc = "first"] ELSE AfterPoll(l)
  <2>1. loop \in LoopRecords
    BY <1>1, AfterPollTyped DEF LoopRecords, LoopPoints
  <2>2. loops' = [loops EXCEPT ![l] = loop]
    BY <1>6 DEF PollCursor
  <2> HIDE DEF loop
  <2>3. LoopsTyped'
    BY <1>6, <2>1, <2>2, LoopMoves DEF PollCursor, LoopsTyped
  <2>4. ClocksTyped'
    BY <1>6 DEF PollCursor, ClocksTyped, frameVars
  <2>5. loops[l].seen \in Nat
    BY <1>1 DEF LoopRecords
  <2>6. TasksTyped' /\ TasksSound'
    BY <1>6, <2>5, SameTasks, SpawnHolds DEF PollCursor, TaskKinds
  <2> QED
    BY <1>6, <2>3, <2>4, <2>6, LoopStep DEF PollCursor
<1>7. CASE PollFirst(l)
  <2>1. LoopsTyped'
    BY <1>7, AfterPollTyped, LoopMoves DEF PollFirst, LoopsTyped
  <2>2. ClocksTyped'
    BY <1>1, <1>7 DEF PollFirst, ClocksTyped, frameVars, LoopRecords
  <2>3. TasksTyped' /\ TasksSound'
    BY <1>7, SameTasks DEF PollFirst
  <2>4. CursorMeansDone'
    BY <1>7 DEF PollFirst, CursorMeansDone
  <2> QED
    BY <1>7, <2>1, <2>2, <2>3, <2>4, SameRunsGrow DEF PollFirst
<1>8. CASE PollFails(l)
  <2>1. LoopsTyped'
    BY <1>8, AfterPollTyped, LoopMoves DEF PollFails, LoopsTyped
  <2>2. ClocksTyped'
    BY <1>8 DEF PollFails, ClocksTyped, frameVars
  <2> QED
    BY <1>8, <2>1, <2>2, SameTasks, LoopStep DEF PollFails
<1> QED
  BY <1>2, <1>3, <1>4, <1>5, <1>6, <1>7, <1>8 DEF PollStep

LEMMA StopStep ==
  ASSUME RunsInv, StopManager
  PROVE  RunsInv'
<1> USE DEF RunsInv, AutomationTyped
<1> DEFINE loop == IF loops[manager].pc = "idle" THEN Off
                   ELSE [loops[manager] EXCEPT !.stopping = TRUE]
<1>1. manager \in Loops /\ loops[manager] \in LoopRecords
  BY DEF StopManager, LoopsTyped
<1>2. loop \in LoopRecords
  BY <1>1 DEF Off, LoopRecords, LoopPoints
<1>3. loops' = [loops EXCEPT ![manager] = loop]
  BY DEF StopManager
<1> HIDE DEF loop
<1>4. LoopsTyped'
  BY <1>1, <1>2, <1>3, LoopMoves DEF StopManager
<1>5. ClocksTyped'
  BY DEF StopManager, ClocksTyped, frameVars
<1> QED
  BY <1>4, <1>5, SameTasks, LoopStep DEF StopManager

(* What a task's step leaves to be shown. *)
LEMMA TaskLeaves ==
  ASSUME RunsInv, RunsGrow, RunsTyped', UNCHANGED <<frameVars, loopVars>>, eventCursor' = eventCursor,
         TasksTyped' /\ TasksSound'
  PROVE  RunsInv'
<1>1. ClocksTyped' /\ LoopsTyped'
  BY DEF RunsInv, AutomationTyped, ClocksTyped, LoopsTyped, frameVars, loopVars
<1>2. CursorMeansDone'
  BY CursorStays DEF RunsInv, loopVars
<1> QED
  BY <1>1, <1>2 DEF RunsInv, AutomationTyped

(* The steps of a task that change no row. *)
LEMMA QuietStep ==
  ASSUME RunsInv, NEW t \in Runners,
         \/ Permit(t) \/ Check(t) \/ Resolve(t) \/ Backoff(t) \/ Files(t)
         \/ ResolveFails(t) \/ StorageFails(t) \/ Cancel(t)
  PROVE  RunsInv'
<1> USE DEF RunsInv, AutomationTyped
<1>1. /\ runs' = runs /\ eventCursor' = eventCursor /\ UNCHANGED <<frameVars, loopVars>>
  BY DEF Permit, Check, Resolve, Backoff, Files, ResolveFails, StorageFails, Cancel
<1>2. runners[t] \in TaskRecords /\ Sound(runners[t])
  BY DEF TasksTyped, TasksSound
<1>3. ASSUME Ends(t) PROVE TasksTyped' /\ TasksSound'
  BY <1>1, <1>3, EndsHolds
<1>4. CASE Permit(t)
  <2>1. Goes(t, "check")
    BY <1>4 DEF Permit
  <2> QED
    BY <1>1, <2>1, GoesHolds, SameRunsGrow, TaskLeaves DEF TaskPoints, Owning, Writing
<1>5. CASE Check(t)
  <2>1. Ends(t) \/ Goes(t, "insert")
    BY <1>5 DEF Check
  <2>2. TasksTyped' /\ TasksSound'
    BY <1>1, <1>3, <2>1, GoesHolds DEF TaskPoints, Owning, Writing
  <2> QED
    BY <1>1, <2>2, SameRunsGrow, TaskLeaves
<1>6. CASE Resolve(t)
  <2>1. Goes(t, "start") /\ runners[t].pc = "resolve"
    BY <1>6 DEF Resolve, RunnerAt
  <2>2. TasksTyped' /\ TasksSound'
    BY <1>1, <2>1, GoesHolds DEF TaskPoints, Owning, Writing
  <2> QED
    BY <1>1, <2>2, SameRunsGrow, TaskLeaves
<1>7. CASE Backoff(t)
  <2> DEFINE task == [runners[t] EXCEPT !.pc = "check", !.attempt = @ + 1]
  <2>1. runners[t] \in TaskRecords /\ runners[t].attempt + 1 \in Nat
    BY <1>2 DEF TaskRecords
  <2>2. task \in TaskRecords /\ task.pc = "check"
    BY <2>1 DEF TaskRecords, TaskPoints
  <2>3. runners' = [runners EXCEPT ![t] = task]
    BY <1>7 DEF Backoff
  <2> HIDE DEF task
  <2>4. TasksTyped' /\ TasksSound'
    BY <1>1, <2>2, <2>3, TaskMovesAlone DEF Owning
  <2> QED
    BY <1>1, <2>4, SameRunsGrow, TaskLeaves
<1>8. CASE Files(t)
  <2>1. runners[t].kind = "event" => Delivered(runners[t].frame)
    BY <1>2, <1>8 DEF Files, RunnerAt, Sound, Earned
  <2>2. Ends(t) \/ (runners[t].kind = "event" /\ Goes(t, "advance"))
    BY <1>8 DEF Files
  <2>3. TasksTyped' /\ TasksSound'
    BY <1>1, <1>3, <2>1, <2>2, GoesHolds DEF TaskPoints, Owning, Writing
  <2> QED
    BY <1>1, <2>3, SameRunsGrow, TaskLeaves
<1>9. CASE ResolveFails(t) \/ StorageFails(t)
  <2>1. Ends(t)
    BY <1>9 DEF ResolveFails, StorageFails
  <2> QED
    BY <1>1, <1>3, <2>1, SameRunsGrow, TaskLeaves
<1>10. CASE Cancel(t)
  <2>1. Goes(t, "cancel") /\ runners[t].pc \in {"start", "run", "files"}
    BY <1>10 DEF Cancel
  <2>2. TasksTyped' /\ TasksSound'
    BY <1>1, <2>1, GoesHolds DEF TaskPoints, Owning, Writing
  <2> QED
    BY <1>1, <2>2, SameRunsGrow, TaskLeaves
<1> QED
  BY <1>4, <1>5, <1>6, <1>7, <1>8, <1>9, <1>10

(* A task queues a row of its own. *)
LEMMA InsertStep ==
  ASSUME RunsInv, NEW t \in Runners, Insert(t)
  PROVE  RunsInv'
<1> USE DEF RunsInv, AutomationTyped
<1> DEFINE row == [kind |-> runners[t].kind, frame |-> runners[t].frame, status |-> "queued",
                   attempt |-> runners[t].attempt]
           number == Len(runs) + 1
           task == [runners[t] EXCEPT !.pc = "resolve", !.row = number]
<1>1. runners[t] \in TaskRecords
  BY DEF TasksTyped
<1>2. row \in RunRows /\ row.frame = runners[t].frame /\ row.status = "queued"
  BY <1>1 DEF TaskRecords, RunRows, RunStatuses
<1>3. runs' = Append(runs, row)
  BY DEF Insert
<1> HIDE DEF row
<1>4. /\ RunsTyped' /\ Len(runs') = number /\ number \in Nat
      /\ DOMAIN runs = 1 .. Len(runs) /\ DOMAIN runs' = 1 .. number
      /\ \A i \in DOMAIN runs : runs'[i] = runs[i]
      /\ runs'[number] = row
  BY <1>2, <1>3 DEF RunsTyped
<1>5. RunsGrow
  BY <1>4 DEF RunsGrow
<1>6. runners' = [runners EXCEPT ![t] = task]
  BY <1>4 DEF Insert
<1>7. /\ task \in TaskRecords /\ task.pc = "resolve" /\ task.row = number
      /\ task.frame = runners[t].frame
  BY <1>1, <1>4 DEF TaskRecords, TaskPoints
<1> HIDE DEF task
<1>8. number \in DOMAIN runs' /\ number \notin DOMAIN runs
  BY <1>4
<1>9. runs'[task.row].frame = task.frame /\ runs'[task.row].status # "succeeded"
  BY <1>2, <1>4, <1>7
<1> HIDE DEF number
<1>10. TasksTyped' /\ TasksSound'
  BY <1>4, <1>5, <1>6, <1>7, <1>8, <1>9, OneTaskMoves
<1> QED
  BY <1>4, <1>5, <1>10, TaskLeaves DEF Insert

(* A task writes the status of its row and goes on. *)
LEMMA WritingStep ==
  ASSUME RunsInv, NEW t \in Runners, NEW status \in RunStatuses, Becomes(t, status),
         runners[t].pc \in Writing \/ (runners[t].pc = "cancel"
                                     /\ OwnRow(t).status # "succeeded"),
         NEW task \in TaskRecords, runners' = [runners EXCEPT ![t] = task],
         task.pc \in Owning => task.row = runners[t].row /\ task.frame = runners[t].frame,
         task.pc \in Writing => status # "succeeded",
         task.pc # "advance",
         task.pc = "files" => status = "succeeded",
         UNCHANGED <<frameVars, loopVars, eventCursor>>
  PROVE  RunsInv'
<1> USE DEF RunsInv, AutomationTyped
<1>1. Sound(runners[t]) /\ runners[t].pc \in Owning
  BY DEF TasksSound, Owning, Writing
<1>2. /\ runners[t].row \in DOMAIN runs /\ runs[runners[t].row].frame = runners[t].frame
      /\ runs[runners[t].row].status # "succeeded"
  BY <1>1 DEF Sound, Owns, Unended, OwnRow
<1>3. /\ RunsTyped'
      /\ DOMAIN runs' = DOMAIN runs
      /\ \A i \in DOMAIN runs :
           /\ runs'[i].frame = runs[i].frame
           /\ i # runners[t].row => runs'[i] = runs[i]
           /\ i = runners[t].row => runs'[i].status = status
  BY BecomesChanges
<1>4. RunsGrow
  BY <1>2, <1>3 DEF RunsGrow
<1>5. task.pc \in Owning =>
         /\ task.row \in DOMAIN runs'
         /\ runs'[task.row].frame = task.frame
         /\ task.pc \in Writing => runs'[task.row].status # "succeeded"
  BY <1>2, <1>3
<1>6. task.pc = "files" => Delivered(task.frame)'
  BY <1>2, <1>3, <1>5 DEF Delivered, Owning
<1>7. TasksTyped' /\ TasksSound'
  BY <1>1, <1>3, <1>4, <1>5, <1>6, OneTaskMoves
<1> QED
  BY <1>3, <1>4, <1>7, TaskLeaves

LEMMA MovedTask ==
  ASSUME TasksTyped, NEW t \in Runners, NEW point \in TaskPoints, Goes(t, point)
  PROVE  \E task \in TaskRecords :
           /\ runners' = [runners EXCEPT ![t] = task]
           /\ task.pc = point /\ task.row = runners[t].row /\ task.frame = runners[t].frame
<1> DEFINE task == [runners[t] EXCEPT !.pc = point]
<1>1. runners[t] \in TaskRecords
  BY DEF TasksTyped
<1>2. /\ task \in TaskRecords /\ task.pc = point
      /\ task.row = runners[t].row /\ task.frame = runners[t].frame
  BY <1>1 DEF TaskRecords
<1>3. runners' = [runners EXCEPT ![t] = task]
  BY DEF Goes
<1> HIDE DEF task
<1> QED
  BY <1>2, <1>3

LEMMA EndedTask ==
  ASSUME NEW t \in Runners, Ends(t)
  PROVE  \E task \in TaskRecords : runners' = [runners EXCEPT ![t] = task] /\ task.pc = "none"
<1>1. NoRun \in TaskRecords /\ NoRun.pc = "none"
  BY DEF NoRun, TaskRecords, TaskPoints, TaskKinds
<1> QED
  BY <1>1 DEF Ends

LEMMA RunStep ==
  ASSUME RunsInv, NEW t \in Runners, Start(t) \/ Succeed(t) \/ Fail(t) \/ RecordCancel(t)
  PROVE  RunsInv'
<1> USE DEF RunsInv, AutomationTyped
<1>1. UNCHANGED <<frameVars, loopVars, eventCursor>>
  BY DEF Start, Succeed, Fail, RecordCancel
<1>2. CASE Start(t)
  <2>1. Goes(t, "run") /\ Becomes(t, "running") /\ runners[t].pc \in Writing
    BY <1>2 DEF Start, RunnerAt, Writing
  <2>2. PICK task \in TaskRecords :
          /\ runners' = [runners EXCEPT ![t] = task]
          /\ task.pc = "run" /\ task.row = runners[t].row /\ task.frame = runners[t].frame
    BY <2>1, MovedTask DEF TaskPoints
  <2> QED
    BY <1>1, <2>1, <2>2, WritingStep DEF RunStatuses
<1>3. CASE Succeed(t) /\ ~SuccessTaken(t)
  <2>1. Goes(t, "files") /\ Becomes(t, "succeeded") /\ runners[t].pc \in Writing
    BY <1>3 DEF Succeed, RunnerAt, Writing
  <2>2. PICK task \in TaskRecords :
          /\ runners' = [runners EXCEPT ![t] = task]
          /\ task.pc = "files" /\ task.row = runners[t].row /\ task.frame = runners[t].frame
    BY <2>1, MovedTask DEF TaskPoints
  <2> QED
    BY <1>1, <2>1, <2>2, WritingStep DEF RunStatuses, Writing
<1>4. CASE Succeed(t) /\ SuccessTaken(t)
  <2>1. Ends(t) /\ runs' = runs
    BY <1>4 DEF Succeed
  <2> QED
    BY <1>1, <2>1, EndsHolds, SameRunsGrow, TaskLeaves
<1>5. CASE Fail(t)
  <2>1. (Goes(t, "backoff") \/ Ends(t)) /\ Becomes(t, "failed") /\ runners[t].pc \in Writing
    BY <1>5 DEF Fail, RunnerAt, Writing
  <2>2. PICK task \in TaskRecords :
          runners' = [runners EXCEPT ![t] = task] /\ task.pc \in {"backoff", "none"}
    BY <2>1, MovedTask, EndedTask DEF TaskPoints
  <2> QED
    BY <1>1, <2>1, <2>2, WritingStep DEF RunStatuses, Owning, Writing
<1>6. CASE RecordCancel(t)
  <2>1. Ends(t) /\ runners[t].pc = "cancel"
    BY <1>6 DEF RecordCancel, RunnerAt
  <2>2. CASE runs' = runs
    BY <1>1, <2>1, <2>2, EndsHolds, SameRunsGrow, TaskLeaves
  <2>3. CASE OwnRow(t).status # "succeeded" /\ Becomes(t, "cancelled")
    <3>1. PICK task \in TaskRecords :
            runners' = [runners EXCEPT ![t] = task] /\ task.pc = "none"
      BY <2>1, EndedTask
    <3> QED
      BY <1>1, <2>1, <2>3, <3>1, WritingStep DEF RunStatuses, Owning, Writing
  <2> QED
    BY <1>6, <2>2, <2>3 DEF RecordCancel
<1> QED
  BY <1>2, <1>3, <1>4, <1>5, <1>6

(* The one step that moves the cursor for a run. *)
LEMMA AdvanceStep ==
  ASSUME RunsInv, NEW t \in Runners, AdvanceCursor(t)
  PROVE  RunsInv'
<1> USE DEF RunsInv, AutomationTyped
<1>1. runners[t] \in TaskRecords /\ Delivered(runners[t].frame)
  BY DEF TasksTyped, TasksSound, Sound, Earned, AdvanceCursor, RunnerAt
<1>2. CursorMeansDone'
  BY <1>1 DEF AdvanceCursor, CursorMeansDone, Delivered
<1>3. ClocksTyped' /\ LoopsTyped'
  BY <1>1 DEF AdvanceCursor, ClocksTyped, LoopsTyped, frameVars, loopVars, TaskRecords
<1> QED
  BY <1>2, <1>3, EndsHolds, SameRunsGrow DEF AdvanceCursor

LEMMA ManualStep ==
  ASSUME RunsInv, RunNow
  PROVE  RunsInv'
<1> USE DEF RunsInv, AutomationTyped
<1>1. TasksTyped' /\ TasksSound'
  BY SpawnHolds DEF RunNow, TaskKinds
<1> QED
  BY <1>1, SameRunsGrow, TaskLeaves DEF RunNow

LEMMA CrashStep ==
  ASSUME RunsInv, AppCrash
  PROVE  RunsInv'
<1> USE DEF RunsInv, AutomationTyped
<1>1. NoRun \in TaskRecords /\ NoRun.pc = "none"
  BY DEF NoRun, TaskRecords, TaskPoints, TaskKinds
<1>2. TasksTyped'
  BY <1>1 DEF AppCrash, TasksTyped
<1>3. \A t \in Runners : runners'[t].pc = "none"
  BY <1>1 DEF AppCrash
<1>4. TasksSound'
  BY <1>3 DEF TasksSound, Sound, Owns, Unended, Earned, Apart, Owning, Writing
<1>5. Off \in LoopRecords
  BY DEF Off, LoopRecords, LoopPoints
<1>6. ClocksTyped' /\ LoopsTyped'
  BY <1>5 DEF AppCrash, ClocksTyped, LoopsTyped, frameVars
<1> QED
  BY <1>2, <1>4, <1>6, LoopStep DEF AppCrash

LEMMA AutomationStep == RunsInv /\ [AutomationNext]_automationVars => RunsInv'
<1> SUFFICES ASSUME RunsInv, [AutomationNext]_automationVars PROVE RunsInv'
  OBVIOUS
<1>1. CASE UNCHANGED automationVars
  <2>1. UNCHANGED <<runs, eventCursor, runners, frameVars, loopVars>>
    BY <1>1 DEF automationVars
  <2> QED
    BY <2>1, SameTasks, SameRunsGrow, TaskLeaves DEF RunsInv, AutomationTyped
<1>2. CASE AutomationNext
  BY <1>2, WorldStep, ManagerStep, StopStep, ManualStep, QuietStep, InsertStep, RunStep,
     AdvanceStep, CrashStep
  DEF AutomationNext, TaskStep
<1> QED
  BY <1>1, <1>2

(* Whichever task, retry, second manager or restart sets it, the cursor of    *)
(* the events stands at a frame whose run has succeeded, or where the first *)
(* poll has set it (automation_commands.rs, poll_once and run_background;   *)
(* lib.rs, enqueue and execute).                                            *)
THEOREM CursorNeverAhead == AutomationSpec => []CursorMeansDone
<1>1. RunsInv => CursorMeansDone
  BY DEF RunsInv
<1> QED
  BY RunsInitHolds, AutomationStep, <1>1, PTL DEF AutomationSpec

(* Every variable that the steps go by keeps its type. *)
THEOREM AutomationTypeCorrect == AutomationSpec => []AutomationTyped
<1>1. RunsInv => AutomationTyped
  BY DEF RunsInv
<1> QED
  BY RunsInitHolds, AutomationStep, <1>1, PTL DEF AutomationSpec

-----------------------------------------------------------------------------
(* Usage counts and their consent (TelemetryConsent).                       *)
ConsentStates == {"unknown", "granted", "denied"}

ApplyTyped ==
  /\ apply \in [at : {"rest", "read", "stop", "bump", "clear", "settle"},
                to : ConsentStates, cleared : SUBSET Cleared]
  /\ apply.at \in {"rest", "read", "stop", "bump"} => apply.cleared = {}

Exporters ==
  [at : {"rest", "generation", "drain", "token", "metrics", "traces"}, generation : Nat,
   drained : 0 .. 3, taken : SUBSET (BankNames \X Nat), checked : Nat]

ExporterTyped ==
  /\ exporter \in Exporters
  /\ exporter.at \in {"rest", "generation"} => exporter.taken = {}

CountersTyped ==
  /\ generation \in Nat /\ era \in Nat /\ exporter.generation =< generation
  /\ banks \in [BankNames -> SUBSET Nat]
  /\ consent \in ConsentStates

(* The inductive invariant.  Something from before a revocation is in a bank *)
(* only until that revocation has emptied the bank, and in a snapshot only   *)
(* if the snapshot is of an older generation or the revocation has still to *)
(* raise it; and while it has, the consent is not granted.                  *)
Revoking(places) == apply.at \in places /\ apply.to # "granted"

BanksEmptied ==
  \A b \in Cleared : \A e \in banks[b] :
    \/ e = era
    \/ Revoking({"bump", "clear"}) /\ b \notin apply.cleared

Stale == \E b \in Cleared, e \in Nat : <<b, e>> \in exporter.taken /\ e # era

SnapshotsExpire ==
  Stale => \/ exporter.generation < generation
           \/ Revoking({"bump", "clear", "settle"})

(* What the check has let go is of the era of the check.                     *)
CheckedIsCurrent ==
  exporter.at \in {"metrics", "traces"} =>
    \A b \in Cleared, e \in Nat : <<b, e>> \in exporter.taken => e = exporter.checked

ConsentWithheld ==
  /\ apply.at \in {"bump", "clear"} => consent = "denied"
  /\ apply.at = "settle" => consent = apply.to

ConsentInv ==
  /\ ApplyTyped /\ ExporterTyped /\ CountersTyped
  /\ BanksEmptied /\ SnapshotsExpire /\ CheckedIsCurrent /\ ConsentWithheld
  /\ ClearedIsNotSent

-----------------------------------------------------------------------------
LEMMA BanksAre ==
  /\ Len(Banks) = 3 /\ BankNames = {"counters", "diagnostics", "traces"}
  /\ \A n \in 1 .. 3 : Banks[n] \in BankNames
  /\ Cleared \subseteq BankNames
<1>1. DOMAIN Banks = 1 .. 3 /\ Len(Banks) = 3
  BY DEF Banks
<1>2. BankNames = {Banks[1], Banks[2], Banks[3]}
  BY <1>1 DEF BankNames, ToSet
<1> QED
  BY <1>1, <1>2 DEF Banks, Cleared

LEMMA ConsentInitHolds == ConsentInit => ConsentInv
  BY BanksAre DEF ConsentInit, ConsentInv, ApplyTyped, ExporterTyped, Exporters, CountersTyped,
    BanksEmptied, SnapshotsExpire, CheckedIsCurrent, Stale, Revoking, ConsentWithheld, ClearedIsNotSent,
    NothingUnderWay, ExporterRests, ConsentStates

(* A snapshot that still counts holds nothing from before a revocation.      *)
LEMMA FreshIsSent == ConsentInv /\ StillCounts => ~Stale
  BY DEF ConsentInv, CountersTyped, SnapshotsExpire, ConsentWithheld, StillCounts, IsEnabled,
    Revoking

LEMMA ConsentStep == ConsentInv /\ [ConsentNext]_consentVars => ConsentInv'
<1> SUFFICES ASSUME ConsentInv, [ConsentNext]_consentVars PROVE ConsentInv'
  OBVIOUS
<1> USE DEF ConsentInv
<1>1. CASE \E b \in BankNames : Look(b)
  BY <1>1 DEF Look, ApplyTyped, ExporterTyped, Exporters, CountersTyped, BanksEmptied, SnapshotsExpire,
    CheckedIsCurrent, Stale, Revoking, ConsentWithheld, ClearedIsNotSent
<1>2. ASSUME NEW b \in BankNames, Count(b) PROVE ConsentInv'
  <2>1. /\ \A c \in BankNames : banks'[c] = banks[c] \/ banks'[c] = banks[c] \cup {era}
        /\ banks' \in [BankNames -> SUBSET Nat]
    BY <1>2 DEF Count, CountersTyped
  <2>2. CountersTyped' /\ BanksEmptied'
    BY <1>2, <2>1, BanksAre DEF Count, CountersTyped, BanksEmptied, Revoking
  <2> QED
    BY <1>2, <2>2 DEF Count, ApplyTyped, ExporterTyped, Exporters, SnapshotsExpire, CheckedIsCurrent, Stale, Revoking,
      ConsentWithheld, ClearedIsNotSent
<1>3. ASSUME NEW b \in BankNames, Clear(b) PROVE ConsentInv'
  <2>1. ApplyTyped' /\ apply'.at = apply.at /\ apply'.to = apply.to
        /\ apply'.cleared = apply.cleared \cup {b}
    BY <1>3 DEF Clear, ApplyTyped
  <2>2. CountersTyped' /\ BanksEmptied'
    BY <1>3, <2>1 DEF Clear, CountersTyped, BanksEmptied, Revoking
  <2> QED
    BY <1>3, <2>1, <2>2 DEF Clear, ExporterTyped, Exporters, SnapshotsExpire, CheckedIsCurrent, Stale, Revoking,
      ConsentWithheld, ClearedIsNotSent
<1>4. CASE Save \/ PublishRuntime
  BY <1>4 DEF Save, PublishRuntime, ApplyTyped, ExporterTyped, Exporters, CountersTyped, BanksEmptied,
    SnapshotsExpire, CheckedIsCurrent, Stale, Revoking, ConsentWithheld, ClearedIsNotSent
<1>5. CASE Enter \/ ReadSettings
  <2>1. /\ ApplyTyped'
        /\ \/ apply' = apply
           \/ apply.at \in {"rest", "read"} /\ apply'.at \in {"read", "stop"}
    <3>1. CASE Enter
      BY <3>1 DEF Enter, ApplyTyped, NothingUnderWay, ConsentStates
    <3>2. CASE ReadSettings
      <4> PICK decision \in ConsentStates : apply' = [apply EXCEPT !.at = "stop", !.to = decision]
        BY <3>2 DEF ReadSettings, Resolution, ConsentStates
      <4>1. apply' \in [at : {"rest", "read", "stop", "bump", "clear", "settle"},
                        to : ConsentStates, cleared : SUBSET Cleared]
        BY DEF ApplyTyped
      <4>2. apply'.at = "stop" /\ apply'.cleared = apply.cleared
        BY DEF ApplyTyped
      <4> QED
        BY <3>2, <4>1, <4>2 DEF ReadSettings, ApplyTyped
    <3> QED
      BY <1>5, <3>1, <3>2
  <2> QED
    BY <1>5, <2>1 DEF Enter, ReadSettings, ExporterTyped, Exporters, CountersTyped, BanksEmptied,
      SnapshotsExpire, CheckedIsCurrent, Stale, Revoking, ConsentWithheld, ClearedIsNotSent
<1>6. CASE DenyFirst
  <2>1. ApplyTyped' /\ apply'.at = "bump" /\ apply'.to = apply.to /\ apply'.cleared = {}
    BY <1>6 DEF DenyFirst, ApplyTyped
  <2>2. BanksEmptied' /\ SnapshotsExpire'
    BY <1>6, <2>1 DEF DenyFirst, BanksEmptied, SnapshotsExpire, CheckedIsCurrent, Stale, Revoking
  <2> QED
    BY <1>6, <2>1, <2>2 DEF DenyFirst, ExporterTyped, CheckedIsCurrent, CountersTyped,
      ConsentWithheld, ClearedIsNotSent, ConsentStates
<1>7. CASE Bump \/ SetConsent
  <2>1. ApplyTyped' /\ apply'.to = apply.to /\ apply'.cleared = apply.cleared
    BY <1>7 DEF Bump, SetConsent, ApplyTyped
  <2>2. \/ apply.at = "bump" /\ apply'.at = "clear" /\ consent' = consent /\ generation' = generation + 1
        \/ /\ apply.at = "clear" /\ apply'.at = "settle" /\ consent' = apply.to
           /\ generation' = generation /\ Cleared \subseteq apply.cleared
    BY <1>7 DEF Bump, SetConsent, ApplyTyped
  <2>3. UNCHANGED <<banks, exporter, era, late>>
    BY <1>7 DEF Bump, SetConsent
  <2>4. CountersTyped' /\ ConsentWithheld' /\ ExporterTyped' /\ ClearedIsNotSent'
    BY <2>1, <2>2, <2>3 DEF CountersTyped, ConsentWithheld, ExporterTyped, Exporters, ClearedIsNotSent,
      ApplyTyped
  <2>5. BanksEmptied'
    BY <2>1, <2>2, <2>3 DEF BanksEmptied, Revoking
  <2>6. SnapshotsExpire'
    BY <2>1, <2>2, <2>3 DEF SnapshotsExpire, CheckedIsCurrent, Stale, Revoking, CountersTyped, ExporterTyped, Exporters
  <2> QED
    BY <2>1, <2>3, <2>4, <2>5, <2>6 DEF CheckedIsCurrent
<1>8. CASE Settle
  <2>1. ApplyTyped' /\ apply'.at = "rest"
    BY <1>8 DEF Settle, ApplyTyped, NothingUnderWay, ConsentStates
  <2>2. CountersTyped' /\ SnapshotsExpire'
    BY <1>8 DEF Settle, CountersTyped, ExporterTyped, Exporters, SnapshotsExpire
  <2> QED
    BY <1>8, <2>1, <2>2 DEF Settle, ExporterTyped, CheckedIsCurrent, BanksEmptied, Revoking,
      ConsentWithheld, ClearedIsNotSent
<1>9. CASE ExporterWakes \/ Note
  <2>1. ExporterTyped' /\ exporter'.taken = {} /\ exporter'.generation =< generation
    <3>1. CASE ExporterWakes
      BY <3>1 DEF ExporterWakes, ExporterTyped, Exporters, CountersTyped
    <3>2. CASE Note
      <4>1. exporter' \in Exporters
        BY <3>2 DEF Note, ExporterTyped, Exporters, CountersTyped
      <4>2. /\ exporter'.at = "drain" /\ exporter'.taken = exporter.taken
            /\ exporter'.generation = generation /\ exporter.taken = {}
        BY <3>2 DEF Note, ExporterTyped, Exporters
      <4> QED
        BY <4>1, <4>2 DEF ExporterTyped, Exporters, CountersTyped
    <3> QED
      BY <1>9, <3>1, <3>2
  <2> QED
    BY <1>9, <2>1 DEF ExporterWakes, Note, ApplyTyped, CountersTyped, BanksEmptied,
      SnapshotsExpire, CheckedIsCurrent, Stale, Revoking, ConsentWithheld, ClearedIsNotSent
<1>10. CASE Drain
  <2> PICK b \in BankNames :
        /\ banks' = [banks EXCEPT ![b] = {}]
        /\ exporter' = [exporter EXCEPT !.drained = @ + 1, !.taken = @ \cup ({b} \X banks[b])]
        /\ exporter.drained < 3 /\ exporter.at = "drain"
    <3>1. Banks[exporter.drained + 1] \in BankNames /\ exporter.drained < 3
      <4>1. exporter.drained \in 0 .. 3 /\ exporter.drained < Len(Banks)
        BY <1>10 DEF Drain, ExporterTyped, Exporters
      <4>2. exporter.drained + 1 \in 1 .. 3
        BY <4>1, BanksAre
      <4> QED
        BY <4>1, <4>2, BanksAre
    <3> QED
      BY <1>10, <3>1 DEF Drain
  <2>1. /\ exporter'.at = "drain" /\ exporter'.generation = exporter.generation
        /\ exporter'.taken = exporter.taken \cup ({b} \X banks[b])
        /\ exporter'.drained = exporter.drained + 1
    BY DEF ExporterTyped, Exporters
  <2>2. ExporterTyped'
    <3> DEFINE old == ({b} \X banks[b]) more == exporter.drained + 1
    <3>1. old \in SUBSET (BankNames \X Nat)
      BY DEF CountersTyped
    <3>2. more \in 0 .. 3
      BY DEF ExporterTyped, Exporters
    <3>3. exporter' = [exporter EXCEPT !.drained = more, !.taken = @ \cup old]
      OBVIOUS
    <3> HIDE DEF old, more
    <3>4. exporter \in Exporters /\ exporter.taken \cup old \in SUBSET (BankNames \X Nat)
      BY <3>1 DEF ExporterTyped, Exporters
    <3>5. exporter' \in Exporters
      BY <3>2, <3>3, <3>4 DEF Exporters
    <3> QED
      BY <2>1, <3>5 DEF ExporterTyped
  <2>3. UNCHANGED <<apply, generation, era, consent, late>>
    BY <1>10 DEF Drain
  <2>4. CountersTyped' /\ BanksEmptied'
    BY <2>1, <2>3 DEF CountersTyped, BanksEmptied, Revoking
  <2>5. Stale' => Stale \/ Revoking({"bump", "clear"})
    BY <2>1, <2>3 DEF Stale, BanksEmptied, CountersTyped, Revoking
  <2>6. SnapshotsExpire'
    BY <2>1, <2>3, <2>5 DEF SnapshotsExpire, Revoking
  <2> QED
    BY <2>1, <2>2, <2>3, <2>4, <2>6 DEF ApplyTyped, CheckedIsCurrent, ConsentWithheld,
      ClearedIsNotSent
<1>11. CASE Recheck \/ SnapshotIsCurrent
  <2>1. /\ exporter' \in Exporters /\ exporter'.generation =< generation
        /\ \/ exporter'.at = "rest" /\ exporter'.taken = {}
           \/ /\ exporter'.taken = exporter.taken /\ exporter'.generation = exporter.generation
              /\ \/ exporter'.at = "token"
                 \/ exporter'.at = "metrics" /\ StillCounts /\ exporter'.checked = era
    <3>1. CASE exporter' = ExporterRests
      BY <3>1 DEF ExporterRests, Exporters, CountersTyped
    <3>2. CASE exporter' = [exporter EXCEPT !.at = "token"]
      BY <3>2 DEF ExporterTyped, Exporters, CountersTyped
    <3>3. CASE StillCounts /\ exporter' = [exporter EXCEPT !.at = "metrics", !.checked = era]
      BY <3>3 DEF ExporterTyped, Exporters, CountersTyped
    <3> QED
      BY <1>11, <3>1, <3>2, <3>3 DEF Recheck, SnapshotIsCurrent
  <2>2. UNCHANGED <<apply, generation, era, consent, banks, late>>
    BY <1>11 DEF Recheck, SnapshotIsCurrent
  <2>3. CheckedIsCurrent'
    BY <2>1, <2>2, FreshIsSent DEF CheckedIsCurrent, Stale
  <2>4. SnapshotsExpire'
    BY <2>1, <2>2 DEF SnapshotsExpire, Stale, Revoking
  <2> QED
    BY <2>1, <2>2, <2>3, <2>4 DEF ApplyTyped, ExporterTyped, CountersTyped, BanksEmptied,
      Revoking, ConsentWithheld, ClearedIsNotSent
<1>12. CASE PostMetrics \/ PostTraces
  <2>1. /\ ExporterTyped' /\ exporter'.generation =< generation
        /\ \/ exporter'.at = "rest" /\ exporter'.taken = {}
           \/ exporter' = [exporter EXCEPT !.at = "traces"]
    BY <1>12 DEF PostMetrics, PostTraces, ExporterTyped, Exporters, CountersTyped, ExporterRests
  <2>2. UNCHANGED <<apply, generation, era, consent, banks>>
    BY <1>12 DEF PostMetrics, PostTraces
  <2>3. exporter.at \in {"metrics", "traces"} /\ \E S \in SUBSET BankNames : Sends(S)
    BY <1>12, BanksAre DEF PostMetrics, PostTraces
  <2>4. ClearedIsNotSent'
    <3>1. \A b \in Cleared, e \in 0 .. exporter.checked - 1 : <<b, e>> \notin exporter.taken
      <4> SUFFICES ASSUME NEW b \in Cleared, NEW e \in 0 .. exporter.checked - 1
                   PROVE  <<b, e>> \notin exporter.taken
        OBVIOUS
      <4>1. e \in Nat /\ e # exporter.checked
        BY DEF ExporterTyped, Exporters
      <4> QED
        BY <2>3, <4>1 DEF CheckedIsCurrent
    <3> QED
      BY <2>3, <3>1 DEF Sends, ClearedIsNotSent
  <2>5. SnapshotsExpire' /\ CheckedIsCurrent'
    <3>1. CASE exporter'.at = "rest" /\ exporter'.taken = {}
      BY <3>1 DEF SnapshotsExpire, CheckedIsCurrent, Stale
    <3>2. CASE exporter' = [exporter EXCEPT !.at = "traces"]
      <4>1. /\ exporter'.taken = exporter.taken /\ exporter'.checked = exporter.checked
            /\ exporter'.generation = exporter.generation
        BY <3>2 DEF ExporterTyped, Exporters
      <4> QED
        BY <2>2, <2>3, <4>1 DEF SnapshotsExpire, CheckedIsCurrent, Stale, Revoking
    <3> QED
      BY <2>1, <3>1, <3>2
  <2> QED
    BY <2>1, <2>2, <2>4, <2>5 DEF ApplyTyped, CountersTyped, BanksEmptied, Revoking,
      ConsentWithheld
<1>13. CASE UNCHANGED consentVars
  BY <1>13 DEF consentVars, ApplyTyped, ExporterTyped, Exporters, CountersTyped, BanksEmptied,
    SnapshotsExpire, CheckedIsCurrent, Stale, Revoking, ConsentWithheld, ClearedIsNotSent
<1> QED
  BY <1>1, <1>2, <1>3, <1>4, <1>5, <1>6, <1>7, <1>8, <1>9, <1>10, <1>11, <1>12, <1>13
  DEF ConsentNext

(* Whatever commands, recorders and intervals of the exporter overlap, what  *)
(* was counted before a revocation into a bank that a revocation clears is   *)
(* sent by neither request of an interval that is checked after the          *)
(* revocation has begun, not even when consent has been granted again        *)
(* (aggregate.rs, set_consent, drain_interval, snapshot_is_current;          *)
(* telemetry_exporter.rs, start).                                           *)
THEOREM RevokedIsNotSent == ConsentSpec => []ClearedIsNotSent
<1>1. ConsentInv => ClearedIsNotSent
  BY DEF ConsentInv
<1> QED
  BY ConsentInitHolds, ConsentStep, <1>1, PTL DEF ConsentSpec

-----------------------------------------------------------------------------
(* Recording and its pause (RecordingSwitch).                               *)
SwitchPoints ==
  {"none", "sleep", "runtime", "start", "spawn", "lock", "build", "boot", "publish",
   "rest", "clear", "undo", "retry", "rollback", "save", "cancel", "download",
   "assigned", "stop", "schedule", "check", "done"}
Copies == [paused : BOOLEAN, until : Nat]
SwitchTasks == [kind : {"none", "timer"} \cup CommandKinds, pc : SwitchPoints,
                copy : Copies, was : BOOLEAN, gate : {"starting", "booting"}]

SwitchTyped ==
  /\ settings \in Copies /\ points \in [Tasks -> SwitchTasks]
  /\ handle \in Timers \cup {NoTask}
  /\ hour \in Nat /\ agreed \in Nat

(* The handle is that of the one timer that sleeps. *)
OneSleeper ==
  /\ \A t \in Tasks : TaskAt(t, "sleep") => t = handle
  /\ handle # NoTask => TaskAt(handle, "sleep")

(* Where a command to pause may be. *)
PauseSteps ==
  \A t \in Tasks :
    /\ points[t].kind = "pause" => points[t].pc \in {"save", "stop", "schedule"}
    /\ points[t].pc \in {"save", "schedule"} => points[t].kind = "pause"

(* A command to pause beside which nothing was at work is alone; what it has *)
(* saved is what the settings say, and what it has stopped stays so.        *)
PausesAlone ==
  \A t \in Tasks :
    points[t].kind = "pause" /\ ~contended =>
      /\ agreed = 0 /\ \A o \in Tasks \ {t} : ~Busy(o)
      /\ points[t].pc # "save" => settings = points[t].copy /\ settings.paused
      /\ points[t].pc = "schedule" => ~capture /\ ~active

(* A task that leaves the pause alone. *)
Harmless(task) ==
  \/ task.pc = "none"
  \/ task.pc = "sleep" /\ task.copy.until = agreed
  \/ task.kind \in {"settings", "wipe", "download"} /\ task.pc = "done"
  \/ task.kind = "download" /\ task.pc = "download" /\ task.copy = settings
  \/ task.kind = "policy" /\ task.pc \in {"assigned", "stop", "done"}
  \/ task.kind = "boot" /\ task.pc \in {"boot", "rest"} /\ task.copy = settings

PauseIsKept ==
  InForce /\ ~contended =>
    /\ ~capture /\ ~active /\ settings = PausedUntil(agreed)
    /\ \A t \in Tasks : Harmless(points[t])

SwitchInv == SwitchTyped /\ OneSleeper /\ PauseSteps /\ PausesAlone /\ PauseIsKept

-----------------------------------------------------------------------------
LEMMA SwitchConstants ==
  /\ Calls \cap Timers = {} /\ NoTask \notin Tasks
  /\ MaxHour \in Nat /\ MaxBegun \in Nat /\ MaxFailures \in Nat
  /\ Asked \subseteq CommandKinds \ {"boot"}
<1>1. {MaxHour, MaxBegun, MaxFailures} \subseteq Nat
  BY SwitchAssumption
<1> QED
  BY <1>1, SwitchAssumption DEF Tasks

LEMMA VacantTask ==
  Vacant \in SwitchTasks /\ Vacant.pc = "none" /\ Vacant.kind = "none"
  BY DEF Vacant, SwitchTasks, SwitchPoints, Copies, Recording

LEMMA SwitchInitHolds == SwitchInit => SwitchInv
<1> SUFFICES ASSUME SwitchInit PROVE SwitchInv
  OBVIOUS
<1>1. SwitchTyped
  BY VacantTask DEF SwitchInit, SwitchTyped, Copies, Recording
<1>2. OneSleeper /\ PauseSteps /\ PausesAlone
  BY VacantTask DEF SwitchInit, OneSleeper, PauseSteps, PausesAlone, TaskAt
<1>3. PauseIsKept
  BY DEF SwitchInit, PauseIsKept, InForce
<1> QED
  BY <1>1, <1>2, <1>3 DEF SwitchInv

-----------------------------------------------------------------------------
(* A task at work goes on, and nothing else about tasks, clock and promise   *)
(* changes.                                                                 *)
MovesTo(t, task) ==
  /\ points' = [points EXCEPT ![t] = task]
  /\ UNCHANGED <<handle, hour, agreed, contended>>

LEMMA OneTaskGoesOn ==
  ASSUME SwitchInv, NEW t \in Tasks, Busy(t), NEW task \in SwitchTasks, MovesTo(t, task),
         settings' \in Copies, task.pc # "sleep",
         task.kind = "pause" => task.pc \in {"save", "stop", "schedule"},
         task.pc \in {"save", "schedule"} => task.kind = "pause",
         task.kind = "pause" /\ ~contended =>
           /\ points[t].kind = "pause" /\ task.pc # "save"
           /\ settings' = task.copy /\ settings'.paused
           /\ task.pc = "schedule" => ~capture' /\ ~active',
         InForce /\ ~contended =>
           /\ ~capture' /\ ~active' /\ settings' = settings /\ Harmless(task)
  PROVE  SwitchInv'
<1>0. SwitchTyped /\ OneSleeper /\ PauseSteps /\ PausesAlone /\ PauseIsKept
  BY DEF SwitchInv
<1>1. points'[t] = task /\ \A o \in Tasks \ {t} : points'[o] = points[o]
  BY <1>0 DEF MovesTo, SwitchTyped
<1>2. SwitchTyped'
  BY <1>0 DEF MovesTo, SwitchTyped
<1>3. OneSleeper'
  <2>1. points[t].pc # "sleep"
    BY DEF Busy
  <2>2. handle' # NoTask => handle \in Tasks /\ handle # t
    BY <1>0, <2>1 DEF OneSleeper, TaskAt, MovesTo, SwitchTyped, Tasks
  <2> QED
    BY <1>0, <1>1, <2>1, <2>2 DEF OneSleeper, TaskAt, MovesTo
<1>4. PauseSteps'
  BY <1>0, <1>1 DEF PauseSteps
<1>5. PausesAlone'
  <2> SUFFICES ASSUME NEW u \in Tasks, points'[u].kind = "pause", ~contended
               PROVE  /\ agreed' = 0 /\ \A o \in Tasks \ {u} : ~Busy(o)'
                      /\ points'[u].pc # "save" => settings' = points'[u].copy /\ settings'.paused
                      /\ points'[u].pc = "schedule" => ~capture' /\ ~active'
    BY DEF PausesAlone, MovesTo
  <2>1. u = t
    BY <1>0, <1>1 DEF PausesAlone
  <2> QED
    BY <1>0, <1>1, <2>1 DEF PausesAlone, Busy, MovesTo
<1>6. PauseIsKept'
  <2> SUFFICES ASSUME InForce, ~contended
               PROVE  /\ ~capture' /\ ~active' /\ settings' = PausedUntil(agreed)
                      /\ \A o \in Tasks : Harmless(points[o])'
    BY DEF PauseIsKept, MovesTo, InForce, PausedUntil
  <2>1. settings' = settings /\ agreed' = agreed /\ Harmless(task)
    BY DEF MovesTo
  <2>2. \A o \in Tasks : Harmless(points[o])
    BY <1>0 DEF PauseIsKept
  <2>3. \A o \in Tasks : Harmless(points[o])'
    BY <1>1, <2>1, <2>2 DEF Harmless
  <2> QED
    BY <1>0, <2>1, <2>3 DEF PauseIsKept
<1> QED
  BY <1>2, <1>3, <1>4, <1>5, <1>6 DEF SwitchInv

(* While a promise holds no task is where it could start a session or save   *)
(* settings; elsewhere anything may happen to both.                         *)
Loud == {"runtime", "start", "spawn", "lock", "build", "publish", "clear", "undo",
         "retry", "rollback", "cancel", "check"}

LEMMA LoudTaskGoesOn ==
  ASSUME SwitchInv, NEW t \in Tasks, points[t].pc \in Loud,
         NEW task \in SwitchTasks, MovesTo(t, task), settings' \in Copies,
         task.pc \notin {"sleep", "save", "schedule"},
         task.kind \in {points[t].kind, "policy", "none"}
  PROVE  SwitchInv'
<1>1. Busy(t) /\ points[t].kind # "pause"
  BY DEF SwitchInv, PauseSteps, Busy, Loud
<1>2. ~Harmless(points[t])
  BY DEF Harmless, Loud
<1>3. ~(InForce /\ ~contended)
  BY <1>2 DEF SwitchInv, PauseIsKept
<1> QED
  BY <1>1, <1>3, OneTaskGoesOn

LEMMA LoudTaskGoes ==
  ASSUME SwitchInv, NEW t \in Tasks, points[t].pc \in Loud, settings' \in Copies,
         UNCHANGED <<handle, hour, agreed, contended>>,
         NEW point \in SwitchPoints \ {"sleep", "save", "schedule"}, points' = Go(t, point)
  PROVE  SwitchInv'
<1> DEFINE task == [points[t] EXCEPT !.pc = point]
<1>1. points[t] \in SwitchTasks
  BY DEF SwitchInv, SwitchTyped
<1>2. task \in SwitchTasks /\ task.pc = point /\ task.kind = points[t].kind
  BY <1>1 DEF SwitchTasks
<1>3. points' = [points EXCEPT ![t] = task]
  BY DEF Go
<1> HIDE DEF task
<1> QED
  BY <1>2, <1>3, LoudTaskGoesOn DEF MovesTo

LEMMA LoudTaskEnds ==
  ASSUME SwitchInv, NEW t \in Tasks, points[t].pc \in Loud, settings' \in Copies,
         UNCHANGED <<handle, hour, agreed, contended>>, points' = Ended(t)
  PROVE  SwitchInv'
  BY VacantTask, LoudTaskGoesOn DEF MovesTo, Ended

LEMMA LoudStartEnds ==
  ASSUME SwitchInv, NEW t \in Tasks, points[t].pc \in Loud, settings' \in Copies,
         UNCHANGED <<handle, hour, agreed, contended>>,
         points' = Started(t) \/ points' = NotStarted(t)
  PROVE  SwitchInv'
<1>1. \/ points' = Ended(t)
      \/ points' = Go(t, "clear") \/ points' = Go(t, "retry") \/ points' = Go(t, "rollback")
  BY DEF Started, NotStarted
<1> QED
  BY <1>1, LoudTaskEnds, LoudTaskGoes DEF SwitchPoints

-----------------------------------------------------------------------------
(* The starts. *)
LEMMA StartsHold ==
  ASSUME SwitchInv, NEW t \in Tasks,
         \/ ChooseStart(t) \/ StartOnce(t) \/ TakeLock(t) \/ Build(t) \/ CaptureNotBuilt(t)
         \/ Spawn(t) \/ Publish(t)
  PROVE  SwitchInv'
<1>0. settings \in Copies /\ points[t] \in SwitchTasks
  BY DEF SwitchInv, SwitchTyped
<1>1. CASE ChooseStart(t)
  <2>1. /\ points[t].pc = "runtime" /\ settings' = settings
        /\ UNCHANGED <<handle, hour, agreed, contended>>
        /\ points' = Go(t, "start") \/ points' = Go(t, "spawn")
    BY <1>1 DEF ChooseStart, TaskAt, history
  <2> QED
    BY <1>0, <2>1, LoudTaskGoes DEF Loud, SwitchPoints
<1>2. CASE StartOnce(t)
  <2> DEFINE task == [points[t] EXCEPT !.pc = "lock", !.gate = "starting"]
  <2>1. /\ points[t].pc = "start" /\ settings' = settings
        /\ UNCHANGED <<handle, hour, agreed, contended>>
        /\ points' = Started(t) \/ points' = [points EXCEPT ![t] = task]
    BY <1>2 DEF StartOnce, TaskAt, history
  <2>2. task \in SwitchTasks /\ task.pc = "lock" /\ task.kind = points[t].kind
    BY <1>0 DEF SwitchTasks, SwitchPoints
  <2> HIDE DEF task
  <2>3. CASE points' = Started(t)
    BY <1>0, <2>1, <2>3, LoudStartEnds DEF Loud
  <2>4. CASE points' = [points EXCEPT ![t] = task]
    BY <1>0, <2>1, <2>2, <2>4, LoudTaskGoesOn DEF Loud, MovesTo
  <2> QED
    BY <2>1, <2>3, <2>4
<1>3. CASE TakeLock(t) \/ Build(t) \/ CaptureNotBuilt(t)
  <2>1. /\ points[t].pc \in {"lock", "build"} /\ settings' = settings
        /\ UNCHANGED <<handle, hour, agreed, contended>>
        /\ points' = Started(t) \/ points' = NotStarted(t) \/ points' = Go(t, "build")
    BY <1>3 DEF TakeLock, Build, CaptureNotBuilt, TaskAt, history
  <2>2. CASE points' = Go(t, "build")
    BY <1>0, <2>1, <2>2, LoudTaskGoes DEF Loud, SwitchPoints
  <2>3. CASE points' = Started(t) \/ points' = NotStarted(t)
    BY <1>0, <2>1, <2>3, LoudStartEnds DEF Loud
  <2> QED
    BY <2>1, <2>2, <2>3
<1>4. CASE Spawn(t)
  <2> DEFINE locking == [points[t] EXCEPT !.pc = "lock", !.gate = "booting"]
             boots == [points[t] EXCEPT !.pc = "boot", !.was = FALSE]
  <2>1. /\ points[t].pc = "spawn" /\ settings' = settings
        /\ UNCHANGED <<handle, hour, agreed, contended>>
        /\ \/ points' = Started(t)
           \/ points' = [points EXCEPT ![t] = locking]
           \/ points' = [points EXCEPT ![t] = boots]
    BY <1>4 DEF Spawn, TaskAt, history
  <2>2. locking \in SwitchTasks /\ locking.pc = "lock" /\ locking.kind = points[t].kind
    BY <1>0 DEF SwitchTasks, SwitchPoints
  <2>3. boots \in SwitchTasks /\ boots.pc = "boot" /\ boots.kind = points[t].kind
    BY <1>0 DEF SwitchTasks, SwitchPoints
  <2> HIDE DEF locking, boots
  <2>4. CASE points' = Started(t)
    BY <1>0, <2>1, <2>4, LoudStartEnds DEF Loud
  <2>5. CASE points' = [points EXCEPT ![t] = locking]
    BY <1>0, <2>1, <2>2, <2>5, LoudTaskGoesOn DEF Loud, MovesTo
  <2>6. CASE points' = [points EXCEPT ![t] = boots]
    BY <1>0, <2>1, <2>3, <2>6, LoudTaskGoesOn DEF Loud, MovesTo
  <2> QED
    BY <2>1, <2>4, <2>5, <2>6
<1>5. CASE Publish(t)
  <2> DEFINE task == [points[t] EXCEPT !.kind = "policy", !.pc = "assigned"]
  <2>1. /\ points[t].pc = "publish" /\ settings' = settings
        /\ UNCHANGED <<handle, hour, agreed, contended>>
        /\ points' = Started(t) \/ points' = [points EXCEPT ![t] = task]
    BY <1>5 DEF Publish, TaskAt, history
  <2>2. task \in SwitchTasks /\ task.pc = "assigned" /\ task.kind = "policy"
    BY <1>0 DEF SwitchTasks, SwitchPoints, CommandKinds
  <2> HIDE DEF task
  <2>3. CASE points' = Started(t)
    BY <1>0, <2>1, <2>3, LoudStartEnds DEF Loud
  <2>4. CASE points' = [points EXCEPT ![t] = task]
    BY <1>0, <2>1, <2>2, <2>4, LoudTaskGoesOn DEF Loud, MovesTo
  <2> QED
    BY <2>1, <2>3, <2>4
<1> QED
  BY <1>1, <1>2, <1>3, <1>4, <1>5

(* Commands that only go on where no promise holds. *)
LEMMA LoudCommandsHold ==
  ASSUME SwitchInv, NEW t \in Tasks,
         ClearPause(t) \/ ClearFails(t) \/ Undo(t) \/ Rollback(t) \/ CheckRuntime(t)
  PROVE  SwitchInv'
<1>0. settings \in Copies /\ points[t] \in SwitchTasks
  BY DEF SwitchInv, SwitchTyped
<1>1. CASE ClearPause(t)
  <2>1. /\ points[t].pc = "clear" /\ settings' \in Copies
        /\ UNCHANGED <<handle, hour, agreed, contended>> /\ points' = Ended(t)
    BY <1>1 DEF ClearPause, TaskAt, history, Recording, Copies
  <2> QED
    BY <2>1, LoudTaskEnds DEF Loud
<1>2. CASE ClearFails(t) \/ CheckRuntime(t)
  <2>1. /\ points[t].pc \in {"clear", "check"} /\ settings' = settings
        /\ UNCHANGED <<handle, hour, agreed, contended>>
        /\ points' = Go(t, "undo") \/ points' = Go(t, "start") \/ points' = Go(t, "done")
    BY <1>2 DEF ClearFails, CheckRuntime, TaskAt, history
  <2> QED
    BY <1>0, <2>1, LoudTaskGoes DEF Loud, SwitchPoints
<1>3. CASE Undo(t)
  <2>1. /\ points[t].pc = "undo" /\ settings' = settings
        /\ UNCHANGED <<handle, hour, agreed, contended>> /\ points' = NotStarted(t)
    BY <1>3 DEF Undo, StopsFor, TaskAt, history
  <2> QED
    BY <1>0, <2>1, LoudStartEnds DEF Loud
<1>4. CASE Rollback(t)
  <2> DEFINE task == [points[t] EXCEPT !.pc = "start", !.was = FALSE]
  <2>1. /\ points[t].pc = "rollback" /\ settings' = points[t].copy
        /\ UNCHANGED <<handle, hour, agreed, contended>>
        /\ points' = [points EXCEPT ![t] = task]
    BY <1>4 DEF Rollback, TaskAt, history
  <2>2. task \in SwitchTasks /\ task.pc = "start" /\ task.kind = points[t].kind
    BY <1>0 DEF SwitchTasks, SwitchPoints
  <2>3. points[t].copy \in Copies
    BY <1>0 DEF SwitchTasks
  <2> HIDE DEF task
  <2> QED
    BY <2>1, <2>2, <2>3, LoudTaskGoesOn DEF Loud, MovesTo
<1> QED
  BY <1>1, <1>2, <1>3, <1>4

(* What a boot, a change of the policy and a download do leaves a pause      *)
(* alone.                                                                   *)
LEMMA HarmlessGoes ==
  ASSUME SwitchInv, NEW t \in Tasks, Busy(t), points[t].kind # "pause",
         settings' \in Copies, UNCHANGED <<handle, hour, agreed, contended>>,
         NEW point \in SwitchPoints \ {"sleep", "save", "schedule"}, points' = Go(t, point),
         InForce /\ ~contended =>
           /\ ~capture' /\ ~active' /\ settings' = settings
           /\ \/ points[t].kind = "policy" /\ point \in {"stop", "done"}
              \/ points[t].kind = "boot" /\ point = "rest" /\ points[t].copy = settings
  PROVE  SwitchInv'
<1> DEFINE task == [points[t] EXCEPT !.pc = point]
<1>1. points[t] \in SwitchTasks
  BY DEF SwitchInv, SwitchTyped
<1>2. task \in SwitchTasks /\ task.pc = point /\ task.kind = points[t].kind /\ task.copy = points[t].copy
  BY <1>1 DEF SwitchTasks
<1>3. points' = [points EXCEPT ![t] = task]
  BY DEF Go
<1> HIDE DEF task
<1>4. InForce /\ ~contended => Harmless(task)
  BY <1>2 DEF Harmless
<1> QED
  BY <1>2, <1>3, <1>4, OneTaskGoesOn DEF MovesTo

LEMMA HarmlessEnds ==
  ASSUME SwitchInv, NEW t \in Tasks, Busy(t), settings' \in Copies, points' = Ended(t),
         UNCHANGED <<handle, hour, agreed, contended>>,
         InForce /\ ~contended => ~capture' /\ ~active' /\ settings' = settings
  PROVE  SwitchInv'
<1>1. Harmless(Vacant)
  BY VacantTask DEF Harmless
<1> QED
  BY <1>1, VacantTask, OneTaskGoesOn DEF MovesTo, Ended

(* What the promise says of a task at work. *)
LEMMA InForceFacts ==
  ASSUME SwitchInv, InForce, ~contended
  PROVE  /\ ~capture /\ ~active /\ settings = PausedUntil(agreed) /\ settings.paused
         /\ \A t \in Tasks : Harmless(points[t]) /\ points[t].kind # "pause"
<1>1. agreed # 0
  BY DEF InForce, SwitchInv, SwitchTyped
<1>2. \A t \in Tasks : points[t].kind # "pause"
  BY <1>1 DEF SwitchInv, PausesAlone
<1> QED
  BY <1>2 DEF SwitchInv, PauseIsKept, PausedUntil

LEMMA BootsHold ==
  ASSUME SwitchInv, NEW t \in Tasks, Boot(t) \/ BootFails(t)
  PROVE  SwitchInv'
<1>0. settings \in Copies /\ points[t].pc = "boot" /\ Busy(t) /\ points[t].kind # "pause"
  BY DEF SwitchInv, SwitchTyped, PauseSteps, Boot, BootFails, TaskAt, Busy
<1>1. UNCHANGED <<settings, capture, active, handle, hour, agreed, contended>>
  BY DEF Boot, BootFails, history
<1>2. InForce /\ ~contended =>
        /\ ~capture' /\ ~active' /\ settings' = settings /\ settings.paused
        /\ points[t].kind = "boot" /\ points[t].copy = settings
  BY <1>0, <1>1, InForceFacts DEF Harmless
<1>3. CASE Boot(t)
  <2>1. \/ points' = Go(t, "rest")
        \/ points' = Go(t, "publish") /\ ~(InForce /\ ~contended)
    BY <1>2, <1>3 DEF Boot
  <2> QED
    BY <1>0, <1>1, <1>2, <2>1, HarmlessGoes DEF SwitchPoints
<1>4. CASE BootFails(t)
  <2>1. /\ points' = Ended(t) \/ points' = Go(t, "retry") \/ points' = Go(t, "rollback")
        /\ InForce /\ ~contended => points' = Ended(t)
    BY <1>2, <1>4 DEF BootFails, NotStarted
  <2>2. CASE points' = Ended(t)
    BY <1>0, <1>1, <1>2, <2>2, HarmlessEnds
  <2>3. CASE ~(InForce /\ ~contended)
    BY <1>0, <1>1, <2>1, <2>2, <2>3, HarmlessGoes DEF SwitchPoints
  <2> QED
    BY <2>1, <2>2, <2>3
<1> QED
  BY <1>3, <1>4

LEMMA PolicyHolds ==
  ASSUME SwitchInv, NEW t \in Tasks, Reconcile(t) \/ Done(t)
  PROVE  SwitchInv'
<1>0. settings \in Copies /\ points[t].pc \in {"assigned", "done"} /\ Busy(t) /\ points[t].kind # "pause"
  BY DEF SwitchInv, SwitchTyped, PauseSteps, Reconcile, Done, TaskAt, Busy
<1>1. UNCHANGED <<settings, capture, active, handle, hour, agreed, contended>>
  BY DEF Reconcile, Done, history
<1>2. CASE Done(t)
  <2>1. points' = Ended(t)
    BY <1>2 DEF Done
  <2> QED
    BY <1>0, <1>1, <2>1, InForceFacts, HarmlessEnds
<1>3. CASE Reconcile(t)
  <2>1. points[t].pc = "assigned"
    BY <1>3 DEF Reconcile, TaskAt
  <2>2. InForce /\ ~contended =>
          /\ ~capture' /\ ~active' /\ settings' = settings /\ settings.paused
          /\ points[t].kind = "policy"
    BY <1>1, <2>1, InForceFacts DEF Harmless
  <2>3. PICK point \in {"stop", "done", "check"} :
          points' = Go(t, point) /\ (settings.paused => point # "check")
    BY <1>3 DEF Reconcile
  <2> QED
    BY <1>0, <1>1, <2>2, <2>3, HarmlessGoes DEF SwitchPoints
<1> QED
  BY <1>2, <1>3

LEMMA StopHolds ==
  ASSUME SwitchInv, NEW t \in Tasks, Stop(t)
  PROVE  SwitchInv'
<1>0. /\ settings \in Copies /\ points[t] \in SwitchTasks
      /\ points[t].pc = "stop" /\ Busy(t)
  BY DEF SwitchInv, SwitchTyped, Stop, TaskAt, Busy
<1>1. /\ UNCHANGED <<settings, handle, hour, agreed, contended>> /\ ~capture' /\ ~active'
      /\ points' = CASE points[t].kind = "pause"  -> Go(t, "schedule")
                     [] points[t].kind = "policy" -> Ended(t)
                     [] OTHER -> Go(t, "start")
  BY DEF Stop, StopsFor, history
<1>2. CASE points[t].kind = "pause"
  <2> DEFINE task == [points[t] EXCEPT !.pc = "schedule"]
  <2>1. points' = [points EXCEPT ![t] = task]
    BY <1>1, <1>2 DEF Go
  <2>2. task \in SwitchTasks /\ task.pc = "schedule" /\ task.kind = "pause" /\ task.copy = points[t].copy
    BY <1>0, <1>2 DEF SwitchTasks, SwitchPoints
  <2>3. ~contended => settings = points[t].copy /\ settings.paused
    BY <1>0, <1>2 DEF SwitchInv, PausesAlone
  <2>4. ~(InForce /\ ~contended)
    BY <1>2, InForceFacts
  <2> HIDE DEF task
  <2> QED
    BY <1>0, <1>1, <1>2, <2>1, <2>2, <2>3, <2>4, OneTaskGoesOn DEF MovesTo
<1>3. CASE points[t].kind = "policy"
  <2>1. points' = Ended(t)
    BY <1>1, <1>3
  <2> QED
    BY <1>0, <1>1, <2>1, HarmlessEnds
<1>4. CASE points[t].kind \notin {"pause", "policy"}
  <2>1. points' = Go(t, "start")
    BY <1>1, <1>4
  <2>2. ~(InForce /\ ~contended)
    BY <1>0, <1>4, InForceFacts DEF Harmless
  <2> QED
    BY <1>0, <1>1, <1>4, <2>1, <2>2, HarmlessGoes DEF SwitchPoints
<1> QED
  BY <1>2, <1>3, <1>4

LEMMA SavesHold ==
  ASSUME SwitchInv, active \in BOOLEAN, NEW t \in Tasks,
         SavePause(t) \/ PauseFails(t) \/ SaveOldCopy(t)
  PROVE  SwitchInv'
<1>0. /\ settings \in Copies /\ points[t] \in SwitchTasks /\ hour \in Nat /\ Busy(t)
      /\ points[t].pc \in {"save", "download"}
      /\ points[t].pc = "save" <=> points[t].kind = "pause"
  BY DEF SwitchInv, SwitchTyped, PauseSteps, SavePause, PauseFails, SaveOldCopy, TaskAt, Busy
<1>1. UNCHANGED <<capture, active, handle, hour, agreed, contended>>
  BY DEF SavePause, PauseFails, SaveOldCopy, history
<1>2. CASE SavePause(t)
  <2>1. PICK time \in hour + 1 .. MaxHour :
          /\ settings' = PausedUntil(time)
          /\ points' = [points EXCEPT ![t].pc = "stop", ![t].copy = PausedUntil(time)]
    BY <1>2 DEF SavePause
  <2> DEFINE task == [points[t] EXCEPT !.pc = "stop", !.copy = PausedUntil(time)]
  <2>2. PausedUntil(time) \in Copies /\ PausedUntil(time).paused
    BY <1>0, <2>1 DEF PausedUntil, Copies
  <2>3. points' = [points EXCEPT ![t] = task]
    BY <2>1
  <2>4. points[t].kind = "pause" /\ ~(InForce /\ ~contended)
    BY <1>0, <1>2, InForceFacts DEF SavePause, TaskAt
  <2>5. task \in SwitchTasks /\ task.pc = "stop" /\ task.kind = "pause" /\ task.copy = PausedUntil(time)
    BY <1>0, <2>2, <2>4 DEF SwitchTasks, SwitchPoints
  <2> HIDE DEF task
  <2> QED
    BY <1>0, <1>1, <2>1, <2>2, <2>3, <2>4, <2>5, OneTaskGoesOn DEF MovesTo
<1>3. CASE PauseFails(t)
  <2>1. points[t].kind = "pause" /\ points' = Ended(t) /\ settings' = settings
    BY <1>0, <1>3 DEF PauseFails, TaskAt
  <2> QED
    BY <1>0, <1>1, <2>1, InForceFacts, HarmlessEnds
<1>4. CASE SaveOldCopy(t)
  <2> DEFINE task == [points[t] EXCEPT !.was = active, !.pc = IF active THEN "stop" ELSE "done"]
  <2>1. /\ points[t].pc = "download" /\ points[t].kind # "pause"
        /\ settings' = points[t].copy /\ settings' \in Copies
    BY <1>0, <1>4 DEF SaveOldCopy, TaskAt, SwitchTasks
  <2>2. points' = [points EXCEPT ![t] = task]
    BY <1>4 DEF SaveOldCopy
  <2>3. /\ task \in SwitchTasks
        /\ task.pc = IF active THEN "stop" ELSE "done"
        /\ task.kind = points[t].kind
    BY <1>0 DEF SwitchTasks, SwitchPoints
  <2>4. InForce /\ ~contended =>
          ~active /\ ~capture /\ points[t].kind = "download" /\ points[t].copy = settings
    BY <2>1, InForceFacts DEF Harmless
  <2> HIDE DEF task
  <2>5. InForce /\ ~contended => Harmless(task)
    BY <2>3, <2>4 DEF Harmless
  <2> QED
    BY <1>0, <1>1, <2>1, <2>2, <2>3, <2>4, <2>5, OneTaskGoesOn DEF MovesTo
<1> QED
  BY <1>2, <1>3, <1>4

-----------------------------------------------------------------------------
(* Steps that put a timer to sleep, wake it or cancel it. *)

(* Who sleeps when one timer is put to sleep, all that changes of the rest   *)
(* being task t.                                                            *)
LEMMA CancelledTasks ==
  ASSUME SwitchInv
  PROVE  /\ Cancelled \in [Tasks -> SwitchTasks]
         /\ \A o \in Tasks : Cancelled[o] = IF TaskAt(o, "sleep") THEN Vacant ELSE points[o]
<1>1. points \in [Tasks -> SwitchTasks] /\ handle \in Timers \cup {NoTask} /\ Timers \subseteq Tasks
  BY DEF SwitchInv, SwitchTyped, Tasks
<1>2. /\ \A t \in Tasks : TaskAt(t, "sleep") => t = handle
      /\ handle # NoTask => TaskAt(handle, "sleep")
  BY DEF SwitchInv, OneSleeper
<1>3. NoTask \notin Tasks
  BY SwitchConstants
<1>4. CASE handle = NoTask
  BY <1>1, <1>2, <1>3, <1>4 DEF Cancelled
<1>5. CASE handle # NoTask
  BY <1>1, <1>2, <1>3, <1>5, VacantTask DEF Cancelled
<1> QED
  BY <1>4, <1>5

(* A timer goes to sleep, the one that slept is cancelled, and task t, which *)
(* was at work, is at rest or goes on to something harmless.                *)
LEMMA TimerSet ==
  ASSUME SwitchInv, NEW t \in Tasks, Busy(t), NEW n \in Timers, NEW time \in Nat,
         NEW task \in SwitchTasks, task.pc = "none" \/ (task.kind = "policy" /\ task.pc = "assigned"),
         task.pc = "none" => task.kind = "none",
         \A o \in Tasks : points'[o] = IF o = n THEN Asleep(time)
                                       ELSE IF o = t THEN task
                                       ELSE IF TaskAt(o, "sleep") THEN Vacant ELSE points[o],
         points' \in [Tasks -> SwitchTasks],
         handle' = n, hour' = hour, agreed' \in Nat, contended' = contended, settings' = settings,
         \A o \in Tasks \ {t} : points[o].kind = "pause" => contended,
         agreed' > hour /\ ~contended =>
           /\ ~capture' /\ ~active' /\ settings = PausedUntil(agreed') /\ time = agreed'
           /\ \A o \in Tasks \ {t} :
                ~Busy(o) \/ (agreed' = agreed /\ Harmless(points[o]))
  PROVE  SwitchInv'
<1>0. /\ SwitchTyped /\ PauseSteps /\ Timers \subseteq Tasks /\ NoTask \notin Tasks
      /\ Asleep(time).pc = "sleep" /\ Asleep(time).kind = "timer" /\ Asleep(time).copy.until = time
  BY SwitchConstants DEF SwitchInv, Tasks, Asleep, Vacant, PausedUntil
<1>1. SwitchTyped'
  BY <1>0 DEF SwitchTyped
<1>2. OneSleeper'
  BY <1>0, VacantTask DEF OneSleeper, TaskAt
<1>3. PauseSteps'
  BY <1>0, VacantTask DEF PauseSteps
<1>4. PausesAlone'
  <2>1. \A u \in Tasks : points'[u].kind = "pause" => contended
    BY <1>0, VacantTask
  <2> QED
    BY <2>1 DEF PausesAlone
<1>5. PauseIsKept'
  <2> SUFFICES ASSUME agreed' > hour, ~contended
               PROVE  /\ ~capture' /\ ~active' /\ settings = PausedUntil(agreed')
                      /\ \A o \in Tasks : Harmless(points[o])'
    BY DEF PauseIsKept, InForce, PausedUntil
  <2>1. ASSUME NEW o \in Tasks PROVE Harmless(points[o])'
    <3>1. CASE o = n
      BY <1>0, <3>1 DEF Harmless
    <3>2. CASE o # n /\ o = t
      BY <1>0, <3>2 DEF Harmless
    <3>3. CASE o # n /\ o # t /\ ~Busy(o)
      <4>1. points'[o].pc = "none"
        BY <3>3, VacantTask DEF Busy, TaskAt
      <4> QED
        BY <4>1 DEF Harmless
    <3>4. CASE o # n /\ o # t /\ Busy(o)
      <4>1. points'[o] = points[o] /\ agreed' = agreed /\ Harmless(points[o])
        BY <3>4 DEF Busy, TaskAt
      <4> QED
        BY <4>1 DEF Harmless
    <3> QED
      BY <3>1, <3>2, <3>3, <3>4
  <2> QED
    BY <2>1
<1> QED
  BY <1>1, <1>2, <1>3, <1>4, <1>5 DEF SwitchInv

LEMMA AsleepTask == ASSUME NEW time \in Nat PROVE Asleep(time) \in SwitchTasks
  BY VacantTask DEF Asleep, PausedUntil, Copies, SwitchTasks, SwitchPoints

(* Schedule ends the task that calls it. *)
LEMMA ScheduledTasks ==
  ASSUME SwitchInv, NEW t \in Tasks, Busy(t), NEW time \in Nat, Schedule(t, time)
  PROVE  \E n \in Timers :
           /\ handle' = n /\ points' \in [Tasks -> SwitchTasks]
           /\ \A o \in Tasks : points'[o] = IF o = n THEN Asleep(time)
                                            ELSE IF o = t THEN Vacant
                                            ELSE IF TaskAt(o, "sleep") THEN Vacant ELSE points[o]
<1>1. PICK n \in Timers :
        /\ points' = [[Cancelled EXCEPT ![t] = Vacant] EXCEPT ![n] = Asleep(time)]
        /\ handle' = n
  BY DEF Schedule
<1>2. PICK old \in [Tasks -> SwitchTasks] :
        /\ old = Cancelled
        /\ \A o \in Tasks : old[o] = IF TaskAt(o, "sleep") THEN Vacant ELSE points[o]
  BY CancelledTasks
<1>3. points' = [[old EXCEPT ![t] = Vacant] EXCEPT ![n] = Asleep(time)]
  BY <1>1, <1>2
<1>4. points' \in [Tasks -> SwitchTasks]
  BY <1>2, <1>3, VacantTask, AsleepTask
<1>5. \A o \in Tasks : points'[o] = IF o = n THEN Asleep(time)
                                    ELSE IF o = t THEN Vacant
                                    ELSE IF TaskAt(o, "sleep") THEN Vacant ELSE points[o]
  BY <1>2, <1>3
<1> QED
  BY <1>1, <1>4, <1>5

LEMMA SchedulesHold ==
  ASSUME SwitchInv, NEW t \in Tasks, SchedulePause(t) \/ RetryPause(t)
  PROVE  SwitchInv'
<1>0. /\ SwitchTyped /\ Busy(t) /\ points[t] \in SwitchTasks
      /\ hour \in Nat /\ agreed \in Nat /\ MaxHour \in Nat
  BY SwitchConstants DEF SwitchInv, SwitchTyped, SchedulePause, RetryPause, TaskAt, Busy
<1>1. UNCHANGED <<settings, capture, active, hour, contended>>
  BY DEF SchedulePause, RetryPause, history
<1>2. \A o \in Tasks \ {t} : points[o].kind = "pause" => contended
  BY <1>0 DEF SwitchInv, PausesAlone
<1>3. CASE SchedulePause(t)
  <2>1. PICK time \in Nat : time = points[t].copy.until /\ Schedule(t, time) /\ agreed' = time
    BY <1>0, <1>3 DEF SchedulePause, SwitchTasks, Copies
  <2>2. ~contended =>
          /\ ~capture /\ ~active /\ \A o \in Tasks \ {t} : ~Busy(o)
          /\ settings = points[t].copy /\ settings.paused
    BY <1>0, <1>3 DEF SwitchInv, PausesAlone, PauseSteps, SchedulePause, TaskAt
  <2>3. ~contended => settings = PausedUntil(time)
    <3>1. settings \in Copies
      BY <1>0 DEF SwitchTyped
    <3> QED
      BY <2>1, <2>2, <3>1 DEF PausedUntil, Copies
  <2>4. PICK n \in Timers :
          /\ handle' = n /\ points' \in [Tasks -> SwitchTasks]
          /\ \A o \in Tasks : points'[o] = IF o = n THEN Asleep(time)
                                           ELSE IF o = t THEN Vacant
                                           ELSE IF TaskAt(o, "sleep") THEN Vacant ELSE points[o]
    BY <1>0, <2>1, ScheduledTasks
  <2> QED
    <3>1. /\ Vacant \in SwitchTasks /\ Vacant.pc = "none" /\ Vacant.kind = "none"
          /\ handle' = n /\ hour' = hour /\ agreed' \in Nat
          /\ contended' = contended /\ settings' = settings
      BY <1>1, <2>1, <2>4, VacantTask
    <3>2. agreed' > hour /\ ~contended =>
            /\ ~capture' /\ ~active' /\ settings = PausedUntil(agreed') /\ time = agreed'
            /\ \A o \in Tasks \ {t} : ~Busy(o) \/ (agreed' = agreed /\ Harmless(points[o]))
      BY <1>1, <2>1, <2>2, <2>3
    <3> QED
      BY <1>0, <1>2, <2>4, <3>1, <3>2, TimerSet
<1>4. CASE RetryPause(t)
  <2>1. PICK time \in Nat : Schedule(t, time)
    BY <1>0, <1>4 DEF RetryPause
  <2>2. agreed' = agreed /\ ~(InForce /\ ~contended)
    BY <1>4, InForceFacts DEF RetryPause, history, TaskAt, Harmless
  <2>3. PICK n \in Timers :
          /\ handle' = n /\ points' \in [Tasks -> SwitchTasks]
          /\ \A o \in Tasks : points'[o] = IF o = n THEN Asleep(time)
                                           ELSE IF o = t THEN Vacant
                                           ELSE IF TaskAt(o, "sleep") THEN Vacant ELSE points[o]
    BY <1>0, <2>1, ScheduledTasks
  <2>4. ~(agreed' > hour /\ ~contended)
    BY <2>2 DEF InForce
  <2> QED
    <3>1. /\ Vacant \in SwitchTasks /\ Vacant.pc = "none" /\ Vacant.kind = "none"
          /\ handle' = n /\ hour' = hour /\ agreed' \in Nat
          /\ contended' = contended /\ settings' = settings
      BY <1>0, <1>1, <2>2, <2>3, VacantTask
    <3> QED
      BY <1>0, <1>2, <2>3, <2>4, <3>1, TimerSet
<1> QED
  BY <1>3, <1>4

LEMMA RestHolds ==
  ASSUME SwitchInv, NEW t \in Tasks, Rest(t)
  PROVE  SwitchInv'
<1> DEFINE task == [Vacant EXCEPT !.kind = "policy", !.pc = "assigned"]
<1>0. /\ SwitchTyped /\ points[t] \in SwitchTasks /\ settings \in Copies
      /\ points[t].pc = "rest" /\ Busy(t) /\ points[t].kind # "pause"
  BY DEF SwitchInv, SwitchTyped, PauseSteps, Rest, TaskAt, Busy
<1>1. UNCHANGED <<settings, capture, hour, agreed, contended>> /\ ~active'
  BY DEF Rest, history
<1>2. InForce /\ ~contended =>
        ~capture' /\ settings = PausedUntil(agreed) /\ settings.paused /\ points[t].copy = settings
  BY <1>0, <1>1, InForceFacts DEF Harmless
<1>3. CASE points[t].copy.paused
  <2>1. PICK time \in Nat : time = points[t].copy.until
    BY <1>0 DEF SwitchTasks, Copies
  <2>2. PICK n \in Timers :
          /\ TaskAt(n, "none") \/ n = handle
          /\ points' = [Cancelled EXCEPT ![t] = task, ![n] = Asleep(time)]
          /\ handle' = n
    BY <1>3, <2>1 DEF Rest
  <2>3. task \in SwitchTasks /\ task.kind = "policy" /\ task.pc = "assigned"
    BY VacantTask DEF SwitchTasks, SwitchPoints, CommandKinds
  <2> HIDE DEF task
  <2>4. PICK old \in [Tasks -> SwitchTasks] :
          /\ old = Cancelled
          /\ \A o \in Tasks : old[o] = IF TaskAt(o, "sleep") THEN Vacant ELSE points[o]
    BY CancelledTasks
  <2>5. points' = [old EXCEPT ![t] = task, ![n] = Asleep(time)]
    BY <2>2, <2>4
  <2>6. points' \in [Tasks -> SwitchTasks]
    BY <2>3, <2>4, <2>5, AsleepTask
  <2>7. \A o \in Tasks : points'[o] = IF o = n THEN Asleep(time)
                                      ELSE IF o = t THEN task
                                      ELSE IF TaskAt(o, "sleep") THEN Vacant ELSE points[o]
    BY <2>4, <2>5
  <2>8. \A o \in Tasks \ {t} : points[o].kind = "pause" => contended
    BY <1>0 DEF SwitchInv, PausesAlone
  <2>9. agreed' > hour /\ ~contended =>
          /\ ~capture' /\ ~active' /\ settings = PausedUntil(agreed') /\ time = agreed'
          /\ \A o \in Tasks \ {t} : ~Busy(o) \/ (agreed' = agreed /\ Harmless(points[o]))
    <3>1. agreed' = agreed /\ (InForce /\ ~contended => \A o \in Tasks : Harmless(points[o]))
      BY <1>1, InForceFacts
    <3>2. InForce /\ ~contended => time = agreed
      BY <1>2, <2>1 DEF PausedUntil
    <3> QED
      BY <1>1, <1>2, <3>1, <3>2 DEF InForce
  <2>10. /\ agreed' \in Nat /\ contended' = contended /\ settings' = settings /\ hour' = hour
         /\ handle' = n
    BY <1>0, <1>1, <2>2 DEF SwitchTyped
  <2>11. (task.pc = "none" \/ (task.kind = "policy" /\ task.pc = "assigned"))
         /\ (task.pc = "none" => task.kind = "none")
    BY <2>3
  <2> QED
    BY <1>0, <2>3, <2>6, <2>7, <2>8, <2>9, <2>10, <2>11, TimerSet
<1>4. CASE ~points[t].copy.paused
  <2> DEFINE next == [points[t] EXCEPT !.kind = "policy", !.pc = "assigned"]
  <2>1. points' = [points EXCEPT ![t] = next] /\ handle' = handle
    BY <1>4 DEF Rest
  <2>2. next \in SwitchTasks /\ next.kind = "policy" /\ next.pc = "assigned"
    BY <1>0 DEF SwitchTasks, SwitchPoints, CommandKinds
  <2>3. ~(InForce /\ ~contended)
    BY <1>2, <1>4
  <2> HIDE DEF next
  <2> QED
    BY <1>0, <1>1, <2>1, <2>2, <2>3, OneTaskGoesOn DEF MovesTo
<1> QED
  BY <1>3, <1>4

(* The sleeping timer is cancelled, or wakes; task t goes on.  No promise    *)
(* holds then, or a command to pause is disturbed.                          *)
LEMMA TimerGone ==
  ASSUME SwitchInv, NEW t \in Tasks, NEW task \in SwitchTasks, task.pc = "runtime",
         task.kind # "pause", points' \in [Tasks -> SwitchTasks],
         \A o \in Tasks : points'[o] = IF o = t THEN task
                                       ELSE IF TaskAt(o, "sleep") THEN Vacant ELSE points[o],
         handle' = NoTask, hour' = hour, agreed' = agreed, settings' = settings,
         ~contended' => ~contended /\ ~InForce /\ \A o \in Tasks \ {t} : points[o].kind # "pause"
  PROVE  SwitchInv'
<1>0. SwitchTyped /\ PauseSteps
  BY DEF SwitchInv
<1>1. SwitchTyped'
  BY <1>0 DEF SwitchTyped
<1>2. OneSleeper'
  BY VacantTask DEF OneSleeper, TaskAt
<1>3. PauseSteps'
  BY <1>0, VacantTask DEF PauseSteps
<1>4. PausesAlone'
  BY VacantTask DEF PausesAlone
<1>5. PauseIsKept'
  BY DEF PauseIsKept, InForce
<1> QED
  BY <1>1, <1>2, <1>3, <1>4, <1>5 DEF SwitchInv

LEMMA TimersGoHold ==
  ASSUME SwitchInv, NEW t \in Tasks, CancelTimer(t) \/ Wake(t)
  PROVE  SwitchInv'
<1> DEFINE task == [points[t] EXCEPT !.pc = "runtime"]
<1>0. SwitchTyped /\ PauseSteps /\ OneSleeper /\ points[t] \in SwitchTasks /\ hour \in Nat /\ agreed \in Nat
  BY DEF SwitchInv, SwitchTyped
<1>1. /\ UNCHANGED <<settings, hour, agreed>> /\ handle' = NoTask
      /\ points[t].pc \in {"cancel", "sleep"} /\ points[t].kind # "pause"
  BY <1>0 DEF CancelTimer, Wake, history, TaskAt, PauseSteps
<1>2. task \in SwitchTasks /\ task.pc = "runtime" /\ task.kind # "pause"
  BY <1>0, <1>1 DEF SwitchTasks, SwitchPoints
<1>3. CASE CancelTimer(t)
  <2>1. PICK old \in [Tasks -> SwitchTasks] :
          /\ old = Cancelled
          /\ \A o \in Tasks : old[o] = IF TaskAt(o, "sleep") THEN Vacant ELSE points[o]
    BY CancelledTasks
  <2>2. points[t].pc = "cancel" /\ contended' = contended
    BY <1>3 DEF CancelTimer, TaskAt, history
  <2>3. old[t] = points[t]
    BY <2>1, <2>2 DEF TaskAt
  <2>4. points' = [old EXCEPT ![t] = task]
    BY <1>3, <2>1, <2>3 DEF CancelTimer
  <2>5. ~contended' => ~contended /\ ~InForce /\ \A o \in Tasks \ {t} : points[o].kind # "pause"
    <3>1. ~(InForce /\ ~contended)
      BY <2>2, InForceFacts DEF Harmless
    <3>2. Busy(t)
      BY <2>2 DEF Busy
    <3> QED
      BY <2>2, <3>1, <3>2 DEF SwitchInv, PausesAlone
  <2> HIDE DEF task
  <2>6. points' \in [Tasks -> SwitchTasks]
    BY <1>2, <2>1, <2>4
  <2>7. \A o \in Tasks : points'[o] = IF o = t THEN task
                                      ELSE IF TaskAt(o, "sleep") THEN Vacant ELSE points[o]
    BY <2>1, <2>4
  <2> QED
    BY <1>1, <1>2, <2>5, <2>6, <2>7, TimerGone
<1>4. CASE Wake(t)
  <2>1. points[t].pc = "sleep" /\ points[t].copy.until =< hour /\ contended' = (contended \/ Pausing)
    BY <1>4 DEF Wake, TaskAt
  <2>2. points' = [points EXCEPT ![t] = task]
    BY <1>4 DEF Wake, Go
  <2>3. \A o \in Tasks \ {t} : ~TaskAt(o, "sleep")
    BY <1>0, <2>1 DEF OneSleeper, TaskAt
  <2>4. ~contended' => ~contended /\ ~InForce /\ \A o \in Tasks \ {t} : points[o].kind # "pause"
    <3>1. ~(InForce /\ ~contended)
      <4>1. SUFFICES ASSUME InForce, ~contended PROVE FALSE
        OBVIOUS
      <4>2. points[t].copy.until = agreed
        BY <2>1, <4>1, InForceFacts DEF Harmless
      <4> QED
        BY <1>0, <2>1, <4>1, <4>2 DEF InForce
    <3>2. \A o \in Tasks : points[o].kind = "pause" => Pausing
      BY <1>0 DEF PauseSteps, Pausing, Busy
    <3> QED
      BY <2>1, <3>1, <3>2
  <2> HIDE DEF task
  <2>5. points' \in [Tasks -> SwitchTasks]
    BY <1>0, <1>2, <2>2 DEF SwitchTyped
  <2>6. \A o \in Tasks : points'[o] = IF o = t THEN task
                                      ELSE IF TaskAt(o, "sleep") THEN Vacant ELSE points[o]
    BY <1>0, <2>2, <2>3 DEF SwitchTyped
  <2> QED
    BY <1>1, <1>2, <2>4, <2>5, <2>6, TimerGone
<1> QED
  BY <1>3, <1>4

-----------------------------------------------------------------------------
LEMMA BeginHolds ==
  ASSUME SwitchInv, active \in BOOLEAN, NEW t \in Tasks, BeginCall(t)
  PROVE  SwitchInv'
<1>0. /\ SwitchTyped /\ OneSleeper /\ PauseSteps /\ settings \in Copies
      /\ hour \in Nat /\ agreed \in Nat /\ points[t].pc = "none"
  BY DEF SwitchInv, SwitchTyped, BeginCall, TaskAt
<1>1. PICK kind \in Asked :
        /\ points' = [points EXCEPT ![t] =
            [Vacant EXCEPT
               !.kind = kind, !.copy = settings, !.was = active,
               !.pc = CASE kind = "pause"    -> "save"
                        [] kind = "resume"   -> "cancel"
                        [] kind = "download" -> "download"
                        [] kind = "policy"   -> "assigned"
                        [] kind \in {"settings", "wipe"} ->
                             IF active THEN "stop" ELSE "done"]]
        /\ contended' = IF kind = "pause"
                        THEN \E o \in Tasks : Busy(o)
                        ELSE contended \/ Pausing
        /\ agreed' = IF kind \in {"pause", "resume"} THEN 0 ELSE agreed
  BY DEF BeginCall
<1>2. UNCHANGED <<settings, capture, active, handle, hour>>
  BY DEF BeginCall
<1>3. kind \in {"pause", "resume", "settings", "download", "wipe", "policy"}
  BY SwitchConstants DEF CommandKinds
<1>4. PICK point :
        point = CASE kind = "pause"    -> "save"
                  [] kind = "resume"   -> "cancel"
                  [] kind = "download" -> "download"
                  [] kind = "policy"   -> "assigned"
                  [] kind \in {"settings", "wipe"} -> IF active THEN "stop" ELSE "done"
  OBVIOUS
<1> DEFINE task == [Vacant EXCEPT !.kind = kind, !.copy = settings, !.was = active,
                                  !.pc = point]
<1>5. task.kind = kind /\ task.copy = settings /\ task.pc = point
  BY DEF Vacant
<1>6. /\ kind = "pause" => point = "save"
      /\ kind = "resume" => point = "cancel"
      /\ kind = "download" => point = "download"
      /\ kind = "policy" => point = "assigned"
      /\ kind \in {"settings", "wipe"} => point = IF active THEN "stop" ELSE "done"
  BY <1>4
<1>7. task \in SwitchTasks
  <2>1. point \in SwitchPoints /\ kind \in {"none", "timer"} \cup CommandKinds
    BY <1>3, <1>5, <1>6 DEF SwitchPoints, CommandKinds
  <2>2. PICK was \in BOOLEAN : was = active
    OBVIOUS
  <2>3. task = [Vacant EXCEPT !.kind = kind, !.copy = settings, !.was = was, !.pc = point]
    BY <2>2
  <2> QED
    BY <1>0, <2>1, <2>3, VacantTask DEF SwitchTasks
<1>8. points' = [points EXCEPT ![t] = task]
  BY <1>1, <1>4
<1> HIDE DEF task
<1>9. points'[t] = task /\ \A o \in Tasks \ {t} : points'[o] = points[o]
  BY <1>0, <1>8 DEF SwitchTyped
<1>10. SwitchTyped'
  <2>1. agreed' \in Nat
    BY <1>0, <1>1
  <2> QED
    BY <1>0, <1>2, <1>7, <1>8, <2>1 DEF SwitchTyped
<1>11. OneSleeper'
  <2>1. handle # t /\ task.pc # "sleep"
    <3>1. NoTask # t
      BY SwitchConstants
    <3> QED
      BY <1>0, <1>3, <1>5, <1>6, <3>1 DEF OneSleeper, TaskAt
  <2>2. handle \in Tasks \cup {NoTask}
    BY <1>0 DEF SwitchTyped, Tasks
  <2> QED
    BY <1>0, <1>2, <1>9, <2>1, <2>2 DEF OneSleeper, TaskAt
<1>12. PauseSteps'
  BY <1>0, <1>3, <1>5, <1>6, <1>9 DEF PauseSteps
<1>13. PausesAlone'
  <2>1. \A o \in Tasks : points[o].kind = "pause" => Busy(o)
    BY <1>0 DEF PauseSteps, Busy
  <2>2. ASSUME NEW u \in Tasks \ {t}, points[u].kind = "pause" PROVE contended'
    BY <1>1, <2>1, <2>2 DEF Pausing
  <2>3. ASSUME kind = "pause", ~contended'
        PROVE  agreed' = 0 /\ \A o \in Tasks \ {t} : ~Busy(o)'
    <3>1. \A o \in Tasks : ~Busy(o)
      BY <1>1, <2>3
    <3> QED
      BY <1>1, <1>9, <2>3, <3>1 DEF Busy
  <2> QED
    BY <1>5, <1>6, <1>9, <2>2, <2>3 DEF PausesAlone
<1>14. PauseIsKept'
  <2> SUFFICES ASSUME agreed' > hour, ~contended'
               PROVE  /\ ~capture /\ ~active /\ settings = PausedUntil(agreed')
                      /\ \A o \in Tasks : Harmless(points[o])'
    BY <1>2 DEF PauseIsKept, InForce, PausedUntil
  <2>1. kind \notin {"pause", "resume"} /\ agreed' = agreed
    BY <1>0, <1>1
  <2>2. ~contended /\ InForce
    BY <1>1, <2>1 DEF InForce
  <2>3. ~capture /\ ~active /\ settings = PausedUntil(agreed) /\ \A o \in Tasks : Harmless(points[o])
    BY <2>2, InForceFacts
  <2>4. Harmless(task)
    BY <1>3, <1>5, <1>6, <2>1, <2>3 DEF Harmless
  <2>5. \A o \in Tasks : Harmless(points[o])'
    BY <1>2, <1>9, <2>1, <2>3, <2>4 DEF Harmless
  <2> QED
    BY <2>1, <2>3, <2>5
<1> QED
  BY <1>10, <1>11, <1>12, <1>13, <1>14 DEF SwitchInv

LEMMA RelaunchHolds == ASSUME SwitchInv, Relaunch PROVE SwitchInv'
<1>0. SwitchTyped /\ settings \in Copies
  BY DEF SwitchInv, SwitchTyped
<1> DEFINE task == [Vacant EXCEPT !.kind = "boot", !.pc = "boot", !.copy = Normalized]
<1>1. PICK t \in Calls : points' = [o \in Tasks |-> IF o = t THEN task ELSE Vacant]
  BY DEF Relaunch
<1>2. /\ settings' = Normalized /\ ~capture' /\ ~active' /\ handle' = NoTask
      /\ UNCHANGED <<hour, agreed, contended>>
  BY DEF Relaunch
<1>3. Normalized \in Copies
  BY <1>0 DEF Normalized, Recording, Copies
<1>4. /\ task \in SwitchTasks /\ task.kind = "boot" /\ task.pc = "boot"
      /\ task.copy = Normalized
  BY <1>3, VacantTask DEF SwitchTasks, SwitchPoints, CommandKinds
<1> HIDE DEF task
<1>5. SwitchTyped'
  BY <1>0, <1>1, <1>2, <1>3, <1>4, VacantTask DEF SwitchTyped
<1>6. OneSleeper' /\ PauseSteps' /\ PausesAlone'
  BY <1>1, <1>2, <1>4, VacantTask DEF OneSleeper, PauseSteps, PausesAlone, TaskAt
<1>7. PauseIsKept'
  <2> SUFFICES ASSUME InForce, ~contended
               PROVE  settings' = PausedUntil(agreed) /\ \A o \in Tasks : Harmless(points[o])'
    BY <1>2 DEF PauseIsKept, InForce, PausedUntil
  <2>1. settings = PausedUntil(agreed)
    BY InForceFacts
  <2>2. Normalized = settings
    BY <2>1 DEF Normalized, PausedUntil, InForce
  <2>3. \A o \in Tasks : Harmless(points[o])'
    BY <1>1, <1>2, <1>4, VacantTask DEF Harmless
  <2> QED
    BY <1>2, <2>1, <2>2, <2>3
<1> QED
  BY <1>5, <1>6, <1>7 DEF SwitchInv

LEMMA ClockHolds == ASSUME SwitchInv, ClockTicks \/ UNCHANGED switchVars PROVE SwitchInv'
<1>1. /\ UNCHANGED <<settings, capture, active, handle, points, agreed, contended>>
      /\ hour' \in {hour, hour + 1}
  BY DEF ClockTicks, flags, switchVars
<1>2. SwitchTyped'
  BY <1>1 DEF SwitchInv, SwitchTyped
<1>3. OneSleeper' /\ PauseSteps' /\ PausesAlone'
  BY <1>1 DEF SwitchInv, OneSleeper, PauseSteps, PausesAlone, TaskAt, Busy
<1>4. InForce' => InForce
  BY <1>1 DEF InForce, SwitchInv, SwitchTyped
<1>5. PauseIsKept'
  <2> SUFFICES ASSUME InForce, ~contended
               PROVE  /\ ~capture /\ ~active /\ settings = PausedUntil(agreed)
                      /\ \A o \in Tasks : Harmless(points[o])'
    BY <1>1, <1>4 DEF PauseIsKept, PausedUntil
  <2> QED
    BY <1>1, InForceFacts DEF Harmless
<1> QED
  BY <1>2, <1>3, <1>5 DEF SwitchInv

LEMMA ActiveIsBoolean == SwitchSpec => [](active \in BOOLEAN)
<1>1. SwitchInit => active \in BOOLEAN
  BY DEF SwitchInit
<1>2. active \in BOOLEAN /\ [SwitchNext]_switchVars => (active \in BOOLEAN)'
  <2> SUFFICES ASSUME active \in BOOLEAN, [SwitchNext]_switchVars PROVE active' \in BOOLEAN
    OBVIOUS
  <2>1. ASSUME NEW t \in Tasks, BeginCall(t) \/ Advance(t) PROVE active' \in BOOLEAN
    <3>1. CASE BeginCall(t) \/ Wake(t)
      BY <3>1 DEF BeginCall, Wake
    <3>2. CASE StartStep(t)
      BY <3>2 DEF StartStep, ChooseStart, StartOnce, TakeLock, Build, CaptureNotBuilt, Spawn,
                  Boot, BootFails, Publish, Rest
    <3>3. CASE CommandStep(t)
      BY <3>3 DEF CommandStep, SavePause, PauseFails, Stop, SchedulePause, CancelTimer,
                  ClearPause, ClearFails, Undo, RetryPause, SaveOldCopy, Rollback, Reconcile,
                  CheckRuntime, Done, StopsFor
    <3> QED
      BY <2>1, <3>1, <3>2, <3>3 DEF Advance
  <2>2. CASE Relaunch \/ ClockTicks \/ UNCHANGED switchVars
    BY <2>2 DEF Relaunch, ClockTicks, switchVars
  <2> QED
    BY <2>1, <2>2 DEF SwitchNext
<1> QED
  BY <1>1, <1>2, PTL DEF SwitchSpec

LEMMA SwitchInvHolds == SwitchSpec => []SwitchInv
<1>1. SwitchInit => SwitchInv
  BY SwitchInitHolds
<1>2. SwitchInv /\ active \in BOOLEAN /\ [SwitchNext]_switchVars => SwitchInv'
  <2> SUFFICES ASSUME SwitchInv, active \in BOOLEAN, [SwitchNext]_switchVars PROVE SwitchInv'
    OBVIOUS
  <2>1. ASSUME NEW t \in Tasks, StartStep(t) PROVE SwitchInv'
    BY <2>1, StartsHold, BootsHold, RestHolds DEF StartStep
  <2>2. ASSUME NEW t \in Tasks, CommandStep(t) PROVE SwitchInv'
    BY <2>2, SavesHold, StopHolds, SchedulesHold, TimersGoHold, LoudCommandsHold, PolicyHolds
    DEF CommandStep
  <2> QED
    BY <2>1, <2>2, BeginHolds, TimersGoHold, RelaunchHolds, ClockHolds DEF SwitchNext, Advance
<1> QED
  BY <1>1, <1>2, ActiveIsBoolean, PTL DEF SwitchSpec

(* A pause that the user was told of holds until its deadline or until the   *)
(* user's own word, through changes of the settings and of the policy, old  *)
(* timers, deletions and restarts of the app, unless another task was at    *)
(* work beside the command to pause.  Meanwhile no task can get where a     *)
(* session is started, and the settings keep the deadline that was promised.*)
THEOREM PausesHold == SwitchSpec => []PauseHolds
<1>1. SwitchInv => PauseHolds
  BY DEF SwitchInv, PauseIsKept, PauseHolds
<1> QED
  BY <1>1, SwitchInvHolds, PTL
=============================================================================
