--------------------------- MODULE AskForFix_proofs ---------------------------
(***************************************************************************)
(* Theorems about AskForFix and AskWatches, for every value of their       *)
(* constants.                                                              *)
(***************************************************************************)
EXTENDS AskForFix, AskWatches, Collections, FiniteSetTheorems

-----------------------------------------------------------------------------
(* The row: what each of its updates does. *)

LEMMA WorkingRow ==
  ASSUME NEW s \in SessionRows
  PROVE  /\ Working(s) \in SessionRows
         /\ Working(s).phase = s.phase /\ Working(s).status = "working"
         /\ Working(s).locked = s.locked /\ Working(s).asking = s.asking
         /\ Working(s).presented = s.presented /\ Working(s).questions = s.questions
  BY DEF Working, SessionRows, Statuses, Errors

(* What a settlement writes. *)
Wrote(s, written) == [s EXCEPT !.status = written.status, !.error = written.error]

LEMMA WrittenRow ==
  ASSUME NEW s \in SessionRows, NEW written \in Settlements
  PROVE  /\ Wrote(s, written) \in SessionRows
         /\ Wrote(s, written).status = written.status /\ Wrote(s, written).error = written.error
         /\ Wrote(s, written).phase = s.phase /\ Wrote(s, written).locked = s.locked
         /\ Wrote(s, written).asking = s.asking /\ Wrote(s, written).presented = s.presented
         /\ Wrote(s, written).questions = s.questions
         /\ Fallback(Wrote(s, written)) = Fallback(s)
  BY DEF Wrote, SessionRows, Settlements, Statuses, Fallback

LEMMA FallbackTyped ==
  ASSUME NEW s PROVE Fallback(s) \in {"active", "locked"}
  BY DEF Fallback

(* A settlement moves the row where it writes, and nowhere else. *)
LEMMA SettlesRow ==
  ASSUME NEW x, Settles(x)
  PROVE  /\ turn' = turn
         /\ \/ UNCHANGED <<session, overtaken>>
            \/ /\ settling[x].at = "write" /\ session' = Wrote(session, settling[x])
               /\ overtaken' = (settling[x].status # Fallback(session))
<1>1. CASE SettleReads(x) \/ SettleJobs(x)
  BY <1>1 DEF Settles, SettleReads, SettleJobs
<1>2. CASE SettleWrites(x)
  BY <1>2 DEF Settles, SettleWrites, Wrote
<1> QED
  BY <1>1, <1>2 DEF Settles

(* Who touches the row, and what becomes of it. *)
RowMoves ==
  \/ UNCHANGED <<session, turn, overtaken>>
  \/ \E x \in Settlers : /\ settling[x].at = "write" /\ turn' = turn
                         /\ session' = Wrote(session, settling[x])
                         /\ overtaken' = (settling[x].status # Fallback(session))
  \/ session' = Working(session) /\ overtaken' = FALSE
  \/ /\ Confirmable(session) /\ \E r \in AskRuns : At(r, "open")
     /\ session' = [Working(session) EXCEPT !.phase = "present", !.locked = TRUE,
                                            !.asking = FALSE]
     /\ overtaken' = FALSE
  \/ /\ \E r \in AskRuns : At(r, "open")
     /\ session' = [Working(session) EXCEPT !.phase = "follow_up", !.locked = FALSE,
                                            !.asking = FALSE, !.presented = FALSE]
     /\ overtaken' = FALSE
  \/ \E r \in AskRuns : /\ At(r, "apply") /\ askRuns[r].move # "retrieve"
                        /\ session' = AfterMove(askRuns[r].move) /\ overtaken' = FALSE

LEMMA SessionMoves == [AskNext]_askVars => RowMoves
<1> SUFFICES ASSUME [AskNext]_askVars PROVE RowMoves
  OBVIOUS
<1>1. ASSUME NEW x \in Settlers, Settles(x) PROVE RowMoves
  BY <1>1, SettlesRow DEF RowMoves
<1>2. ASSUME NEW r \in AskRuns, RunStep(r) PROVE RowMoves
  <2>1. CASE Settles(r)
    BY <1>1, <2>1 DEF Settlers
  <2>2. CASE Stage(r) \/ Retry(r) \/ Lock(r) \/ Reopen(r) \/ Apply(r)
    BY <2>2 DEF Stage, Retry, Lock, Reopen, Apply, RowMoves
  <2> QED
    BY <1>2, <2>1, <2>2
    DEF RunStep, RowMoves, Recover, RefuseStage, RefuseLock, RefuseRetry, RefuseReview, RuntimeFails,
        ReadTurn, JobConflict, Decide, ThinkFails, Explore, ApplyRetrieval, CloseReview,
        RunLost, Finish, Refuse, Fails, askRows
<1>3. ASSUME NEW r \in AskRuns, NEW c \in Commands, Begin(r, c) PROVE RowMoves
  BY <1>3 DEF Begin, askRows, RowMoves
<1>4. CASE StopSignals \/ Latest \/ AskCrash \/ WatchMoves \/ ForgetMemos \/ DeleteAll
           \/ UNCHANGED askVars
  BY <1>4
  DEF StopSignals, Latest, AskCrash, WatchMoves, ForgetMemos, DeleteAll, askRows, askVars, RowMoves
<1> QED
  BY <1>1, <1>2, <1>3, <1>4 DEF AskNext, Settlers

-----------------------------------------------------------------------------
(* The runs: at most one is alive, and while it is, nothing moves the       *)
(* conversation away from the packet it was given.                          *)

Alive == {"open", "turn", "infer", "think", "explore", "apply", "close", "failing"}

RunsTyped ==
  /\ askRuns \in [AskRuns -> Locals]
  /\ inflight \in AskRuns \cup {NoAskRun}

OneRunAlive == \A r \in AskRuns : askRuns[r].pc \in Alive => inflight = r

Held(l) ==
  l.pc \in {"think", "explore", "apply"} =>
    /\ l.packet \in Packets
    /\ l.packet.turn = turn
    /\ l.packet.phase = session.phase
    /\ l.packet.questions = session.questions
    /\ l.pc # "think" => l.move \in Legal(l.packet)

RunsWhole == RunsTyped /\ OneRunAlive /\ \A r \in AskRuns : Held(askRuns[r])

(* Who is settling the row, for which reason; and what a run that failed has *)
(* read is not out of date when it writes it.                               *)
Reason(x) ==
  LET s == settling[x] IN
  s.at # "rest" =>
    /\ x = "stop" => s.error = "user_cancelled"
    /\ x = "view" => s.error = "interrupted"
    /\ x \in AskRuns => \/ s.error = "failed" /\ askRuns[x].pc = "failing"
                        \/ s.error = "interrupted" /\ askRuns[x].pc = "open"
                        \/ s.error = "user_cancelled" /\ askRuns[x].pc = "dropped"

Fresh(x) ==
  settling[x].at = "write" /\ settling[x].error = "failed" => settling[x].status = Fallback(session)

SettlersWhole ==
  /\ settling \in [Settlers -> Settlements]
  /\ \A x \in Settlers : Reason(x) /\ Fresh(x)

AskInv == AskTypeOK /\ RunsWhole /\ SettlersWhole

LEMMA RestingLocals ==
  /\ Resting \in Locals /\ Resting.pc = "none"
  /\ \A point \in Points : [Resting EXCEPT !.pc = point] \in Locals
                          /\ [Resting EXCEPT !.pc = point].pc = point
  BY DEF Resting, Locals, Points, Commands, Moves

LEMMA SettlementsTyped ==
  /\ Settled \in Settlements /\ Settled.at = "rest"
  /\ \A code \in Errors : ToSettle(code) \in Settlements /\ ToSettle(code).at = "read"
                          /\ ToSettle(code).error = code
  /\ Recovering \in Settlements /\ Recovering.at = "write" /\ Recovering.error = "interrupted"
  BY FallbackTyped DEF Settled, ToSettle, Recovering, Settlements, Errors

(* A run that is alive moves on: the others hold nothing. *)
LEMMA RunMoves ==
  ASSUME RunsWhole, NEW r \in AskRuns, askRuns[r].pc \in Alive, NEW l \in Locals,
         askRuns' = [askRuns EXCEPT ![r] = l], inflight' = inflight, Held(l)'
  PROVE  RunsWhole'
<1>1. \A q \in AskRuns \ {r} : askRuns[q].pc \notin Alive
  BY DEF RunsWhole, OneRunAlive
<1>2. askRuns' \in [AskRuns -> Locals] /\ askRuns'[r] = l
      /\ \A q \in AskRuns \ {r} : askRuns'[q] = askRuns[q]
  BY DEF RunsWhole, RunsTyped
<1>3. OneRunAlive' /\ RunsTyped'
  BY <1>1, <1>2 DEF RunsWhole, OneRunAlive, RunsTyped
<1>4. ASSUME NEW q \in AskRuns PROVE Held(askRuns[q])'
  BY <1>1, <1>2 DEF Held, Alive
<1> QED
  BY <1>3, <1>4 DEF RunsWhole

(* Runs only end. *)
LEMMA RunsEnd ==
  ASSUME RunsWhole, askRuns' \in [AskRuns -> Locals],
         \A q \in AskRuns : askRuns'[q] = askRuns[q] \/ askRuns'[q].pc \notin Alive,
         inflight' \in AskRuns \cup {NoAskRun},
         inflight' = inflight \/ \A q \in AskRuns : askRuns'[q].pc \notin Alive,
         turn' = turn, session'.phase = session.phase,
         session'.questions = session.questions
  PROVE  RunsWhole'
<1>1. RunsTyped' /\ OneRunAlive'
  BY DEF RunsWhole, RunsTyped, OneRunAlive
<1>2. ASSUME NEW q \in AskRuns PROVE Held(askRuns[q])'
  <2>1. CASE askRuns'[q].pc \notin Alive
    BY <2>1 DEF Held, Alive
  <2>2. CASE askRuns'[q] = askRuns[q]
    BY <2>2 DEF Held, RunsWhole
  <2> QED
    BY <2>1, <2>2
<1> QED
  BY <1>1, <1>2 DEF RunsWhole

LEMMA Dropped ==
  ASSUME RunsWhole, NEW r \in AskRuns
  PROVE  /\ DropRun(r) \in [AskRuns -> Locals]
         /\ DropRun(r)[r].pc \notin Alive
         /\ \A q \in AskRuns \ {r} : DropRun(r)[q] = askRuns[q]
<1>1. [Resting EXCEPT !.pc = "dropped"] \in Locals
      /\ [Resting EXCEPT !.pc = "dropped"].pc = "dropped"
  BY RestingLocals DEF Points
<1> QED
  BY <1>1 DEF DropRun, Droppable, RunsWhole, RunsTyped, Alive

(* A settlement ends its run or leaves the runs alone. *)
LEMMA SettlesKeepsRuns ==
  ASSUME AskTypeOK, RunsWhole, NEW x \in Settlers, Settles(x)
  PROVE  RunsWhole'
<1>1. session'.phase = session.phase /\ session'.questions = session.questions
      /\ turn' = turn /\ inflight' = inflight
  <2>1. turn' = turn /\ inflight' = inflight
    BY DEF Settles
  <2>2. CASE session' = session
    BY <2>1, <2>2
  <2>3. CASE session' = Wrote(session, settling[x])
    BY <2>1, <2>3, WrittenRow DEF AskTypeOK
  <2> QED
    BY <2>2, <2>3, SettlesRow
<1>2. UNCHANGED askRuns \/ (x \in AskRuns /\ RunReturns(x))
  BY DEF Settles, SettleReads, SettleWrites, SettleJobs, GoesOn
<1>3. [Resting EXCEPT !.pc = "done"] \in Locals /\ [Resting EXCEPT !.pc = "done"].pc = "done"
  BY RestingLocals DEF Points
<1> QED
  BY <1>1, <1>2, <1>3, RunsEnd DEF RunReturns, RunsWhole, RunsTyped, Alive

(* What each step of a run makes of the runs. *)
LEMMA RunStepKeepsRuns ==
  ASSUME AskTypeOK, RunsWhole, NEW r \in AskRuns, RunStep(r)
  PROVE  RunsWhole'
<1> DEFINE l == askRuns[r]
           done == [Resting EXCEPT !.pc = "done"]
<1>1. l \in Locals /\ session \in SessionRows
  BY DEF AskTypeOK
<1>2. done \in Locals /\ done.pc = "done"
  BY RestingLocals DEF Points
<1>3. CASE l.pc \in Alive /\ Refuse(r)
  BY <1>2, <1>3, RunMoves DEF Refuse, RunReturns, Held
<1>4. ASSUME l.pc \in Alive, inflight' = inflight,
             NEW point \in {"turn", "infer", "close", "failing"}, Goto(r, point)
      PROVE  RunsWhole'
  <2> DEFINE m == [l EXCEPT !.pc = point]
  <2>1. m \in Locals /\ m.pc = point
    BY <1>1 DEF Locals, Points
  <2>2. askRuns' = [askRuns EXCEPT ![r] = m]
    BY <1>4 DEF Goto
  <2> HIDE DEF m
  <2> QED
    BY <1>4, <2>1, <2>2, RunMoves DEF Held
<1>5. CASE Stage(r) \/ Lock(r) \/ Retry(r) \/ Reopen(r)
  BY <1>4, <1>5 DEF Stage, Lock, Retry, Reopen, At, Alive
<1>6. CASE RefuseStage(r) \/ RefuseLock(r) \/ RefuseRetry(r) \/ RefuseReview(r)
           \/ JobConflict(r) \/ ApplyRetrieval(r)
  BY <1>3, <1>6
  DEF RefuseStage, RefuseLock, RefuseRetry, RefuseReview, JobConflict, ApplyRetrieval, At, Alive
<1>15. CASE RuntimeFails(r) \/ ThinkFails(r)
  BY <1>4, <1>15 DEF RuntimeFails, ThinkFails, Fails, At, Alive
<1>16. CASE Recover(r)
  BY <1>16, RunsEnd DEF Recover, askRows, RunsWhole, RunsTyped
<1>7. CASE ReadTurn(r)
  <2>1. Packet \in Packets
    BY <1>1 DEF AskTypeOK, Packet, Packets, SessionRows
  <2>2. PICK m \in Locals : m = [l EXCEPT !.pc = "think", !.packet = Packet]
    BY <1>1, <2>1 DEF Locals, Points
  <2>3. /\ askRuns' = [askRuns EXCEPT ![r] = m]
        /\ m.pc = "think" /\ m.packet = Packet
    BY <1>1, <1>7, <2>2 DEF ReadTurn, Locals
  <2>4. Packet.turn = turn /\ Packet.phase = session.phase
        /\ Packet.questions = session.questions
    BY DEF Packet
  <2>5. Held(m)'
    BY <1>7, <2>1, <2>3, <2>4 DEF ReadTurn, Held
  <2> QED
    BY <1>7, <2>3, <2>5, RunMoves DEF ReadTurn, At, Alive
<1>8. CASE Decide(r)
  <2>1. PICK m \in Legal(l.packet), point \in {"explore", "apply"} :
          askRuns' = [askRuns EXCEPT ![r].pc = point, ![r].move = m]
    BY <1>8 DEF Decide
  <2>2. m \in Moves
    BY DEF Legal, Moves
  <2>3. PICK k \in Locals : k = [l EXCEPT !.pc = point, !.move = m]
    BY <1>1, <2>2 DEF Locals, Points
  <2>4. /\ askRuns' = [askRuns EXCEPT ![r] = k]
        /\ k.pc = point /\ k.move = m /\ k.packet = l.packet
    BY <1>1, <2>1, <2>3 DEF Locals
  <2>5. Held(l) /\ l.pc = "think"
    BY <1>8 DEF RunsWhole, Decide, At
  <2>6. Held(k)'
    BY <1>8, <2>4, <2>5 DEF Held, Decide
  <2> QED
    BY <1>8, <2>4, <2>5, <2>6, RunMoves DEF Decide, Alive
<1>9. CASE Explore(r)
  <2> DEFINE m == [l EXCEPT !.pc = "infer", !.explores = FALSE]
  <2>1. m \in Locals /\ m.pc = "infer"
    BY <1>1 DEF Locals, Points
  <2>2. askRuns' = [askRuns EXCEPT ![r] = m]
    BY <1>9 DEF Explore
  <2> HIDE DEF m
  <2> QED
    BY <1>9, <2>1, <2>2, RunMoves DEF Explore, At, Alive, Held
<1>10. CASE Apply(r)
  <2>1. l.pc \in Alive /\ inflight' = inflight /\ (Goto(r, "close") \/ RunReturns(r))
    BY <1>10 DEF Apply, At, Alive
  <2>2. CASE RunReturns(r)
    BY <1>2, <2>1, <2>2, RunMoves DEF RunReturns, Held
  <2> QED
    BY <1>4, <2>1, <2>2
<1>11. CASE CloseReview(r)
  BY <1>2, <1>11, RunMoves DEF CloseReview, RunReturns, At, Alive, Held
<1>12. CASE RunLost(r)
  <2>1. askRuns' = [askRuns EXCEPT ![r] = done] /\ UNCHANGED <<session, turn, inflight>>
    BY <1>12 DEF RunLost, Refuse, RunReturns
  <2> HIDE DEF done
  <2> QED
    BY <1>2, <2>1, RunsEnd DEF RunsWhole, RunsTyped, Alive
<1>13. CASE Settles(r)
  BY <1>13, SettlesKeepsRuns DEF Settlers
<1>14. CASE Finish(r)
  <2>1. session' = session /\ turn' = turn /\ inflight' = NoAskRun /\ l.pc = "done"
    BY <1>14 DEF Finish, askRows
  <2>2. CASE inflight \in {NoAskRun, r}
    <3>1. askRuns' = [askRuns EXCEPT ![r] = Resting]
      BY <1>14, <2>2, AskAssumption DEF Finish, DropRun, Droppable
    <3>2. \A q \in AskRuns : askRuns[q].pc \notin Alive
      BY <2>1, <2>2, AskAssumption DEF RunsWhole, OneRunAlive, Alive
    <3> QED
      BY <2>1, <3>1, <3>2, RestingLocals, RunsEnd DEF RunsWhole, RunsTyped, Alive
  <2>3. CASE inflight \notin {NoAskRun, r}
    <3>1. inflight \in AskRuns /\ askRuns' = [DropRun(inflight) EXCEPT ![r] = Resting]
      BY <1>14, <2>3 DEF Finish, RunsWhole, RunsTyped
    <3>2. \A q \in AskRuns \ {inflight} : askRuns[q].pc \notin Alive
      BY DEF RunsWhole, OneRunAlive
    <3> QED
      BY <2>1, <3>1, <3>2, RestingLocals, Dropped, RunsEnd DEF Alive
  <2> QED
    BY <2>2, <2>3
<1> QED
  BY <1>5, <1>6, <1>7, <1>8, <1>9, <1>10, <1>11, <1>12, <1>13, <1>14, <1>15, <1>16 DEF RunStep

LEMMA RunsKept ==
  ASSUME AskTypeOK, RunsWhole, [AskNext]_askVars
  PROVE  RunsWhole'
<1>1. ASSUME NEW r \in AskRuns, RunStep(r) PROVE RunsWhole'
  BY <1>1, RunStepKeepsRuns
<1>2. ASSUME NEW r \in AskRuns, NEW c \in Commands, Begin(r, c) PROVE RunsWhole'
  <2>0. (c = "submit") \in BOOLEAN
    OBVIOUS
  <2>1. PICK l \in Locals : l = Opening(c)
    BY <2>0 DEF Opening, Locals, Points, Moves
  <2>2. l.pc = "open" /\ askRuns' = [askRuns EXCEPT ![r] = l] /\ inflight' = r
        /\ session' = session /\ turn' = turn
    BY <1>2, <2>1 DEF Begin, Opening, askRows
  <2>3. \A q \in AskRuns : askRuns[q].pc \notin Alive
    BY <1>2, AskAssumption DEF Begin, RunsWhole, OneRunAlive
  <2>4. RunsTyped' /\ askRuns'[r] = l /\ \A q \in AskRuns \ {r} : askRuns'[q] = askRuns[q]
    BY <2>2 DEF RunsWhole, RunsTyped
  <2> QED
    BY <2>2, <2>3, <2>4 DEF RunsWhole, OneRunAlive, Held, Alive
<1>3. CASE StopSignals
  <2>1. session' = session /\ turn' = turn /\ inflight' = NoAskRun /\ askRuns' = DropRun(inflight)
    BY <1>3 DEF StopSignals, askRows
  <2>2. CASE inflight = NoAskRun
    <3>1. askRuns' = askRuns
      BY <2>1, <2>2, AskAssumption DEF DropRun, Droppable
    <3> QED
      BY <2>1, <2>2, <3>1, RunsEnd DEF RunsWhole, RunsTyped
  <2>3. CASE inflight # NoAskRun
    <3>1. inflight \in AskRuns
      BY <2>3 DEF RunsWhole, RunsTyped
    <3>2. \A q \in AskRuns \ {inflight} : askRuns[q].pc \notin Alive
      BY DEF RunsWhole, OneRunAlive
    <3> QED
      BY <2>1, <3>1, <3>2, Dropped, RunsEnd
  <2> QED
    BY <2>2, <2>3
<1>4. CASE Settles("stop") \/ Settles("view")
  BY <1>4, SettlesKeepsRuns DEF Settlers
<1>5. CASE Latest \/ WatchMoves \/ ForgetMemos \/ DeleteAll \/ UNCHANGED askVars
  <2>1. UNCHANGED <<session, askRuns, inflight, turn>>
    BY <1>5 DEF Latest, WatchMoves, ForgetMemos, DeleteAll, askRows, tasks, askVars
  <2> QED
    BY <2>1, RunsEnd DEF RunsWhole, RunsTyped
<1>6. CASE AskCrash
  <2>1. session' = session /\ turn' = turn /\ inflight' = NoAskRun
        /\ askRuns' = [r \in AskRuns |-> Resting]
    BY <1>6 DEF AskCrash, askRows
  <2> QED
    BY <2>1, RestingLocals, RunsEnd DEF Alive
<1> QED
  BY <1>1, <1>2, <1>3, <1>4, <1>5, <1>6 DEF AskNext

-----------------------------------------------------------------------------
(* Those who settle the row. *)

(* Only a command that opens sets or releases the lock. *)
LEMMA LockMoves ==
  ASSUME AskTypeOK, [AskNext]_askVars
  PROVE  session'.locked = session.locked \/ \E r \in AskRuns : At(r, "open")
<1>0. session \in SessionRows /\ RowMoves
  BY SessionMoves DEF AskTypeOK
<1>1. ASSUME NEW x \in Settlers, session' = Wrote(session, settling[x])
      PROVE  session'.locked = session.locked
  BY <1>0, <1>1, WrittenRow DEF AskTypeOK
<1>2. CASE session' = Working(session)
  BY <1>0, <1>2, WorkingRow
<1>3. ASSUME NEW r \in AskRuns, askRuns[r].move # "retrieve", session' = AfterMove(askRuns[r].move)
      PROVE  session'.locked = session.locked
  <2>1. askRuns[r].move \in {"ask", "consolidate", "present"}
    BY <1>3 DEF AskTypeOK, Locals, Moves
  <2>2. \A m \in {"ask", "consolidate", "present"} : AfterMove(m).locked = session.locked
    BY <1>0 DEF AfterMove, SessionRows
  <2> QED
    BY <1>3, <2>1, <2>2
<1> QED
  BY <1>0, <1>1, <1>2, <1>3 DEF RowMoves

(* The lock does not move under a run that failed: it is the one alive. *)
LEMMA LockHolds ==
  ASSUME AskInv, [AskNext]_askVars, NEW x \in Settlers,
         settling[x].at = "write", settling[x].error = "failed"
  PROVE  session'.locked = session.locked
<1>1. x \in AskRuns /\ askRuns[x].pc = "failing"
  BY DEF AskInv, SettlersWhole, Reason, Settlers
<1>2. ASSUME NEW r \in AskRuns, At(r, "open") PROVE FALSE
  <2>1. r = x
    BY <1>1, <1>2 DEF AskInv, RunsWhole, OneRunAlive, Alive, At
  <2> QED
    BY <1>2, <2>1 DEF At
<1> QED
  BY <1>2, LockMoves DEF AskInv

LEMMA SettlerKept ==
  ASSUME AskInv, [AskNext]_askVars, NEW x \in Settlers, settling'[x] = settling[x],
         x \in AskRuns /\ settling[x].at # "rest" => askRuns'[x].pc = askRuns[x].pc
  PROVE  Reason(x)' /\ Fresh(x)'
<1>1. Reason(x) /\ Fresh(x)
  BY DEF AskInv, SettlersWhole
<1>2. Reason(x)'
  BY <1>1 DEF Reason
<1>3. Fresh(x)'
  BY <1>1, LockHolds DEF Fresh, Fallback
<1> QED
  BY <1>2, <1>3

LEMMA SettlerRests ==
  ASSUME NEW x, settling'[x].at = "rest" PROVE Reason(x)' /\ Fresh(x)'
  BY DEF Reason, Fresh

LEMMA FreeRests ==
  ASSUME NEW r \in AskRuns, r = Free PROVE askRuns[r].pc = "none"
<1>1. CASE \E q \in AskRuns : askRuns[q].pc = "none"
  BY <1>1 DEF Free
<1>2. CASE ~\E q \in AskRuns : askRuns[q].pc = "none"
  BY <1>2, AskAssumption DEF Free
<1> QED
  BY <1>1, <1>2

(* A run that is dropped is told to cancel its turn. *)
LEMMA DropsSettle ==
  ASSUME AskInv, NEW r \in AskRuns \cup {NoAskRun}
  PROVE  /\ DropSettling(r) \in [Settlers -> Settlements]
         /\ \A x \in Settlers :
              \/ DropSettling(r)[x] = settling[x] /\ (x \in AskRuns => DropRun(r)[x] = askRuns[x])
              \/ /\ x = r /\ r \in AskRuns /\ DropRun(r)[x].pc = "dropped"
                 /\ DropSettling(r)[x] = ToSettle("user_cancelled")
<1>1. ToSettle("user_cancelled") \in Settlements
  BY SettlementsTyped DEF Errors
<1>2. CASE ~Droppable(r)
  BY <1>2 DEF AskInv, SettlersWhole, DropSettling, DropRun
<1>3. CASE Droppable(r)
  <2>1. r \in AskRuns /\ r \in Settlers
    BY <1>3 DEF Droppable, Settlers
  <2>2. /\ DropSettling(r) = [settling EXCEPT ![r] = ToSettle("user_cancelled")]
        /\ DropRun(r) = [askRuns EXCEPT ![r] = [Resting EXCEPT !.pc = "dropped"]]
    BY <1>3 DEF DropSettling, DropRun
  <2>3. [Resting EXCEPT !.pc = "dropped"].pc = "dropped"
    BY DEF Resting
  <2> QED
    BY <1>1, <2>1, <2>2, <2>3 DEF AskInv, SettlersWhole, RunsWhole, RunsTyped
<1> QED
  BY <1>2, <1>3

LEMMA DropReason ==
  ASSUME NEW x \in AskRuns, settling'[x] = ToSettle("user_cancelled"), askRuns'[x].pc = "dropped"
  PROVE  Reason(x)' /\ Fresh(x)'
<1>1. x \notin {"stop", "view"}
  BY AskAssumption
<1> QED
  BY <1>1, SettlementsTyped DEF Reason, Fresh, Errors

LEMMA SettlesKeepsSettlers ==
  ASSUME AskInv, NEW y \in Settlers, Settles(y), [AskNext]_askVars
  PROVE  SettlersWhole'
<1>0. settling \in [Settlers -> Settlements] /\ Reason(y) /\ Fresh(y)
  BY DEF AskInv, SettlersWhole
<1>1. CASE SettleReads(y)
  <2>1. /\ settling' = [settling EXCEPT ![y].at = "write", ![y].status = Fallback(session)]
        /\ UNCHANGED <<session, askRuns>> /\ settling[y].at # "rest"
    BY <1>1 DEF SettleReads
  <2>2. Fallback(session) \in {"active", "locked"}
    BY FallbackTyped
  <2>3. settling' \in [Settlers -> Settlements]
    BY <1>0, <2>1, <2>2 DEF Settlements
  <2>4. Reason(y)' /\ Fresh(y)'
    BY <1>0, <2>1, <2>2 DEF Settlements, Reason, Fresh, Fallback
  <2>5. ASSUME NEW x \in Settlers \ {y} PROVE Reason(x)' /\ Fresh(x)'
    BY <1>0, <2>1, SettlerKept
  <2> QED
    BY <2>3, <2>4, <2>5 DEF SettlersWhole
<1>2. ASSUME settling' = [settling EXCEPT ![y] = Settled], UNCHANGED askRuns \/ (y \in AskRuns /\ RunReturns(y))
      PROVE  SettlersWhole'
  <2>1. settling' \in [Settlers -> Settlements]
    BY <1>0, <1>2, SettlementsTyped
  <2>2. Reason(y)' /\ Fresh(y)'
    BY <1>0, <1>2, SettlementsTyped, SettlerRests
  <2>3. ASSUME NEW x \in Settlers \ {y} PROVE Reason(x)' /\ Fresh(x)'
    <3>1. settling'[x] = settling[x] /\ (x \in AskRuns => askRuns'[x] = askRuns[x])
      BY <1>0, <1>2, <2>3 DEF RunReturns, AskInv, RunsWhole, RunsTyped
    <3> QED
      BY <3>1, SettlerKept
  <2> QED
    BY <2>1, <2>2, <2>3 DEF SettlersWhole
<1>3. CASE SettleJobs(y)
  BY <1>2, <1>3 DEF SettleJobs, DoneSettling, GoesOn
<1>4. CASE SettleWrites(y) /\ settling[y].error = "failed"
  BY <1>2, <1>4 DEF SettleWrites, DoneSettling, GoesOn
<1>5. CASE SettleWrites(y) /\ settling[y].error # "failed"
  <2>1. /\ settling' = [settling EXCEPT ![y].at = "jobs"]
        /\ UNCHANGED askRuns /\ settling[y].at # "rest"
    BY <1>5 DEF SettleWrites
  <2>2. settling' \in [Settlers -> Settlements]
    BY <1>0, <2>1 DEF Settlements
  <2>3. Reason(y)' /\ Fresh(y)'
    BY <1>0, <2>1 DEF Settlements, Reason, Fresh
  <2>4. ASSUME NEW x \in Settlers \ {y} PROVE Reason(x)' /\ Fresh(x)'
    BY <1>0, <2>1, SettlerKept
  <2> QED
    BY <2>2, <2>3, <2>4 DEF SettlersWhole
<1> QED
  BY <1>1, <1>3, <1>4, <1>5 DEF Settles

(* A step of one run settles nobody else's error. *)
LEMMA RunStepKeepsSettlers ==
  ASSUME AskInv, NEW r \in AskRuns, RunStep(r), [AskNext]_askVars
  PROVE  SettlersWhole'
<1>0. /\ settling \in [Settlers -> Settlements] /\ r \in Settlers /\ askRuns \in [AskRuns -> Locals]
      /\ r \notin {"stop", "view"}
  BY AskAssumption DEF AskInv, SettlersWhole, Settlers, RunsWhole, RunsTyped
<1> DEFINE Elsewhere == \A x \in AskRuns \ {r} : askRuns'[x] = askRuns[x]
<1>1. ASSUME NEW s \in Settlements, settling' = [settling EXCEPT ![r] = s], Elsewhere,
             Reason(r)' /\ Fresh(r)'
      PROVE  SettlersWhole'
  <2>1. ASSUME NEW x \in Settlers \ {r} PROVE Reason(x)' /\ Fresh(x)'
    BY <1>0, <1>1, SettlerKept
  <2> QED
    BY <1>0, <1>1, <2>1 DEF SettlersWhole
<1>2. CASE Refuse(r)
  BY <1>0, <1>1, <1>2, SettlementsTyped, SettlerRests DEF Refuse, DoneSettling, RunReturns
<1>3. CASE RefuseStage(r) \/ RefuseLock(r) \/ RefuseRetry(r) \/ RefuseReview(r)
           \/ JobConflict(r) \/ ApplyRetrieval(r) \/ RunLost(r)
  BY <1>2, <1>3
  DEF RefuseStage, RefuseLock, RefuseRetry, RefuseReview, JobConflict, ApplyRetrieval, RunLost
<1>4. CASE RuntimeFails(r) \/ ThinkFails(r)
  <2>1. Fails(r)
    BY <1>4 DEF RuntimeFails, ThinkFails
  <2>2. settling' = [settling EXCEPT ![r] = ToSettle("failed")] /\ Elsewhere
        /\ askRuns'[r].pc = "failing"
    BY <1>0, <2>1 DEF Fails, Goto, Locals
  <2>3. ToSettle("failed") \in Settlements /\ ToSettle("failed").at = "read"
        /\ ToSettle("failed").error = "failed"
    BY SettlementsTyped DEF Errors
  <2>4. Reason(r)' /\ Fresh(r)'
    BY <1>0, <2>2, <2>3 DEF Reason, Fresh
  <2> QED
    BY <1>1, <2>2, <2>3, <2>4
<1>5. CASE Recover(r)
  <2>1. settling' = [settling EXCEPT ![r] = Recovering] /\ Elsewhere /\ askRuns'[r].pc = "open"
    BY <1>5 DEF Recover, At
  <2>2. Reason(r)' /\ Fresh(r)'
    BY <1>0, <2>1, SettlementsTyped DEF Reason, Fresh
  <2> QED
    BY <1>1, <2>1, <2>2, SettlementsTyped
<1>6. ASSUME settling' = settling, Elsewhere, settling[r].at = "rest" PROVE SettlersWhole'
  BY <1>0, <1>6, SettlerKept DEF SettlersWhole, Settlers
<1>7. CASE Stage(r) \/ Lock(r) \/ Retry(r) \/ Reopen(r) \/ ReadTurn(r) \/ Decide(r)
           \/ Explore(r) \/ Apply(r) \/ CloseReview(r)
  <2>1. settling' = settling /\ settling[r].at = "rest"
    BY <1>7 DEF Stage, Lock, Retry, Reopen, ReadTurn, Decide, Explore, Apply, CloseReview, At
  <2>3. ASSUME Stage(r) \/ Lock(r) \/ Retry(r) \/ Reopen(r) PROVE Elsewhere
    BY <1>0, <2>3 DEF Stage, Lock, Retry, Reopen, Goto
  <2>4. ASSUME ReadTurn(r) \/ Explore(r) PROVE Elsewhere
    BY <1>0, <2>4 DEF ReadTurn, Explore
  <2>5. ASSUME Decide(r) PROVE Elsewhere
    BY <1>0, <2>5 DEF Decide
  <2>6. ASSUME Apply(r) \/ CloseReview(r) PROVE Elsewhere
    BY <1>0, <2>6 DEF Apply, CloseReview, Goto, RunReturns
  <2>2. Elsewhere
    BY <1>7, <2>3, <2>4, <2>5, <2>6
  <2> QED
    BY <1>6, <2>1, <2>2
<1>8. CASE Settles(r)
  BY <1>0, <1>8, SettlesKeepsSettlers
<1>9. CASE Finish(r)
  <2>1. settling[r].at = "rest"
    BY <1>0, <1>9 DEF Finish, AskInv, SettlersWhole, Reason
  <2>2. CASE inflight = r
    BY <1>6, <1>9, <2>1, <2>2 DEF Finish
  <2>3. CASE inflight # r
    <3>1. inflight \in AskRuns \cup {NoAskRun}
      BY DEF AskInv, RunsWhole, RunsTyped
    <3>2. /\ askRuns' = [DropRun(inflight) EXCEPT ![r] = Resting]
          /\ settling' = DropSettling(inflight)
      BY <1>9, <2>3 DEF Finish
    <3>3. settling' \in [Settlers -> Settlements]
      BY <3>1, <3>2, DropsSettle
    <3>4. ASSUME NEW x \in Settlers PROVE Reason(x)' /\ Fresh(x)'
      <4>1. CASE DropSettling(inflight)[x] = settling[x]
                 /\ (x \in AskRuns => DropRun(inflight)[x] = askRuns[x])
        <5>1. settling'[x] = settling[x]
          BY <3>2, <4>1
        <5>2. x \in AskRuns \ {r} => askRuns'[x] = askRuns[x]
          BY <3>2, <4>1
        <5> QED
          BY <2>1, <5>1, <5>2, SettlerKept
      <4>2. CASE /\ x = inflight /\ inflight \in AskRuns /\ DropRun(inflight)[x].pc = "dropped"
                 /\ DropSettling(inflight)[x] = ToSettle("user_cancelled")
        <5>1. askRuns'[x] = DropRun(inflight)[x] /\ settling'[x] = ToSettle("user_cancelled")
          BY <2>3, <3>2, <4>2
        <5> QED
          BY <4>2, <5>1, DropReason
      <4> QED
        BY <3>1, <4>1, <4>2, DropsSettle
    <3> QED
      BY <3>3, <3>4 DEF SettlersWhole
  <2> QED
    BY <2>2, <2>3
<1> QED
  BY <1>3, <1>4, <1>5, <1>7, <1>8, <1>9 DEF RunStep

LEMMA SettlersKept ==
  ASSUME AskInv, [AskNext]_askVars
  PROVE  SettlersWhole'
<1>0. /\ settling \in [Settlers -> Settlements] /\ {"stop", "view"} \subseteq Settlers
      /\ {"stop", "view"} \cap AskRuns = {}
  BY AskAssumption DEF AskInv, SettlersWhole, Settlers
<1>1. ASSUME NEW r \in AskRuns, RunStep(r) PROVE SettlersWhole'
  BY <1>1, RunStepKeepsSettlers
<1>2. ASSUME NEW r \in AskRuns, NEW c \in Commands, Begin(r, c) PROVE SettlersWhole'
  <2>1. settling[r].at = "rest"
    BY <1>2, FreeRests DEF Begin, AskInv, SettlersWhole, Reason, Settlers
  <2>2. settling' = settling /\ \A x \in AskRuns \ {r} : askRuns'[x] = askRuns[x]
    BY <1>2 DEF Begin
  <2> QED
    BY <1>0, <2>1, <2>2, SettlerKept DEF SettlersWhole
<1>3. CASE StopSignals
  <2>1. inflight \in AskRuns \cup {NoAskRun} /\ inflight \notin {"stop", "view"} \ {NoAskRun}
    BY <1>0 DEF AskInv, RunsWhole, RunsTyped
  <2>2. /\ askRuns' = DropRun(inflight)
        /\ settling' = [DropSettling(inflight) EXCEPT !["stop"] = ToSettle("user_cancelled")]
    BY <1>3 DEF StopSignals
  <2>3. ToSettle("user_cancelled") \in Settlements /\ ToSettle("user_cancelled").at = "read"
        /\ ToSettle("user_cancelled").error = "user_cancelled"
    BY SettlementsTyped DEF Errors
  <2>4. settling' \in [Settlers -> Settlements]
    BY <2>1, <2>2, <2>3, DropsSettle
  <2>5. Reason("stop")' /\ Fresh("stop")'
    <3>1. settling'["stop"] = ToSettle("user_cancelled")
      BY <1>0, <2>1, <2>2, DropsSettle
    <3> QED
      BY <1>0, <2>3, <3>1 DEF Reason, Fresh
  <2>6. ASSUME NEW x \in Settlers \ {"stop"} PROVE Reason(x)' /\ Fresh(x)'
    <3>1. settling'[x] = DropSettling(inflight)[x]
      BY <2>1, <2>2, <2>6, DropsSettle
    <3>2. CASE DropSettling(inflight)[x] = settling[x]
               /\ (x \in AskRuns => DropRun(inflight)[x] = askRuns[x])
      BY <2>2, <3>1, <3>2, SettlerKept
    <3>3. CASE /\ x = inflight /\ inflight \in AskRuns /\ DropRun(inflight)[x].pc = "dropped"
               /\ DropSettling(inflight)[x] = ToSettle("user_cancelled")
      BY <2>2, <3>1, <3>3, DropReason
    <3> QED
      BY <2>1, <3>2, <3>3, DropsSettle
  <2> QED
    BY <2>4, <2>5, <2>6 DEF SettlersWhole
<1>4. CASE Settles("stop") \/ Settles("view")
  BY <1>0, <1>4, SettlesKeepsSettlers
<1>5. CASE Latest
  <2>1. settling' = [settling EXCEPT !["view"] = Recovering] /\ askRuns' = askRuns
    BY <1>5 DEF Latest
  <2>2. settling' \in [Settlers -> Settlements]
    BY <1>0, <2>1, SettlementsTyped
  <2>3. Reason("view")' /\ Fresh("view")'
    BY <1>0, <2>1, SettlementsTyped DEF Reason, Fresh
  <2>4. ASSUME NEW x \in Settlers \ {"view"} PROVE Reason(x)' /\ Fresh(x)'
    BY <1>0, <2>1, SettlerKept
  <2> QED
    BY <2>2, <2>3, <2>4 DEF SettlersWhole
<1>6. CASE AskCrash
  <2>1. settling' = [x \in Settlers |-> Settled]
    BY <1>6 DEF AskCrash
  <2> QED
    BY <2>1, SettlementsTyped, SettlerRests DEF SettlersWhole
<1>7. CASE WatchMoves \/ ForgetMemos \/ DeleteAll \/ UNCHANGED askVars
  <2>1. UNCHANGED <<settling, askRuns>>
    BY <1>7 DEF WatchMoves, ForgetMemos, DeleteAll, tasks, askVars
  <2> QED
    BY <1>0, <2>1, SettlerKept DEF SettlersWhole
<1> QED
  BY <1>1, <1>2, <1>3, <1>4, <1>5, <1>6, <1>7 DEF AskNext

-----------------------------------------------------------------------------
(* Types. *)

LEMMA SessionTyped ==
  ASSUME AskTypeOK, RunsWhole, [AskNext]_askVars
  PROVE  session' \in SessionRows
<1>0. session \in SessionRows
  BY DEF AskTypeOK
<1>1. ASSUME NEW x \in Settlers, session' = Wrote(session, settling[x])
      PROVE  session' \in SessionRows
  BY <1>0, <1>1, WrittenRow DEF AskTypeOK
<1>2. CASE session' = Working(session)
  BY <1>0, <1>2, WorkingRow
<1>3. CASE session' = [Working(session) EXCEPT !.phase = "present", !.locked = TRUE,
                                               !.asking = FALSE]
  BY <1>0, <1>3, WorkingRow DEF SessionRows, Phases
<1>4. CASE session' = [Working(session) EXCEPT !.phase = "follow_up", !.locked = FALSE,
                                               !.asking = FALSE, !.presented = FALSE]
  BY <1>0, <1>4, WorkingRow DEF SessionRows, Phases
<1>5. ASSUME NEW r \in AskRuns, session' = AfterMove(askRuns[r].move), At(r, "apply"),
             askRuns[r].move # "retrieve"
      PROVE  session' \in SessionRows
  <2>1. askRuns[r].move \in {"ask", "consolidate", "present"}
    BY <1>5 DEF RunsWhole, RunsTyped, Locals, Moves
  <2>2. session.questions + 1 \in Nat
    BY <1>0 DEF SessionRows
  <2>3. AfterMove("ask") \in SessionRows
    <3>1. AfterMove("ask") =
            [session EXCEPT !.phase = "follow_up", !.status = "active", !.asking = TRUE,
                            !.error = "none", !.questions = session.questions + 1]
      BY DEF AfterMove
    <3> QED
      BY <1>0, <2>2, <3>1 DEF SessionRows, Phases, Statuses, Errors
  <2>4. AfterMove("consolidate") \in SessionRows
    BY <1>0 DEF AfterMove, SessionRows, Phases, Statuses, Errors
  <2>5. AfterMove("present") \in SessionRows
    BY <1>0 DEF AfterMove, SessionRows, Phases, Statuses, Errors
  <2>6. CASE askRuns[r].move = "ask"
    BY <1>5, <2>3, <2>6
  <2>7. CASE askRuns[r].move = "consolidate"
    BY <1>5, <2>4, <2>7
  <2>8. CASE askRuns[r].move = "present"
    BY <1>5, <2>5, <2>8
  <2> QED
    BY <2>1, <2>6, <2>7, <2>8
<1> QED
  BY <1>0, <1>1, <1>2, <1>3, <1>4, <1>5, SessionMoves DEF RowMoves

LEMMA AskNextTyped ==
  ASSUME AskInv, [AskNext]_askVars
  PROVE  AskTypeOK'
<1>0. AskTypeOK /\ RunsWhole
  BY DEF AskInv
<1>1. session' \in SessionRows
  BY <1>0, SessionTyped
<1>2. askRuns' \in [AskRuns -> Locals] /\ inflight' \in AskRuns \cup {NoAskRun}
  BY <1>0, RunsKept DEF RunsWhole, RunsTyped
<1>3. Packet \in Packets
  BY <1>0 DEF AskTypeOK, Packet, Packets, SessionRows
<1>7. settling' \in [Settlers -> Settlements]
  BY SettlersKept DEF SettlersWhole
<1>8. overtaken' \in BOOLEAN
  <2>1. ASSUME NEW x \in Settlers, overtaken' = (settling[x].status # Fallback(session))
        PROVE  overtaken' \in BOOLEAN
    BY <2>1
  <2> QED
    BY <1>0, <2>1, SessionMoves, Zenon DEF RowMoves, AskTypeOK
<1> DEFINE RowsTyped == /\ turn' \in Nat /\ replies' \in Nat /\ memo' \in Nat
                        /\ job' \in Packets \cup {NoJob}
                        /\ watch' \in {"none", "active", "review_ready", "over"}
<1>9. ASSUME NEW x \in Settlers, Settles(x) PROVE RowsTyped /\ UNCHANGED <<erased, troubled>>
  BY <1>0, <1>9 DEF AskTypeOK, Settles, SettleReads, SettleWrites, SettleJobs
<1>4. ASSUME NEW r \in AskRuns, RunStep(r) PROVE RowsTyped /\ UNCHANGED <<erased, troubled>>
  <2>1. askRuns[r] \in Locals /\ Held(askRuns[r])
    BY <1>0 DEF RunsWhole, RunsTyped
  <2>2. Explore(r) => askRuns[r].packet.turn \in Nat
    BY <1>0, <2>1 DEF Explore, At, Held, AskTypeOK
  <2>3. CASE Settles(r)
    BY <1>9, <2>3 DEF Settlers
  <2>4. CASE \/ Recover(r) \/ Stage(r) \/ RefuseStage(r) \/ Lock(r) \/ RefuseLock(r)
             \/ Retry(r) \/ RefuseRetry(r) \/ Reopen(r) \/ RefuseReview(r) \/ RunLost(r) \/ Finish(r)
    BY <1>0, <2>4
    DEF AskTypeOK, Recover, Stage, RefuseStage, Lock, RefuseLock, Retry, RefuseRetry, Reopen,
        RefuseReview, RunLost, Finish, Refuse, askRows
  <2>5. CASE \/ RuntimeFails(r) \/ ReadTurn(r) \/ JobConflict(r) \/ Decide(r) \/ ThinkFails(r)
             \/ Explore(r) \/ Apply(r) \/ ApplyRetrieval(r) \/ CloseReview(r)
    BY <1>0, <1>3, <2>2, <2>5
    DEF AskTypeOK, RuntimeFails, ReadTurn, JobConflict, Decide, ThinkFails, Explore, Apply,
        ApplyRetrieval, CloseReview, Refuse, Fails, JobSettled
  <2> QED
    BY <1>4, <2>3, <2>4, <2>5 DEF RunStep
<1>5. ASSUME NEW r \in AskRuns, NEW c \in Commands, Begin(r, c)
      PROVE  RowsTyped /\ UNCHANGED <<erased, troubled>>
  BY <1>0, <1>5 DEF Begin, askRows, AskTypeOK
<1>6. CASE \/ StopSignals \/ Latest \/ AskCrash \/ WatchMoves
           \/ ForgetMemos \/ DeleteAll \/ UNCHANGED askVars
  <2>1. RowsTyped /\ troubled' \in Nat /\ erased' \in {"no", "refused", "yes"}
    BY <1>0, <1>6
    DEF AskTypeOK, StopSignals, Latest, AskCrash, WatchMoves, ForgetMemos,
        DeleteAll, Trouble, askRows, askVars
  <2> QED
    BY <1>1, <1>2, <1>7, <1>8, <2>1 DEF AskTypeOK
<1>10. CASE UNCHANGED <<erased, troubled>> /\ RowsTyped
  BY <1>0, <1>1, <1>2, <1>7, <1>8, <1>10 DEF AskTypeOK
<1> HIDE DEF RowsTyped
<1> QED
  BY <1>4, <1>5, <1>6, <1>9, <1>10 DEF AskNext, Settlers

LEMMA AskStarts == AskInit => AskInv
<1> SUFFICES ASSUME AskInit PROVE AskInv
  OBVIOUS
<1>1. session \in SessionRows
  BY DEF AskInit, SessionRows, Phases, Statuses, Errors
<1>2. settling \in [Settlers -> Settlements] /\ \A x \in Settlers : settling[x].at = "rest"
  BY SettlementsTyped DEF AskInit
<1>3. SettlersWhole
  BY <1>2 DEF SettlersWhole, Reason, Fresh
<1> QED
  BY <1>1, <1>2, <1>3, RestingLocals
  DEF AskInit, AskInv, AskTypeOK, RunsWhole, RunsTyped, OneRunAlive, Held, Alive

LEMMA AskInvStep == AskInv /\ [AskNext]_askVars => AskInv'
<1> SUFFICES ASSUME AskInv, [AskNext]_askVars PROVE AskInv'
  OBVIOUS
<1> QED
  BY AskNextTyped, RunsKept, SettlersKept DEF AskInv

(* The columns, the map of runs in flight and what the runs hold keep their  *)
(* types, and at most one run is alive, whatever is stopped, dropped or      *)
(* removed from the map late.                                               *)
THEOREM AskTypeCorrect == AskSpec => [](AskTypeOK /\ OneRunAlive)
<1>1. AskInv => AskTypeOK /\ OneRunAlive
  BY DEF AskInv, RunsWhole
<1> QED
  BY <1>1, AskStarts, AskInvStep, PTL DEF AskSpec

-----------------------------------------------------------------------------
(* The session. *)

(* A session that neither works nor tells of an error waits for the user. *)
Waits ==
  session.error = "none" =>
    \/ session.status = "working"
    \/ session.status = "answered"
    \/ /\ session.status = "active"
       /\ \/ session.phase = "understand" /\ turn = 0
          \/ session.asking
          \/ session.phase = "consolidate"

SessionSound == SessionIsWhole /\ Waits /\ QuestionBudget

LEMMA SessionStaysSound ==
  ASSUME AskInv, SessionSound, [AskNext]_askVars
  PROVE  SessionSound'
<1>0. session \in SessionRows /\ turn \in Nat /\ MaxQuestions \in Nat /\ RunsWhole
  BY AskAssumption DEF AskInv, AskTypeOK
<1>1. CASE UNCHANGED <<session, turn, overtaken>>
  BY <1>1 DEF SessionSound, SessionIsWhole, Waits, QuestionBudget, Fallback
<1>2. ASSUME NEW x \in Settlers, settling[x].at = "write", session' = Wrote(session, settling[x]),
             overtaken' = (settling[x].status # Fallback(session))
      PROVE  SessionSound'
  <2>1. /\ settling[x] \in Settlements
        /\ settling[x].error \in {"failed", "user_cancelled", "interrupted"}
        /\ settling[x].error = "failed" => settling[x].status = Fallback(session)
    BY <1>2 DEF AskInv, SettlersWhole, Reason, Fresh, Settlers
  <2>2. /\ session'.status = settling[x].status /\ session'.error = settling[x].error
        /\ session'.phase = session.phase /\ session'.locked = session.locked
        /\ session'.asking = session.asking /\ session'.presented = session.presented
        /\ session'.questions = session.questions /\ Fallback(session') = Fallback(session)
    BY <1>0, <1>2, <2>1, WrittenRow
  <2>3. settling[x].status \in {"active", "locked"}
    BY <2>1 DEF Settlements
  <2>4. overtaken' => session'.error \in {"user_cancelled", "interrupted"}
    BY <1>2, <2>1, <2>2
  <2>5. ~overtaken' => session'.status = Fallback(session')
    BY <1>2, <2>2
  <2> QED
    BY <2>1, <2>2, <2>3, <2>4, <2>5 DEF SessionSound, SessionIsWhole, Waits, QuestionBudget
<1>3. CASE session' = Working(session) /\ overtaken' = FALSE
  BY <1>0, <1>3, WorkingRow
  DEF SessionSound, SessionIsWhole, Waits, QuestionBudget, SessionRows
<1>6. CASE /\ Confirmable(session) /\ overtaken' = FALSE
           /\ session' = [Working(session) EXCEPT !.phase = "present", !.locked = TRUE,
                                                  !.asking = FALSE]
  BY <1>0, <1>6, WorkingRow
  DEF SessionSound, SessionIsWhole, Waits, QuestionBudget, SessionRows, Confirmable
<1>7. CASE /\ overtaken' = FALSE
           /\ session' = [Working(session) EXCEPT !.phase = "follow_up", !.locked = FALSE,
                                                  !.asking = FALSE, !.presented = FALSE]
  BY <1>0, <1>7, WorkingRow
  DEF SessionSound, SessionIsWhole, Waits, QuestionBudget, SessionRows
<1>8. ASSUME NEW r \in AskRuns, At(r, "apply"), askRuns[r].move # "retrieve",
             session' = AfterMove(askRuns[r].move), overtaken' = FALSE
      PROVE  SessionSound'
  <2> DEFINE m == askRuns[r].move
  <2>1. m \in Legal(askRuns[r].packet) /\ askRuns[r].packet.phase = session.phase
        /\ askRuns[r].packet.questions = session.questions
    BY <1>0, <1>8 DEF RunsWhole, Held, At
  <2>2. CASE m = "ask"
    <3>1. session.phase # "present" /\ session.questions < MaxQuestions
      BY <2>1, <2>2 DEF Legal
    <3>2. /\ session'.phase = "follow_up" /\ session'.status = "active"
          /\ session'.asking /\ session'.questions = session.questions + 1
          /\ session'.locked = session.locked /\ session'.presented = session.presented
      BY <1>0, <1>8, <2>2 DEF AfterMove, SessionRows
    <3> QED
      BY <1>0, <1>8, <3>1, <3>2
      DEF SessionSound, SessionIsWhole, Waits, QuestionBudget, SessionRows, Fallback
  <2>3. CASE m = "consolidate"
    <3>1. session.phase # "present"
      BY <2>1, <2>3 DEF Legal
    <3>2. /\ session'.phase = "consolidate" /\ session'.status = "active"
          /\ session'.asking = FALSE /\ session'.questions = session.questions
          /\ session'.locked = session.locked /\ session'.presented = session.presented
      BY <1>0, <1>8, <2>3 DEF AfterMove, SessionRows
    <3> QED
      BY <1>0, <1>8, <3>1, <3>2
      DEF SessionSound, SessionIsWhole, Waits, QuestionBudget, SessionRows, Fallback
  <2>4. CASE m = "present"
    <3>1. session.phase = "present"
      BY <2>1, <2>4 DEF Legal
    <3>2. /\ session'.phase = "present" /\ session'.status = "answered"
          /\ session'.asking = FALSE /\ session'.questions = session.questions
          /\ session'.locked = session.locked /\ session'.presented = TRUE
      BY <1>0, <1>8, <2>4 DEF AfterMove, SessionRows
    <3> QED
      BY <1>0, <1>8, <3>1, <3>2
      DEF SessionSound, SessionIsWhole, Waits, QuestionBudget, SessionRows
  <2> QED
    BY <1>8, <2>1, <2>2, <2>3, <2>4 DEF Legal
<1> QED
  BY <1>1, <1>2, <1>3, <1>6, <1>7, <1>8, SessionMoves DEF RowMoves

LEMMA SessionStarts == AskInit => SessionSound
  BY AskAssumption
  DEF AskInit, SessionSound, SessionIsWhole, Waits, QuestionBudget, Fallback

LEMMA AskWhole == AskSpec => [](AskInv /\ SessionSound)
<1>1. AskInv /\ SessionSound /\ [AskNext]_askVars => (AskInv /\ SessionSound)'
  BY AskInvStep, SessionStaysSound
<1> QED
  BY <1>1, AskStarts, SessionStarts, PTL DEF AskSpec

(* However commands are stopped, replayed, recovered or reviewed, and        *)
(* whatever comes between the statement that reads the status to fall back   *)
(* to and the one that writes it, for any number of runs, turns, questions   *)
(* and troubles: no row is at odds with itself, but for the status that a    *)
(* stop or a recovery read before the lock was set or released.              *)
THEOREM NoRowAtOdds == AskSpec => []SessionIsWhole
<1>1. SessionSound => SessionIsWhole
  BY DEF SessionSound
<1> QED
  BY <1>1, AskWhole, PTL

(* A move is judged against the count its packet was read with and applied   *)
(* later; still the budget holds.                                           *)
THEOREM BudgetKept == AskSpec => []QuestionBudget
<1>1. SessionSound => QuestionBudget
  BY DEF SessionSound
<1> QED
  BY <1>1, AskWhole, PTL

(* Where nothing runs, the user can always go on. *)
THEOREM UserCanGoOn == AskSpec => []NeverStuck
<1>1. AskTypeOK /\ SessionSound => NeverStuck
  <2> SUFFICES ASSUME AskTypeOK, SessionSound, session.error = "none",
                      session.status # "working"
               PROVE  \/ \E event \in Events : Accepts(session, event)
                      \/ Confirmable(session)
    BY DEF NeverStuck
  <2>0. /\ session \in SessionRows /\ SessionIsWhole /\ ~overtaken
        /\ {"initial_problem", "answer", "revise"} \subseteq Events
    BY DEF AskTypeOK, SessionSound, SessionIsWhole, Events
  <2>1. CASE session.status = "answered"
    <3>1. Accepts(session, "revise")
      BY <2>0, <2>1 DEF SessionIsWhole, SessionRows, Accepts
    <3> QED
      BY <2>0, <3>1
  <2>2. CASE session.status = "active" /\ session.phase = "understand" /\ turn = 0
    <3>1. Accepts(session, "initial_problem")
      BY <2>0, <2>2 DEF SessionIsWhole, SessionRows, Accepts
    <3> QED
      BY <2>0, <3>1
  <2>3. CASE session.status = "active" /\ session.asking
    <3>1. Accepts(session, "answer")
      BY <2>0, <2>3 DEF SessionIsWhole, SessionRows, Accepts
    <3> QED
      BY <2>0, <3>1
  <2>4. CASE session.status = "active" /\ session.phase = "consolidate"
    BY <2>0, <2>4 DEF SessionIsWhole, Confirmable
  <2> QED
    BY <2>1, <2>2, <2>3, <2>4 DEF SessionSound, Waits
<1>2. AskInv => AskTypeOK
  BY DEF AskInv
<1> QED
  BY <1>1, <1>2, AskWhole, PTL

-----------------------------------------------------------------------------

(* A memo on file was gathered for the last turn the user staged, though the *)
(* explorer writes it long after it was told which turn that is.            *)
THEOREM MemosAreOfTheirTurn == AskSpec => []MemoIsOfThisTurn
<1> DEFINE I == AskInv /\ MemoIsOfThisTurn
<1>1. AskInit => I
  BY AskStarts DEF AskInit, MemoIsOfThisTurn
<1>2. I /\ [AskNext]_askVars => I'
  <2> SUFFICES ASSUME I, [AskNext]_askVars PROVE MemoIsOfThisTurn'
    BY AskInvStep
  <2>1. ASSUME NEW r \in AskRuns, RunStep(r) PROVE MemoIsOfThisTurn'
    <3>1. Explore(r) => memo' = turn /\ turn' = turn
      BY DEF AskInv, RunsWhole, Held, Explore, At
    <3> QED
      BY <2>1, <3>1
      DEF MemoIsOfThisTurn, RunStep, Recover, Stage, RefuseStage, Lock, RefuseLock, Retry,
          RefuseRetry, Reopen, RefuseReview, RuntimeFails, ReadTurn, JobConflict, Decide,
          ThinkFails, Apply, ApplyRetrieval, CloseReview, Settles, RunLost,
          Finish, Refuse, Fails, askRows
  <2>2. ASSUME NEW r \in AskRuns, NEW c \in Commands, Begin(r, c) PROVE MemoIsOfThisTurn'
    BY <2>2 DEF Begin, askRows, MemoIsOfThisTurn
  <2>3. CASE \/ StopSignals \/ Settles("stop") \/ Settles("view") \/ Latest \/ AskCrash
             \/ WatchMoves \/ ForgetMemos \/ DeleteAll \/ UNCHANGED askVars
    BY <2>3
    DEF MemoIsOfThisTurn, StopSignals, Settles, Latest, AskCrash, WatchMoves,
        ForgetMemos, DeleteAll, askRows, askVars
  <2> QED
    BY <2>1, <2>2, <2>3 DEF AskNext
<1>3. I => MemoIsOfThisTurn
  OBVIOUS
<1> QED
  BY <1>1, <1>2, <1>3, PTL DEF AskSpec

-----------------------------------------------------------------------------
(* The watches (AskWatches). *)

(* What is admitted after the baseline of a watch and up to c was shown to   *)
(* it, or is among those shown.                                             *)
Covers(w, c, shown) ==
  \A n \in Observed : watches[w].baseline < n /\ n =< c => n \in offered[w] \cup shown

Awake(w) == w \in Watches /\ watches[w].state # "none"

(* A cursor is never past what is admitted, and what it passed was shown;    *)
(* so it is with the cursors a round has read, which may be older or newer,  *)
(* and with the window the round holds.                                     *)
CursorsCover ==
  \A w \in Watches : /\ watches[w].baseline =< admitted /\ watches[w].cursor =< admitted
                     /\ Awake(w) => Covers(w, watches[w].cursor, {})

RoundCovers ==
  \A t \in collector.todo : /\ Awake(t.watch) /\ t.from =< admitted
                            /\ Covers(t.watch, t.from, {})

WindowCovers ==
  collector.at # NoWatch =>
    /\ Awake(collector.at) /\ collector.shown # {}
    /\ Covers(collector.at, EndOf(collector.shown), collector.shown)

Starts == \A w \in starting : watches[w].state = "none"

Answering == collector.answered => collector.at # NoWatch

WatchInv ==
  WatchTypeOK /\ Starts /\ Answering /\ CursorsCover /\ RoundCovers /\ WindowCovers

-----------------------------------------------------------------------------

LEMMA WatchBounds ==
  /\ Capacity \in Nat /\ WindowSize \in Nat /\ LookBack \in Nat
  /\ MaxAdmitted \in Nat /\ MaxUpsets \in Nat /\ WindowSize > 0 /\ NoWatch \notin Watches
<1>1. {Capacity, WindowSize, LookBack, MaxAdmitted, MaxUpsets} \subseteq Nat
  BY WatchAssumption
<1> QED
  BY <1>1, WatchAssumption

(* A set of observations that is not empty has its latest. *)
LEMMA LatestIsThere ==
  ASSUME admitted \in Nat, NEW S \in SUBSET Observed, S # {}
  PROVE  LatestOf(S) \in S /\ \A k \in S : k =< LatestOf(S)
<1> DEFINE left == {admitted - n : n \in S}
<1>1. left \in SUBSET Nat /\ left # {}
  BY DEF Observed
<1>2. PICK x \in left : \A y \in left : x =< y
  BY <1>1, LeastExists
<1>3. PICK n \in S : x = admitted - n
  OBVIOUS
<1>4. ASSUME NEW k \in S PROVE k =< n
  <2>1. admitted - n =< admitted - k
    BY <1>2, <1>3
  <2> QED
    BY <2>1 DEF Observed
<1>5. \E m \in S : \A k \in S : k =< m
  BY <1>4
<1> QED
  BY <1>5 DEF LatestOf

(* The window after a cursor leaves no gap: what is admitted between the     *)
(* cursor and the last one shown is shown.                                  *)
LEMMA FollowingHasNoGap ==
  ASSUME admitted \in Nat, NEW from \in Int, Following(from) # {}
  PROVE  /\ EndOf(Following(from)) \in Observed
         /\ \A n \in Observed : from < n /\ n =< EndOf(Following(from)) => n \in Following(from)
<1> DEFINE last == EndOf(Following(from))
<1>1. last \in Following(from)
  BY LatestIsThere DEF EndOf, Following
<1>2. last \in Observed
  BY <1>1 DEF Following
<1>3. ASSUME NEW n \in Observed, from < n, n =< last PROVE n \in Following(from)
  <2> DEFINE before(m) == {k \in Observed : from < k /\ k < m}
  <2>1. before(n) \in SUBSET before(last)
    BY <1>2, <1>3 DEF Observed
  <2>2. IsFiniteSet(before(last)) /\ IsFiniteSet(before(n))
    <3>1. IsFiniteSet(Observed)
      BY FS_Interval DEF Observed
    <3>2. before(last) \in SUBSET Observed /\ before(n) \in SUBSET Observed
      OBVIOUS
    <3> HIDE DEF before
    <3> QED
      BY <3>1, <3>2, FS_Subset
  <2>3. Cardinality(before(last)) < WindowSize
    BY <1>1 DEF Following
  <2>4. /\ Cardinality(before(n)) =< Cardinality(before(last))
        /\ Cardinality(before(n)) \in Nat /\ Cardinality(before(last)) \in Nat
    <3> HIDE DEF before
    <3> QED
      BY <2>1, <2>2, FS_Subset, FS_CardinalityType
  <2>5. Cardinality(before(n)) < WindowSize
    BY <2>3, <2>4, WatchBounds
  <2> QED
    BY <1>3, <2>5 DEF Following
<1> QED
  BY <1>2, <1>3

-----------------------------------------------------------------------------
LEMMA WatchInitHolds == WatchInit => WatchInv
<1> SUFFICES ASSUME WatchInit PROVE WatchInv
  OBVIOUS
<1>1. WatchTypeOK
  BY WatchBounds DEF WatchInit, WatchTypeOK, WatchStates, Observed, Idling
<1>2. Starts /\ Answering /\ RoundCovers /\ WindowCovers
  BY DEF WatchInit, Starts, Answering, RoundCovers, WindowCovers, Idling
<1>3. CursorsCover
  BY DEF WatchInit, CursorsCover, Awake
<1> QED
  BY <1>1, <1>2, <1>3 DEF WatchInv

WatchRow == [state : WatchStates, baseline : Nat, cursor : Int, rechecked : BOOLEAN]

Collector ==
  [todo : SUBSET [watch : Watches, from : Int], at : Watches \cup {NoWatch},
   shown : SUBSET Observed, found : SUBSET Observed,
   supporting : SUBSET Observed, rejected : SUBSET Observed,
   checked : SUBSET Observed, ready : BOOLEAN, answered : BOOLEAN]

(* The types, action by action. *)
LEMMA RowTaken ==
  ASSUME WatchTypeOK, NEW w \in Watches, NEW row \in WatchRow,
         watches' = [watches EXCEPT ![w] = row]
  PROVE  watches' \in [Watches -> WatchRow]
  BY DEF WatchTypeOK, WatchRow

LEMMA IdlingIsTyped ==
  ASSUME WatchTypeOK, NEW todo \in SUBSET [watch : Watches, from : Int]
  PROVE  Idling \in Collector /\ [Idling EXCEPT !.todo = todo] \in Collector
  BY DEF Idling, Collector

LEMMA WatchTypeStep == WatchInv /\ [WatchNext]_watchVars => WatchTypeOK'
<1> SUFFICES ASSUME WatchInv, [WatchNext]_watchVars PROVE WatchTypeOK'
  OBVIOUS
<1>0. WatchTypeOK /\ admitted \in Nat
  BY DEF WatchInv, WatchTypeOK
<1>1. CASE CollectBegins \/ CollectAnswers \/ CollectFails \/ WatchCrash
           \/ \E t \in collector.todo : CollectNothingNew(t) \/ CollectAsks(t)
  <2>1. /\ UNCHANGED <<admitted, usable, watches, dossier, offered>>
        /\ starting' \in {starting, {}} /\ reviewing' \in {reviewing, {}}
    BY <1>1
    DEF CollectBegins, CollectAnswers, CollectFails, WatchCrash, CollectNothingNew, CollectAsks
  <2>2. upsets' = upsets \/ Upset
    BY <1>1
    DEF CollectBegins, CollectAnswers, CollectFails, WatchCrash, CollectNothingNew, CollectAsks
  <2>3. upsets' \in 0..MaxUpsets
    BY <1>0, <2>2, WatchBounds DEF Upset, WatchTypeOK
  <2>4. collector \in Collector /\ collector.todo \in SUBSET [watch : Watches, from : Int]
    BY <1>0 DEF Collector, WatchTypeOK
  <2>5. collector' \in Collector
    <3>1. CASE CollectBegins
      <4> DEFINE todo == {[watch |-> w, from |-> watches[w].cursor] :
                            w \in {v \in Watches : watches[v].state = "active"}}
      <4>1. todo \in SUBSET [watch : Watches, from : Int]
        BY <1>0 DEF WatchTypeOK
      <4>2. collector' = [Idling EXCEPT !.todo = todo]
        BY <3>1 DEF CollectBegins
      <4> HIDE DEF todo
      <4> QED
        BY <1>0, <4>1, <4>2, IdlingIsTyped
    <3>2. CASE CollectAnswers
      <4>1. PICK supporting \in SUBSET collector.found :
              \E rejected \in SUBSET (collector.found \ supporting) :
              \E checked \in SUBSET (usable \cap (supporting \cup rejected)) :
              \E decides \in BOOLEAN :
                /\ Cardinality(checked) =< 1
                /\ checked \cap rejected # {} => supporting \cap usable = {}
                /\ collector' = [collector EXCEPT
                     !.supporting = supporting, !.rejected = rejected,
                     !.checked = checked, !.found = {}, !.ready = decides /\ supporting # {},
                     !.answered = TRUE]
        BY <3>2 DEF CollectAnswers
      <4>2. PICK rejected \in SUBSET (collector.found \ supporting) :
              \E checked \in SUBSET (usable \cap (supporting \cup rejected)) :
              \E decides \in BOOLEAN :
                /\ Cardinality(checked) =< 1
                /\ checked \cap rejected # {} => supporting \cap usable = {}
                /\ collector' = [collector EXCEPT
                     !.supporting = supporting, !.rejected = rejected,
                     !.checked = checked, !.found = {}, !.ready = decides /\ supporting # {},
                     !.answered = TRUE]
        BY <4>1
      <4>3. PICK checked \in SUBSET (usable \cap (supporting \cup rejected)), decides \in BOOLEAN :
                /\ Cardinality(checked) =< 1
                /\ checked \cap rejected # {} => supporting \cap usable = {}
                /\ collector' = [collector EXCEPT
                     !.supporting = supporting, !.rejected = rejected,
                     !.checked = checked, !.found = {}, !.ready = decides /\ supporting # {},
                     !.answered = TRUE]
        BY <4>2
      <4>4. PICK ready \in BOOLEAN : ready = (decides /\ supporting # {})
        BY Zenon
      <4>5. collector.found \subseteq Observed
        BY <2>4 DEF Collector
      <4> QED
        BY <2>4, <4>3, <4>4, <4>5 DEF Collector
    <3>3. CASE CollectFails \/ WatchCrash
      BY <1>0, <3>3, IdlingIsTyped DEF CollectFails, WatchCrash
    <3>4. ASSUME NEW t \in collector.todo, CollectNothingNew(t)
          PROVE  collector' \in Collector
      BY <1>0, <2>4, <3>4, IdlingIsTyped DEF CollectNothingNew, RestOf
    <3>5. ASSUME NEW t \in collector.todo, CollectAsks(t)
          PROVE  collector' \in Collector
      <4>1. PICK found \in SUBSET Following(t.from) :
              collector' = [RestOf(t) EXCEPT !.at = t.watch, !.found = found,
                                             !.shown = Following(t.from)]
        BY <3>5 DEF CollectAsks
      <4>2. RestOf(t) \in Collector
        BY <1>0, <2>4, IdlingIsTyped DEF RestOf
      <4>3. Following(t.from) \subseteq Observed /\ t.watch \in Watches
        BY <2>4 DEF Following
      <4> QED
        BY <4>1, <4>2, <4>3 DEF Collector
    <3> QED
      BY <1>1, <3>1, <3>2, <3>3, <3>4, <3>5
  <2> QED
    BY <1>0, <2>1, <2>3, <2>5 DEF WatchTypeOK, Collector, Observed
<1>2. ASSUME NEW t \in collector.todo, CollectNoCandidate(t) PROVE WatchTypeOK'
  <2>1. t.watch \in Watches /\ t.from \in Int
    BY <1>0 DEF WatchTypeOK
  <2>2. EndOf(Following(t.from)) \in Int
    BY <1>0, <1>2, <2>1, FollowingHasNoGap DEF CollectNoCandidate, Observed
  <2>3. Following(t.from) \subseteq Observed
    BY DEF Following
  <2>4. watches' \in [Watches -> [state : WatchStates, baseline : Nat,
                                  cursor : Int, rechecked : BOOLEAN]]
    BY <1>0, <1>2, <2>1, <2>2 DEF CollectNoCandidate, WatchTypeOK
  <2>5. offered' \in [Watches -> SUBSET Observed]
    BY <1>0, <1>2, <2>1, <2>3 DEF CollectNoCandidate, WatchTypeOK
  <2> QED
    BY <1>0, <1>2, <2>4, <2>5 DEF CollectNoCandidate, RestOf, Idling, WatchTypeOK, Observed
<1>3. CASE CollectWrites
  <2>1. collector.at \in Watches /\ collector.shown # {} /\ collector.shown \in SUBSET Observed
    BY <1>0, <1>3 DEF CollectWrites, WatchInv, Answering, WindowCovers, WatchTypeOK
  <2>2. EndOf(collector.shown) \in Int
    BY <1>0, <2>1, LatestIsThere DEF EndOf, Observed
  <2>3. watches' \in [Watches -> [state : WatchStates, baseline : Nat,
                                  cursor : Int, rechecked : BOOLEAN]]
    <3> DEFINE old == watches[collector.at]
               row == [old EXCEPT !.state = IF collector.ready THEN "review_ready" ELSE @,
                                  !.cursor = EndOf(collector.shown)]
    <3>1. old \in WatchRow
      BY <1>0, <2>1 DEF WatchTypeOK, WatchRow
    <3>2. row \in WatchRow
      BY <2>2, <3>1 DEF WatchRow, WatchStates
    <3>3. watches' = [watches EXCEPT ![collector.at] = row]
      BY <1>3 DEF CollectWrites
    <3> HIDE DEF row
    <3> QED
      BY <1>0, <2>1, <3>2, <3>3, RowTaken DEF WatchRow
  <2>4. offered' \in [Watches -> SUBSET Observed]
    BY <1>0, <1>3, <2>1 DEF CollectWrites, WatchTypeOK
  <2>5. dossier' \in [Watches -> [supporting : SUBSET Observed, rejected : SUBSET Observed]]
    BY <1>0, <1>3, <2>1 DEF CollectWrites, WatchTypeOK
  <2> QED
    BY <1>0, <1>3, <2>3, <2>4, <2>5 DEF CollectWrites, Idling, WatchTypeOK, Observed
<1>4. ASSUME NEW w \in Watches,
             StartCounts(w) \/ StartInserts(w) \/ StopWatch(w) \/ Guide(w)
               \/ ReviewBegins(w) \/ ReviewEnds(w)
      PROVE  WatchTypeOK'
  <2>1. watches' \in [Watches -> [state : WatchStates, baseline : Nat,
                                  cursor : Int, rechecked : BOOLEAN]]
    <3>1. watches[w] \in WatchRow
      BY <1>0 DEF WatchTypeOK, WatchRow
    <3>2. [watches[w] EXCEPT !.baseline = admitted] \in WatchRow
      BY <1>0, <3>1 DEF WatchRow
    <3>3. PICK c \in Int : c = watches[w].baseline
      BY <3>1 DEF WatchRow
    <3>4. PICK d \in Int : d = watches[w].baseline - LookBack
      BY <3>1, WatchBounds DEF WatchRow
    <3>5. \A state \in WatchStates : [watches[w] EXCEPT !.state = state] \in WatchRow
      BY <3>1 DEF WatchRow
    <3>6. CASE StartCounts(w)
      BY <1>0, <3>2, <3>6, RowTaken DEF StartCounts, WatchRow
    <3>7. CASE StartInserts(w)
      <4>1. watches' = [watches EXCEPT ![w].state = "active", ![w].cursor = c]
        BY <3>3, <3>7 DEF StartInserts
      <4> DEFINE row == [watches[w] EXCEPT !.state = "active", !.cursor = c]
      <4>2. row \in WatchRow
        BY <3>1 DEF WatchRow, WatchStates
      <4>3. watches' = [watches EXCEPT ![w] = row]
        BY <4>1
      <4> HIDE DEF row
      <4> QED
        BY <1>0, <4>2, <4>3, RowTaken DEF WatchRow
    <3>8. CASE Guide(w)
      <4>1. watches' = [watches EXCEPT ![w].rechecked = TRUE, ![w].cursor = d]
        BY <3>4, <3>8 DEF Guide
      <4> DEFINE row == [watches[w] EXCEPT !.rechecked = TRUE, !.cursor = d]
      <4>2. row \in WatchRow
        BY <3>1 DEF WatchRow
      <4>3. watches' = [watches EXCEPT ![w] = row]
        BY <4>1
      <4> HIDE DEF row
      <4> QED
        BY <1>0, <4>2, <4>3, RowTaken DEF WatchRow
    <3>9. ASSUME NEW state \in WatchStates, SetState(w, state)
          PROVE  watches' \in [Watches -> WatchRow]
      BY <1>0, <3>5, <3>9, RowTaken DEF SetState
    <3>10. CASE StopWatch(w) \/ ReviewBegins(w) \/ ReviewEnds(w)
      <4>1. watches' = watches \/ \E state \in WatchStates : SetState(w, state)
        BY <3>10 DEF StopWatch, ReviewBegins, ReviewEnds, WatchStates
      <4> QED
        BY <1>0, <3>9, <4>1 DEF WatchTypeOK, WatchRow
    <3> QED
      BY <1>4, <3>6, <3>7, <3>8, <3>10 DEF WatchRow
  <2>2. UNCHANGED <<admitted, usable, dossier, collector, offered, upsets>>
    BY <1>4 DEF StartCounts, StartInserts, StopWatch, Guide, ReviewBegins, ReviewEnds
  <2>3. starting' \subseteq Watches /\ reviewing' \subseteq Watches
    BY <1>0, <1>4
    DEF StartCounts, StartInserts, StopWatch, Guide, ReviewBegins, ReviewEnds, WatchTypeOK
  <2> QED
    BY <1>0, <2>1, <2>2, <2>3 DEF WatchTypeOK, Observed
<1>5. CASE Observe
  <2>1. Observed \subseteq Observed' /\ admitted + 1 \in Observed'
    BY <1>0, <1>5 DEF Observe, Observed
  <2>2. admitted' \in 0..MaxAdmitted /\ usable' \subseteq Observed'
    BY <1>0, <1>5, <2>1, WatchBounds DEF Observe, WatchTypeOK
  <2>3. UNCHANGED <<watches, dossier, starting, reviewing, collector, offered, upsets>>
    BY <1>5 DEF Observe
  <2> HIDE DEF Observed
  <2>4. /\ dossier \in [Watches -> [supporting : SUBSET Observed', rejected : SUBSET Observed']]
        /\ offered \in [Watches -> SUBSET Observed']
    BY <1>0, <2>1 DEF WatchTypeOK
  <2>5. collector \in
          [todo : SUBSET [watch : Watches, from : Int], at : Watches \cup {NoWatch},
           shown : SUBSET Observed', found : SUBSET Observed',
           supporting : SUBSET Observed', rejected : SUBSET Observed',
           checked : SUBSET Observed', ready : BOOLEAN, answered : BOOLEAN]
    BY <1>0, <2>1 DEF WatchTypeOK
  <2> QED
    BY <1>0, <2>2, <2>3, <2>4, <2>5 DEF WatchTypeOK
<1>6. ASSUME NEW e \in Observed, ExcludeEvidence(e) \/ ForgetEvidence(e) PROVE WatchTypeOK'
  <2>1. watches' \in [Watches -> [state : WatchStates, baseline : Nat,
                                  cursor : Int, rechecked : BOOLEAN]]
    <3>1. \A w \in Watches : watches[w] \in WatchRow
      BY <1>0 DEF WatchTypeOK, WatchRow
    <3>2. \A row \in WatchRow : [row EXCEPT !.state = AfterForgetting(@)] \in WatchRow
      BY DEF AfterForgetting, ReadyAgain, WatchRow, WatchStates
    <3>3. CASE ExcludeEvidence(e)
      BY <1>0, <3>3 DEF ExcludeEvidence, WatchTypeOK
    <3>4. CASE ForgetEvidence(e)
      <4>1. watches' \in [Watches -> WatchRow]
        BY <3>1, <3>2, <3>4 DEF ForgetEvidence
      <4> QED
        BY <4>1 DEF WatchRow
    <3> QED
      BY <1>6, <3>3, <3>4
  <2>2. dossier' \in [Watches -> [supporting : SUBSET Observed, rejected : SUBSET Observed]]
    BY <1>0, <1>6 DEF ExcludeEvidence, ForgetEvidence, WatchTypeOK
  <2>3. /\ UNCHANGED <<admitted, starting, reviewing, collector, offered>>
        /\ upsets' \in 0..MaxUpsets /\ usable' \subseteq Observed
    BY <1>0, <1>6, WatchBounds DEF ExcludeEvidence, ForgetEvidence, Upset, WatchTypeOK
  <2> QED
    BY <1>0, <2>1, <2>2, <2>3 DEF WatchTypeOK, Observed
<1>7. CASE UNCHANGED watchVars
  BY <1>0, <1>7 DEF watchVars, WatchTypeOK, Observed
<1> QED
  BY <1>1, <1>2, <1>3, <1>4, <1>5, <1>6, <1>7 DEF WatchNext, CollectStep

(* A watch that is awake stays so, its baseline stays where it is, and what  *)
(* it was shown stays shown.                                                *)
Onwards ==
  /\ admitted' \in {admitted, admitted + 1}
  /\ \A w \in Watches : Awake(w) => /\ Awake(w)'
                                    /\ watches'[w].baseline = watches[w].baseline
                                    /\ offered[w] \subseteq offered'[w]

LEMMA CoversHolds ==
  ASSUME WatchInv, Onwards
  PROVE  \A w \in Watches, c \in Int, shown \in SUBSET Int :
           Awake(w) /\ c =< admitted /\ Covers(w, c, shown) => Covers(w, c, shown)'
  BY DEF Covers, Onwards, WatchInv, WatchTypeOK, Observed

(* The rest of a round is covered, and so is a window that stays. *)
LEMMA RoundHolds ==
  ASSUME WatchInv, Onwards, collector'.todo \subseteq collector.todo
  PROVE  RoundCovers'
<1> SUFFICES ASSUME NEW t \in collector.todo
             PROVE  Awake(t.watch)' /\ t.from =< admitted' /\ Covers(t.watch, t.from, {})'
  BY DEF RoundCovers
<1>1. t.watch \in Watches /\ t.from \in Int /\ admitted \in Nat
  BY DEF WatchInv, WatchTypeOK
<1>2. Awake(t.watch) /\ t.from =< admitted /\ Covers(t.watch, t.from, {})
  BY DEF WatchInv, RoundCovers
<1>3. Awake(t.watch)' /\ t.from =< admitted'
  BY <1>1, <1>2 DEF Onwards
<1>4. Covers(t.watch, t.from, {})'
  BY <1>1, <1>2, CoversHolds
<1> QED
  BY <1>3, <1>4

LEMMA WindowHolds ==
  ASSUME WatchInv, Onwards, collector'.at = collector.at, collector'.shown = collector.shown
  PROVE  WindowCovers'
<1> SUFFICES ASSUME collector.at # NoWatch
             PROVE  /\ Awake(collector.at)' /\ collector.shown # {}
                    /\ Covers(collector.at, EndOf(collector.shown), collector.shown)'
  BY DEF WindowCovers, EndOf, LatestOf
<1>1. /\ collector.at \in Watches /\ collector.shown \in SUBSET Observed /\ admitted \in Nat
      /\ Awake(collector.at) /\ collector.shown # {}
      /\ Covers(collector.at, EndOf(collector.shown), collector.shown)
  BY DEF WatchInv, WatchTypeOK, WindowCovers
<1>2. EndOf(collector.shown) \in Observed
  BY <1>1, LatestIsThere DEF EndOf
<1>3. PICK w \in Watches, c \in Observed, shown \in SUBSET Observed :
        w = collector.at /\ c = EndOf(collector.shown) /\ shown = collector.shown
  BY <1>1, <1>2
<1>4. c \in Int /\ c =< admitted /\ shown \in SUBSET Int
  BY <1>1 DEF Observed
<1>5. Covers(w, c, shown)' /\ Awake(w)'
  BY <1>1, <1>3, <1>4, CoversHolds DEF Onwards
<1> QED
  BY <1>1, <1>3, <1>5 DEF Covers, EndOf, LatestOf, Awake

LEMMA OnwardsStep == WatchInv /\ [WatchNext]_watchVars => Onwards
<1> SUFFICES ASSUME WatchInv, [WatchNext]_watchVars PROVE Onwards
  OBVIOUS
<1>0. WatchTypeOK /\ admitted \in Nat
  BY DEF WatchInv, WatchTypeOK
<1>1. CASE UNCHANGED <<admitted, watches, offered>>
  BY <1>1 DEF Onwards, Awake
<1>2. CASE Observe
  BY <1>2 DEF Observe, Onwards, Awake
<1>3. ASSUME NEW w \in Watches,
             StartCounts(w) \/ StartInserts(w) \/ StopWatch(w) \/ Guide(w) \/ ReviewEnds(w)
      PROVE  Onwards
  <2>1. UNCHANGED <<admitted, offered>>
    BY <1>3 DEF StartCounts, StartInserts, StopWatch, Guide, ReviewEnds
  <2>2. \A v \in Watches : Awake(v) => Awake(v)' /\ watches'[v].baseline = watches[v].baseline
    BY <1>0, <1>3
    DEF StartCounts, StartInserts, StopWatch, Guide, ReviewEnds, SetState, WatchInv, Starts,
        Awake, WatchTypeOK
  <2> QED
    BY <2>1, <2>2 DEF Onwards
<1>4. ASSUME NEW e \in Observed, ForgetEvidence(e) PROVE Onwards
  BY <1>0, <1>4 DEF ForgetEvidence, AfterForgetting, ReadyAgain, Onwards, Awake, WatchTypeOK
<1>5. ASSUME NEW t \in collector.todo, CollectNoCandidate(t) PROVE Onwards
  BY <1>0, <1>5 DEF CollectNoCandidate, Onwards, Awake, WatchTypeOK
<1>6. CASE CollectWrites
  BY <1>0, <1>6 DEF CollectWrites, Onwards, Awake, WatchTypeOK
<1>7. ASSUME \/ CollectBegins \/ CollectAnswers \/ CollectFails \/ WatchCrash
             \/ \E t \in collector.todo : CollectNothingNew(t) \/ CollectAsks(t)
             \/ \E w \in Watches : ReviewBegins(w)
             \/ \E e \in Observed : ExcludeEvidence(e)
             \/ UNCHANGED watchVars
      PROVE  UNCHANGED <<admitted, watches, offered>>
  BY <1>7 DEF CollectBegins, CollectAnswers, CollectFails, WatchCrash, CollectNothingNew,
              CollectAsks, ReviewBegins, ExcludeEvidence, watchVars
<1> QED
  BY <1>1, <1>2, <1>3, <1>4, <1>5, <1>6, <1>7 DEF WatchNext, CollectStep

LEMMA StartsStep == WatchInv /\ [WatchNext]_watchVars => Starts'
<1> SUFFICES ASSUME WatchInv, [WatchNext]_watchVars PROVE Starts'
  OBVIOUS
<1>0. WatchTypeOK /\ Starts
  BY DEF WatchInv
<1>1. ASSUME starting' \subseteq starting, UNCHANGED watches PROVE Starts'
  BY <1>0, <1>1 DEF Starts
<1>2. ASSUME NEW w \in Watches,
             StartCounts(w) \/ StartInserts(w) \/ StopWatch(w) \/ Guide(w) \/ ReviewEnds(w)
      PROVE  Starts'
  BY <1>0, <1>2
  DEF StartCounts, StartInserts, StopWatch, Guide, ReviewEnds, SetState, OpenWatches,
      Starts, WatchTypeOK
<1>3. ASSUME NEW e \in Observed, ForgetEvidence(e) PROVE Starts'
  BY <1>0, <1>3 DEF ForgetEvidence, AfterForgetting, ReadyAgain, Starts, WatchTypeOK
<1>4. ASSUME NEW t \in collector.todo, CollectNoCandidate(t) PROVE Starts'
  <2>1. t.watch \in Watches
    BY <1>0 DEF WatchTypeOK
  <2>2. watches' = [watches EXCEPT ![t.watch].cursor = EndOf(Following(t.from))] /\ starting' = starting
    BY <1>4 DEF CollectNoCandidate
  <2> QED
    BY <1>0, <2>1, <2>2 DEF Starts, WatchTypeOK
<1>5. CASE CollectWrites
  <2>1. Awake(collector.at)
    BY <1>5 DEF CollectWrites, WatchInv, Answering, WindowCovers
  <2>2. starting' = starting /\ \A w \in Watches : w # collector.at => watches'[w] = watches[w]
    BY <1>0, <1>5 DEF CollectWrites, WatchTypeOK
  <2> QED
    BY <1>0, <2>1, <2>2 DEF Starts, Awake, WatchTypeOK
<1>6. ASSUME \/ CollectBegins \/ CollectAnswers \/ CollectFails \/ WatchCrash \/ Observe
             \/ \E t \in collector.todo : CollectNothingNew(t) \/ CollectAsks(t)
             \/ \E w \in Watches : ReviewBegins(w)
             \/ \E e \in Observed : ExcludeEvidence(e)
             \/ UNCHANGED watchVars
      PROVE  starting' \subseteq starting /\ UNCHANGED watches
  BY <1>6 DEF CollectBegins, CollectAnswers, CollectFails, WatchCrash, CollectNothingNew,
              CollectAsks, ReviewBegins, ExcludeEvidence, Observe, watchVars
<1> QED
  BY <1>1, <1>2, <1>3, <1>4, <1>5, <1>6 DEF WatchNext, CollectStep

(* A cursor that stays where it is. *)
LEMMA CursorHolds ==
  ASSUME WatchInv, Onwards, NEW w \in Watches,
         watches'[w].cursor = watches[w].cursor, watches'[w].baseline = watches[w].baseline,
         Awake(w)' => Awake(w)
  PROVE  /\ watches'[w].baseline =< admitted' /\ watches'[w].cursor =< admitted'
         /\ Awake(w)' => Covers(w, watches[w].cursor, {})'
<1>1. admitted \in Nat /\ watches[w].cursor \in Int /\ watches[w].baseline \in Nat
  BY DEF WatchInv, WatchTypeOK
<1>2. /\ watches[w].baseline =< admitted /\ watches[w].cursor =< admitted
      /\ Awake(w) => Covers(w, watches[w].cursor, {})
  BY DEF WatchInv, CursorsCover
<1>3. watches'[w].baseline =< admitted' /\ watches'[w].cursor =< admitted'
  BY <1>1, <1>2 DEF Onwards
<1>4. Awake(w) => Covers(w, watches[w].cursor, {})'
  BY <1>1, <1>2, CoversHolds
<1> QED
  BY <1>3, <1>4

LEMMA CursorsStep ==
  ASSUME WatchInv, Onwards, [WatchNext]_watchVars
  PROVE  CursorsCover'
<1>0. WatchTypeOK /\ admitted \in Nat /\ CursorsCover
  BY DEF WatchInv, WatchTypeOK
<1> SUFFICES ASSUME NEW w \in Watches
             PROVE  /\ watches'[w].baseline =< admitted' /\ watches'[w].cursor =< admitted'
                    /\ Awake(w)' => Covers(w, watches[w].cursor, {})'
  BY DEF CursorsCover, Covers
<1>1. watches[w].baseline \in Nat /\ watches[w].cursor \in Int
  BY <1>0 DEF WatchTypeOK
<1>2. CASE StartCounts(w)
  <2>1. /\ admitted' = admitted /\ ~Awake(w)'
        /\ watches'[w].baseline = admitted /\ watches'[w].cursor = watches[w].cursor
    BY <1>0, <1>2 DEF StartCounts, Awake, WatchTypeOK
  <2> QED
    BY <1>0, <2>1 DEF CursorsCover
<1>3. CASE StartInserts(w) \/ Guide(w)
  <2>1. /\ admitted' = admitted /\ watches'[w].baseline = watches[w].baseline
        /\ watches'[w].cursor \in {watches[w].baseline, watches[w].baseline - LookBack}
    BY <1>0, <1>3 DEF StartInserts, Guide, WatchTypeOK
  <2>2. watches'[w].cursor \in Int /\ watches'[w].cursor =< watches'[w].baseline
    BY <1>1, <2>1, WatchBounds
  <2> QED
    BY <1>0, <1>1, <2>1, <2>2 DEF CursorsCover, Covers, Observed
<1>4. ASSUME NEW t \in collector.todo, CollectNoCandidate(t), w = t.watch
      PROVE  /\ watches'[w].baseline =< admitted' /\ watches'[w].cursor =< admitted'
             /\ Awake(w)' => Covers(w, watches[w].cursor, {})'
  <2>1. t.from \in Int /\ Covers(w, t.from, {})
    BY <1>0, <1>4 DEF WatchTypeOK, WatchInv, RoundCovers
  <2>2. PICK last \in Observed :
          /\ last = EndOf(Following(t.from))
          /\ \A n \in Observed : t.from < n /\ n =< last => n \in Following(t.from)
    BY <1>0, <1>4, <2>1, FollowingHasNoGap DEF CollectNoCandidate
  <2>3. /\ watches'[w].cursor = last /\ watches'[w].baseline = watches[w].baseline
        /\ offered'[w] = offered[w] \cup Following(t.from) /\ admitted' = admitted
    BY <1>0, <1>4, <2>2 DEF CollectNoCandidate, WatchTypeOK
  <2> QED
    BY <1>0, <1>1, <2>1, <2>2, <2>3 DEF CursorsCover, Covers, Observed
<1>5. CASE CollectWrites /\ w = collector.at
  <2>1. /\ collector.shown \in SUBSET Observed /\ collector.shown # {}
        /\ Covers(w, EndOf(collector.shown), collector.shown)
    BY <1>0, <1>5 DEF CollectWrites, WatchTypeOK, WatchInv, Answering, WindowCovers
  <2>2. PICK last \in Observed : last = EndOf(collector.shown)
    BY <1>0, <2>1, LatestIsThere DEF EndOf
  <2>3. /\ watches'[w].cursor = last /\ watches'[w].baseline = watches[w].baseline
        /\ offered'[w] = offered[w] \cup collector.shown /\ admitted' = admitted
    BY <1>0, <1>5, <2>2 DEF CollectWrites, WatchTypeOK
  <2> QED
    BY <1>0, <1>1, <2>1, <2>2, <2>3 DEF CursorsCover, Covers, Observed
<1> DEFINE Same == /\ watches'[w].cursor = watches[w].cursor
                   /\ watches'[w].baseline = watches[w].baseline
                   /\ Awake(w)' => Awake(w)
<1>6. ASSUME Same
      PROVE  /\ watches'[w].baseline =< admitted' /\ watches'[w].cursor =< admitted'
             /\ Awake(w)' => Covers(w, watches[w].cursor, {})'
  BY <1>6, CursorHolds
<1>7. ASSUME NEW v \in Watches, StopWatch(v) \/ ReviewEnds(v) PROVE Same
  <2>1. ASSUME NEW state, watches[v].state # "none", SetState(v, state) PROVE Same
    BY <1>0, <2>1 DEF SetState, Awake, WatchTypeOK
  <2> QED
    BY <1>7, <2>1 DEF StopWatch, ReviewEnds, OpenWatches, Awake
<1>8. ASSUME NEW v \in Watches, v # w, StartCounts(v) \/ StartInserts(v) \/ Guide(v)
      PROVE  Same
  BY <1>0, <1>8 DEF StartCounts, StartInserts, Guide, Awake, WatchTypeOK
<1>9. ASSUME NEW e \in Observed, ForgetEvidence(e) PROVE Same
  BY <1>0, <1>9 DEF ForgetEvidence, AfterForgetting, ReadyAgain, Awake, WatchTypeOK
<1>10. ASSUME NEW t \in collector.todo, CollectNoCandidate(t), w # t.watch PROVE Same
  BY <1>0, <1>10 DEF CollectNoCandidate, Awake, WatchTypeOK
<1>11. ASSUME CollectWrites, w # collector.at PROVE Same
  BY <1>0, <1>11 DEF CollectWrites, Awake, WatchTypeOK
<1>12. ASSUME \/ CollectBegins \/ CollectAnswers \/ CollectFails \/ WatchCrash \/ Observe
              \/ \E t \in collector.todo : CollectNothingNew(t) \/ CollectAsks(t)
              \/ \E v \in Watches : ReviewBegins(v)
              \/ \E e \in Observed : ExcludeEvidence(e)
              \/ UNCHANGED watchVars
       PROVE  Same
  <2>1. UNCHANGED watches
    BY <1>12 DEF CollectBegins, CollectAnswers, CollectFails, WatchCrash, Observe,
                 CollectNothingNew, CollectAsks, ReviewBegins, ExcludeEvidence, watchVars
  <2> QED
    BY <2>1 DEF Awake
<1> HIDE DEF Same
<1>13. ASSUME NEW v \in Watches, StartCounts(v) \/ StartInserts(v) \/ Guide(v)
       PROVE  /\ watches'[w].baseline =< admitted' /\ watches'[w].cursor =< admitted'
              /\ Awake(w)' => Covers(w, watches[w].cursor, {})'
  <2>1. CASE v = w
    BY <1>2, <1>3, <1>13, <2>1
  <2>2. CASE v # w
    BY <1>6, <1>8, <1>13, <2>2
  <2> QED
    BY <2>1, <2>2
<1> QED
  BY <1>4, <1>5, <1>6, <1>7, <1>9, <1>10, <1>11, <1>12, <1>13 DEF WatchNext, CollectStep

(* A round begins with cursors that cover, and only gets shorter; the window *)
(* it takes up follows a cursor that covers.                                *)
LEMMA RoundStep ==
  ASSUME WatchInv, Onwards, [WatchNext]_watchVars
  PROVE  RoundCovers' /\ WindowCovers' /\ Answering'
<1>0. WatchTypeOK /\ admitted \in Nat /\ CursorsCover /\ RoundCovers /\ Answering
  BY DEF WatchInv, WatchTypeOK
<1>1. ASSUME collector' = collector PROVE RoundCovers' /\ WindowCovers' /\ Answering'
  BY <1>0, <1>1, RoundHolds, WindowHolds DEF Answering
<1>2. ASSUME collector'.todo \subseteq collector.todo, collector'.at = NoWatch, ~collector'.answered
      PROVE  RoundCovers' /\ WindowCovers' /\ Answering'
  BY <1>2, RoundHolds DEF WindowCovers, Answering
<1>3. CASE CollectBegins
  <2>1. /\ UNCHANGED <<admitted, watches, offered>>
        /\ collector'.at = NoWatch /\ ~collector'.answered
        /\ \A t \in collector'.todo : \E w \in Watches :
              t.watch = w /\ t.from = watches[w].cursor /\ watches[w].state = "active"
    BY <1>3 DEF CollectBegins, Idling
  <2>2. RoundCovers'
    BY <1>0, <2>1 DEF RoundCovers, CursorsCover, Covers, Awake, Observed
  <2> QED
    BY <2>1, <2>2 DEF WindowCovers, Answering
<1>4. CASE CollectAnswers
  <2>1. collector.at # NoWatch /\ collector'.at = collector.at /\ collector'.shown = collector.shown
        /\ collector'.todo = collector.todo
    BY <1>0, <1>4 DEF CollectAnswers, WatchTypeOK
  <2> QED
    BY <2>1, RoundHolds, WindowHolds DEF Answering
<1>5. CASE CollectFails \/ CollectWrites \/ WatchCrash
  <2>1. collector'.todo \subseteq collector.todo /\ collector'.at = NoWatch /\ ~collector'.answered
    BY <1>5 DEF CollectFails, CollectWrites, WatchCrash, Idling
  <2> QED
    BY <1>2, <2>1
<1>6. ASSUME NEW t \in collector.todo, CollectNothingNew(t) \/ CollectNoCandidate(t)
      PROVE  RoundCovers' /\ WindowCovers' /\ Answering'
  <2>1. collector'.todo \subseteq collector.todo /\ collector'.at = NoWatch /\ ~collector'.answered
    BY <1>6 DEF CollectNothingNew, CollectNoCandidate, RestOf, Idling
  <2> QED
    BY <1>2, <2>1
<1>7. ASSUME NEW t \in collector.todo, CollectAsks(t)
      PROVE  RoundCovers' /\ WindowCovers' /\ Answering'
  <2>1. /\ UNCHANGED <<admitted, watches, offered>> /\ Following(t.from) # {}
        /\ collector'.at = t.watch /\ collector'.shown = Following(t.from)
        /\ ~collector'.answered /\ collector'.todo \subseteq collector.todo
    <3>1. PICK found \in (SUBSET Following(t.from)) \ {{}} :
            collector' = [RestOf(t) EXCEPT !.at = t.watch, !.found = found,
                                           !.shown = Following(t.from)]
      BY <1>7 DEF CollectAsks
    <3>2. Following(t.from) # {}
      BY <3>1
    <3>3. UNCHANGED <<admitted, watches, offered>>
      BY <1>7 DEF CollectAsks
    <3> QED
      BY <3>1, <3>2, <3>3 DEF RestOf, Idling
  <2>2. t.from \in Int /\ Awake(t.watch) /\ Covers(t.watch, t.from, {})
    BY <1>0 DEF WatchTypeOK, RoundCovers
  <2>3. PICK last \in Observed :
          /\ last = EndOf(Following(t.from))
          /\ \A n \in Observed : t.from < n /\ n =< last => n \in Following(t.from)
    BY <1>0, <2>1, <2>2, FollowingHasNoGap
  <2>4. EndOf(collector'.shown) = last
    BY <2>1, <2>3
  <2>5. Covers(t.watch, last, Following(t.from))
    BY <1>0, <2>2, <2>3 DEF Covers, Awake, WatchTypeOK, Observed
  <2>6. Covers(collector.at, EndOf(collector.shown), collector.shown)'
    BY <2>1, <2>4, <2>5 DEF Covers, EndOf, LatestOf, Observed
  <2>7. WindowCovers'
    BY <2>1, <2>2, <2>6 DEF WindowCovers, Awake
  <2> QED
    BY <2>1, <2>7, RoundHolds DEF Answering
<1>8. ASSUME NEW w \in Watches,
             \/ StartCounts(w) \/ StartInserts(w) \/ StopWatch(w)
             \/ Guide(w) \/ ReviewBegins(w) \/ ReviewEnds(w)
      PROVE  collector' = collector
  BY <1>8 DEF StartCounts, StartInserts, StopWatch, Guide, ReviewBegins, ReviewEnds
<1>9. ASSUME \/ Observe \/ UNCHANGED watchVars
             \/ \E e \in Observed : ExcludeEvidence(e) \/ ForgetEvidence(e)
      PROVE  collector' = collector
  BY <1>9 DEF Observe, ExcludeEvidence, ForgetEvidence, watchVars
<1> QED
  BY <1>1, <1>3, <1>4, <1>5, <1>6, <1>7, <1>8, <1>9 DEF WatchNext, CollectStep

LEMMA WatchInvStep == WatchInv /\ [WatchNext]_watchVars => WatchInv'
<1> SUFFICES ASSUME WatchInv, [WatchNext]_watchVars PROVE WatchInv'
  OBVIOUS
<1>1. Onwards
  BY OnwardsStep
<1> QED
  BY <1>1, WatchTypeStep, StartsStep, CursorsStep, RoundStep DEF WatchInv

LEMMA WatchInvHolds == WatchSpec => []WatchInv
<1>1. WatchInit => WatchInv
  BY WatchInitHolds
<1>2. WatchInv /\ [WatchNext]_watchVars => WatchInv'
  BY WatchInvStep
<1> QED
  BY <1>1, <1>2, PTL DEF WatchSpec

THEOREM WatchesTypeCorrect == WatchSpec => []WatchTypeOK
<1>1. WatchInv => WatchTypeOK
  BY DEF WatchInv
<1> QED
  BY <1>1, WatchInvHolds, PTL

(* Every observation between the baseline of a watch and its cursor was      *)
(* shown to it, although guidance moves the cursor back under a round that   *)
(* has read it, the cursor moves to the end of the window whatever it is by  *)
(* then, and rounds fail or are cut off by a crash.                         *)
THEOREM WatchesMissNothing == WatchSpec => []NothingUnwatched
<1>1. WatchInv => NothingUnwatched
  <2> SUFFICES ASSUME WatchInv, NEW w \in Watches, watches[w].state # "none",
                      NEW n \in Observed, watches[w].baseline < n, n =< watches[w].cursor
               PROVE  n \in offered[w]
    BY DEF NothingUnwatched
  <2>1. Covers(w, watches[w].cursor, {})
    BY DEF WatchInv, CursorsCover, Awake
  <2> QED
    BY <2>1 DEF Covers
<1> QED
  BY <1>1, WatchInvHolds, PTL

(* Nothing takes an ended watch up again but the evaluation that was under   *)
(* way when it ended.  A start that has counted is of a watch that does not  *)
(* exist yet, so it cannot revive one.                                      *)
THEOREM EndedWatchesStayEnded == WatchSpec => EndedStaysEnded
<1> DEFINE Ended == \A w \in Watches :
             watches[w].state \in {"stopped", "dismissed"} =>
               \/ watches'[w].state = watches[w].state
               \/ collector.at = w /\ collector.ready
<1>1. WatchInv /\ [WatchNext]_watchVars => [Ended]_watchVars
  <2> SUFFICES ASSUME WatchInv, [WatchNext]_watchVars, NEW w \in Watches,
                      watches[w].state \in {"stopped", "dismissed"}
               PROVE  \/ watches'[w].state = watches[w].state
                      \/ collector.at = w /\ collector.ready
    OBVIOUS
  <2>0. WatchTypeOK /\ w \notin starting
    BY DEF WatchInv, Starts
  <2>1. CASE UNCHANGED watches
    BY <2>1
  <2>2. ASSUME NEW v \in Watches,
               StartCounts(v) \/ StartInserts(v) \/ StopWatch(v) \/ Guide(v) \/ ReviewEnds(v)
        PROVE  watches'[w].state = watches[w].state
    BY <2>0, <2>2
    DEF StartCounts, StartInserts, StopWatch, Guide, ReviewEnds, SetState, OpenWatches, WatchTypeOK
  <2>3. ASSUME NEW e \in Observed, ForgetEvidence(e) PROVE watches'[w].state = watches[w].state
    BY <2>0, <2>3 DEF ForgetEvidence, AfterForgetting, ReadyAgain, WatchTypeOK
  <2>4. ASSUME NEW t \in collector.todo, CollectNoCandidate(t)
        PROVE  watches'[w].state = watches[w].state
    BY <2>0, <2>4 DEF CollectNoCandidate, WatchTypeOK
  <2>5. CASE CollectWrites
    BY <2>0, <2>5 DEF CollectWrites, WatchTypeOK
  <2> QED
    BY <2>1, <2>2, <2>3, <2>4, <2>5
    DEF WatchNext, CollectStep, CollectBegins, CollectAnswers, CollectFails, WatchCrash,
        CollectNothingNew, CollectAsks, ReviewBegins, ExcludeEvidence, Observe, watchVars
<1> QED
  BY <1>1, WatchInvHolds, PTL DEF WatchSpec, EndedStaysEnded
=============================================================================
