----------------------------- MODULE AgentMailbox -----------------------------
(***************************************************************************)
(* The teammate agent (apps/dystil/src-tauri/src/agent_mailbox.rs and      *)
(* agent_worker.rs): requests of teammates wait in the cloud; the worker   *)
(* fetches those after its cursor, keeps them in agent_messages, and       *)
(* answers the oldest that are open, one after another.  A command fetches *)
(* as well.  The WebSocket only says when to fetch; between two fetches    *)
(* nothing of it matters, so that it does not appear here.                 *)
(***************************************************************************)
EXTENDS Integers, FiniteSets, FiniteSetsExt

CONSTANTS
  MaxRequests,     \* bound: requests sent
  PageLimit,       \* requests in one page of the cloud's answer, 100 in the code
  TakeLimit,       \* requests taken up after one fetch, 10 in the code
  MailTroubles,    \* which kinds of trouble happen
  MaxMailTroubles  \* bound: how often

ASSUME MailboxAssumption ==
  /\ {PageLimit, TakeLimit} \subseteq Nat \ {0} /\ {MaxRequests, MaxMailTroubles} \subseteq Nat
  /\ MailTroubles \subseteq {"disconnect", "storage", "interrupt", "wipe", "crash"}

Messages == 1 .. MaxRequests
Fetchers == {"worker", "command"}

VARIABLES
  sent,        \* the cloud: requests 1 to sent, in the order of sequence_id
  answered,    \* the cloud: the requests a response or an error has come for
  mailCursor,  \* agent_mailbox_state
  local,       \* agent_messages: local_status of each request, "none" without a row
  wiped,       \* history: the requests whose rows the user has deleted
  fetch,       \* the fetches at work: the cursor each has read
  pc,          \* where the worker is
  queue,       \* the requests it has still to take up, the current one included
  mailTroubles

mailboxVars == <<sent, answered, mailCursor, local, wiped, fetch, pc, queue, mailTroubles>>

NoFetch == -1

MailboxInit ==
  /\ sent = 0 /\ answered = {} /\ mailCursor = 0
  /\ local = [r \in Messages |-> "none"] /\ wiped = {}
  /\ fetch = [f \in Fetchers |-> NoFetch]
  /\ pc = "idle" /\ queue = {} /\ mailTroubles = 0

MailTrouble(kind) ==
  /\ kind \in MailTroubles /\ mailTroubles < MaxMailTroubles /\ mailTroubles' = mailTroubles + 1

(* UPDATE agent_messages: of a row that is there. *)
SetLocal(r, status) ==
  local' = IF local[r] = "none" THEN local ELSE [local EXCEPT ![r] = status]

Current == Min(queue)

Ask ==
  /\ sent < MaxRequests /\ sent' = sent + 1
  /\ UNCHANGED <<answered, mailCursor, local, wiped, fetch, pc, queue, mailTroubles>>

-----------------------------------------------------------------------------
(* sync *)

ReadCursor(f) ==
  /\ fetch[f] = NoFetch /\ (f = "worker" => pc = "idle")
  /\ fetch' = [fetch EXCEPT ![f] = mailCursor]
  /\ UNCHANGED <<sent, answered, mailCursor, local, wiped, pc, queue, mailTroubles>>

(* next_cursor of the cloud's answer to a fetch. *)
NextCursor(after) == Min({after + PageLimit, Max({after, sent})})

FetchedAfter(after) == after + 1 .. NextCursor(after)

(* One transaction keeps what came, unless it is there, and the cursor.  A   *)
(* fetch that was overtaken sets the cursor back.                           *)
Keep(f) ==
  /\ fetch[f] # NoFetch
  /\ local' = [r \in Messages |-> IF r \in FetchedAfter(fetch[f]) /\ local[r] = "none"
                                  THEN "received" ELSE local[r]]
  /\ mailCursor' = NextCursor(fetch[f])
  /\ fetch' = [fetch EXCEPT ![f] = NoFetch]
  /\ pc' = IF f = "worker" THEN "pending" ELSE pc
  /\ UNCHANGED <<sent, answered, wiped, queue, mailTroubles>>

(* The cursor is kept although the messages are not. *)
FetchFailsAhead(f) ==
  /\ fetch[f] # NoFetch /\ (MailTrouble("disconnect") \/ MailTrouble("storage"))
  /\ fetch' = [fetch EXCEPT ![f] = NoFetch] /\ mailCursor' = NextCursor(fetch[f])
  /\ UNCHANGED <<sent, answered, local, wiped, pc, queue>>

FetchFails(f) ==
  /\ fetch[f] # NoFetch /\ (MailTrouble("disconnect") \/ MailTrouble("storage"))
  /\ fetch' = [fetch EXCEPT ![f] = NoFetch]
  /\ UNCHANGED <<sent, answered, mailCursor, local, wiped, pc, queue>>

-----------------------------------------------------------------------------
(* The worker. *)

(* Only what was never taken up. *)
OpenFresh == {r \in Messages : local[r] = "received"}

Open == {r \in Messages : local[r] \in {"received", "interrupted"}}

(* pending_requests: the oldest ones. *)
Pending ==
  /\ pc = "pending"
  /\ queue' = {r \in Open : Cardinality({o \in Open : o < r}) < TakeLimit}
  /\ pc' = "next"
  /\ UNCHANGED <<sent, answered, mailCursor, local, wiped, fetch, mailTroubles>>

Take ==
  /\ pc = "next"
  /\ IF queue = {} THEN pc' = "idle" /\ UNCHANGED local
     ELSE pc' = "send" /\ SetLocal(Current, "processing")
  /\ UNCHANGED <<sent, answered, mailCursor, wiped, fetch, queue, mailTroubles>>

(* After the messages about its progress: the answer, or an error when there *)
(* is no provider or it fails.                                              *)
Reply ==
  /\ pc = "send"
  /\ answered' = answered \cup {Current} /\ pc' = "persist"
  /\ UNCHANGED <<sent, mailCursor, local, wiped, fetch, queue, mailTroubles>>

Persist ==
  /\ pc = "persist" /\ pc' = "record"
  /\ UNCHANGED <<sent, answered, mailCursor, local, wiped, fetch, queue, mailTroubles>>

Record ==
  /\ pc = "record"
  /\ SetLocal(Current, "responded") /\ queue' = queue \ {Current} /\ pc' = "next"
  /\ UNCHANGED <<sent, answered, mailCursor, wiped, fetch, mailTroubles>>

(* A message does not get through, or its receipt does not come back, or a   *)
(* statement fails.                                                         *)
StepFails ==
  /\ pc \in {"send", "persist", "record"} /\ pc' = "interrupt"
  /\ \/ /\ pc = "send" /\ MailTrouble("disconnect")
        /\ answered' \in {answered, answered \cup {Current}}
     \/ MailTrouble("storage") /\ UNCHANGED answered
  /\ UNCHANGED <<sent, mailCursor, local, wiped, fetch, queue>>

Interrupt ==
  /\ pc = "interrupt"
  /\ SetLocal(Current, "interrupted") /\ queue' = queue \ {Current} /\ pc' = "next"
  /\ UNCHANGED <<sent, answered, mailCursor, wiped, fetch, mailTroubles>>

(* Nobody looks whether this was recorded. *)
InterruptFails ==
  /\ pc = "interrupt" /\ MailTrouble("interrupt")
  /\ queue' = queue \ {Current} /\ pc' = "next"
  /\ UNCHANGED <<sent, answered, mailCursor, local, wiped, fetch>>

WorkerStep ==
  ReadCursor("worker") \/ Keep("worker") \/ Pending \/ Take \/ Reply \/ Persist \/ Record
    \/ Interrupt

-----------------------------------------------------------------------------
(* Delete everything leaves the cursor as it is. *)
Wipe ==
  /\ MailTrouble("wipe")
  /\ wiped' = wiped \cup {r \in Messages : local[r] # "none"}
  /\ local' = [r \in Messages |-> "none"]
  /\ UNCHANGED <<sent, answered, mailCursor, fetch, pc, queue>>

(* A request that was processing stays so. *)
WorkerCrash ==
  /\ MailTrouble("crash")
  /\ fetch' = [f \in Fetchers |-> NoFetch] /\ pc' = "idle" /\ queue' = {}
  /\ UNCHANGED <<sent, answered, mailCursor, local, wiped>>

MailboxNext ==
  \/ Ask
  \/ \E f \in Fetchers : ReadCursor(f) \/ Keep(f) \/ FetchFails(f)
  \/ Pending \/ Take \/ Reply \/ Persist \/ Record \/ StepFails \/ Interrupt \/ InterruptFails
  \/ Wipe
  \/ WorkerCrash

MailboxSpec == MailboxInit /\ [][MailboxNext]_mailboxVars

(* The worker connects again for as long as the app runs, and fetches at     *)
(* every connection and every minute.                                       *)
MailboxFairSpec == MailboxSpec /\ WF_mailboxVars(WorkerStep)

-----------------------------------------------------------------------------
(* Properties. *)

(* agent_worker.rs:3: "a disconnect can delay but cannot lose a mailbox      *)
(* message": what the cursor has passed is kept or was deleted by the user,  *)
(* and what counts as responded was answered, whichever fetch came first.   *)
NoRequestIsLost ==
  /\ \A r \in 1 .. mailCursor : local[r] # "none" \/ r \in wiped
  /\ \A r \in Messages : local[r] = "responded" => r \in answered

(* The row reads processing and the worker has done with it, because the app *)
(* ended or the write of the interruption failed: no fetch takes it up.      *)
Forsaken == {r \in Messages : local[r] = "processing" /\ r \notin queue}

(* Whenever the requests come to rest, all are answered in the end, through  *)
(* disconnects, failing statements, deletions and restarts; but for those    *)
(* that the user deleted and those that were forsaken.                      *)
EveryRequestAnswered == []<>((1 .. sent) \ (wiped \cup Forsaken) \subseteq answered)
=============================================================================
