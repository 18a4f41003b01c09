----------------------------- MODULE SegmentSync -----------------------------
(***************************************************************************)
(* How captured rows reach the cloud (crates/dystil-sync/src).  A pass     *)
(* gathers the rows behind its cursors into segments, keeps the closed     *)
(* ones and rebuilds the open one (sync.rs, segmenter.rs), stores segments *)
(* and cursors in one transaction (state.rs), uploads the closed segments  *)
(* in chunks, clears what only the upload needed from the accepted frames, *)
(* and acknowledges.  The engine runs one pass at a time                   *)
(* (crates/dystil-engine/src/lib.rs) and is aborted when sync is no longer *)
(* permitted (work_insights_engine.rs).                                    *)
(*                                                                         *)
(* A row is its stream, its id and its time.  Where a segment ends is a    *)
(* choice: inactivity, duration and size decide it in the code.  Evidence  *)
(* filters, the look-back floor, hashes and the policy are left out.       *)
(***************************************************************************)
EXTENDS Integers, Sequences, FiniteSets, FiniteSetsExt

CONSTANTS
  SettleLag,      \* screen_settle_lag_secs
  ChunkSize,      \* MAX_SEGMENTS_PER_UPLOAD
  MaxRows,        \* bound: rows captured
  MaxTime,        \* bound: the clock
  MaxMishaps      \* bound: lost answers, refusals, aborts, lost state files

ASSUME SegmentAssumption ==
  /\ {SettleLag, MaxRows, MaxTime, MaxMishaps} \subseteq Nat
  /\ ChunkSize \in Nat \ {0}

Streams == {"frames", "inputs"}

VARIABLES
  clock,
  captured,     \* of each stream, the times of its rows in the order of their ids
  syncState,    \* the row of sync_state
  pending,      \* the rows of segments
  cloud,        \* the segments the cloud has
  bare,         \* frames whose structural JSON was cleared
  pass,         \* where the pass is, the segments it has still to upload, the
                \*   chunk that was accepted
  blind,        \* history: a cold start went without an answer of the cloud
  mishaps

segmentVars == <<clock, captured, syncState, pending, cloud, bare, pass, blind, mishaps>>

NewState == [cursor |-> [s \in Streams |-> 0], next |-> 1, last |-> 0]
NoPass  == [pc |-> "idle", todo |-> {}, accepted |-> {}]

SegmentInit ==
  /\ clock = 0 /\ captured = [s \in Streams |-> <<>>]
  /\ syncState = NewState /\ pending = {}
  /\ cloud = {} /\ bare = {} /\ pass = NoPass /\ blind = FALSE /\ mishaps = 0

Mishap == mishaps < MaxMishaps /\ mishaps' = mishaps + 1

Items == UNION {{<<s, i>> : i \in DOMAIN captured[s]} : s \in Streams}
TimeOf(item) == captured[item[1]][item[2]]

(* A row is stored, at most one step of the clock after its time. *)
Capture(s) ==
  /\ Cardinality(Items) < MaxRows
  /\ \E time \in {clock, clock - 1} \cap Nat :
       captured' = [captured EXCEPT ![s] = Append(@, time)]
  /\ UNCHANGED <<clock, syncState, pending, cloud, bare, pass, blind, mishaps>>

TimePasses ==
  /\ clock < MaxTime /\ clock' = clock + 1
  /\ UNCHANGED <<captured, syncState, pending, cloud, bare, pass, blind, mishaps>>

-----------------------------------------------------------------------------
(* Gathering. *)

Sequences(segments) == {segment.seq : segment \in segments}
LastSent == IF cloud = {} THEN 0 ELSE Max(Sequences(cloud))

Cold == syncState.next = 1 /\ \A s \in Streams : syncState.cursor[s] = 0

(* What a pass starts from: a cold start continues the device's numbers in  *)
(* the cloud, and where the cloud does not answer it starts anew.           *)
Numbered(answered) ==
  IF Cold /\ answered /\ cloud # {}
  THEN [syncState EXCEPT !.next = LastSent + 1, !.last = LastSent] ELSE syncState

Cutoff(s) == IF s = "frames" THEN clock - SettleLag ELSE clock

(* The rows behind the cursor that have settled. *)
Read(s) == {<<s, i>> : i \in {j \in DOMAIN captured[s] :
                                j > syncState.cursor[s] /\ captured[s][j] =< Cutoff(s)}}

(* The cursor of a stream goes to the last row stored. *)
CursorToNewest(s) == Len(captured[s])

(* recompute_cursor: the highest id read. *)
CursorAfter(s) == Max({item[2] : item \in Read(s)} \cup {syncState.cursor[s]})

Earlier(x, y) ==
  \/ TimeOf(x) < TimeOf(y)
  \/ TimeOf(x) = TimeOf(y) /\ x[1] = "frames" /\ y[1] # "frames"
  \/ TimeOf(x) = TimeOf(y) /\ x[1] = y[1] /\ x[2] < y[2]

(* Every pending segment is taken apart again. *)
AnySegment(segments) == segments

(* What is rebuilt: the segments that are not closed. *)
Mutable(segments) == {segment \in segments : ~segment.stable}

(* ORDER BY device_sequence *)
First(segments) ==
  CHOOSE segment \in segments : \A other \in segments : segment.seq =< other.seq

(* The items in time order fall into count groups, each at least one item.   *)
Groupings(items, count) ==
  {group \in [items -> 1 .. count] :
     /\ \A n \in 1 .. count : \E item \in items : group[item] = n
     /\ \A x, y \in items : Earlier(x, y) => group[x] =< group[y]}

(* build_segments: a segment for each group.  All but the last are closed;   *)
(* the last may be.                                                        *)
Built(group, count, first, previous, closes) ==
  {[seq    |-> first + n - 1,
    prev   |-> IF n = 1 THEN previous ELSE first + n - 2,
    items  |-> {item \in DOMAIN group : group[item] = n},
    stable |-> n < count \/ closes] : n \in 1 .. count}

(* One transaction replaces the segments and moves the cursors. *)
Gather(answered, closes) ==
  LET begun   == Numbered(answered)
      mutable == Mutable(pending)
      kept    == pending \ mutable
      items   == UNION {segment.items : segment \in mutable}
                   \cup UNION {Read(s) : s \in Streams}
      first   == IF mutable # {} THEN First(mutable).seq ELSE begun.next
      before  == CASE mutable # {} /\ First(mutable).prev # 0 -> First(mutable).prev
                   [] kept # {} -> Max(Sequences(kept))
                   [] OTHER -> begun.last
  IN  /\ pass.pc = "idle"
      /\ IF Cold /\ ~answered THEN Mishap ELSE answered /\ UNCHANGED mishaps
      /\ blind' = (blind \/ (Cold /\ ~answered /\ cloud # {}))
      /\ \E count \in 0 .. Cardinality(items) : \E group \in Groupings(items, count) :
           /\ pending' = kept \cup Built(group, count, first, before, closes)
           /\ syncState' = [begun EXCEPT
                !.cursor = [s \in Streams |-> CursorAfter(s)],
                !.next = first + count]
      /\ pass' = [NoPass EXCEPT !.pc = "upload",
                               !.todo = {segment \in pending' : segment.stable}]
      /\ UNCHANGED <<clock, captured, cloud, bare>>

-----------------------------------------------------------------------------
(* Uploading. *)

Envelope(segment) == [seq |-> segment.seq, prev |-> segment.prev, items |-> segment.items]
Received(segments) == {Envelope(segment) : segment \in segments}

(* next_segment_batch_len: the first ones, as many as count and bytes allow. *)
Chunks ==
  {chunk \in SUBSET pass.todo :
     /\ chunk # {} /\ Cardinality(chunk) =< ChunkSize
     /\ \A x \in chunk, y \in pass.todo \ chunk : x.seq < y.seq}

(* upload_segments: the answer names the segments that were accepted. *)
Upload(chunk, accepted) ==
  /\ pass.pc = "upload" /\ accepted \subseteq chunk
  /\ IF accepted = chunk THEN UNCHANGED mishaps ELSE Mishap
  /\ cloud' = cloud \cup Received(accepted)
  /\ pass' = [pc |-> "clear", accepted |-> accepted, todo |-> pass.todo \ chunk]
  /\ UNCHANGED <<clock, captured, syncState, pending, bare, blind>>

(* The request is refused, or its answer is lost: the pass ends. *)
UploadFails(chunk) ==
  /\ pass.pc = "upload" /\ Mishap
  /\ cloud' \in {cloud, cloud \cup Received(chunk)}
  /\ pass' = NoPass
  /\ UNCHANGED <<clock, captured, syncState, pending, bare, blind>>

FramesOf(segments) ==
  {item \in UNION {segment.items : segment \in segments} : item[1] = "frames"}

(* The frames of everything the chunk held. *)
FramesOfPending(accepted) ==
  FramesOf({segment \in pending : segment.stable})

(* acknowledged_screen_frame_ids *)
Acknowledged(accepted) == FramesOf(accepted)

(* clear_frame_structural_json *)
ClearStructure ==
  /\ pass.pc = "clear"
  /\ bare' = bare \cup Acknowledged(pass.accepted)
  /\ pass' = [pass EXCEPT !.pc = "acknowledge"]
  /\ UNCHANGED <<clock, captured, syncState, pending, cloud, blind, mishaps>>

(* acknowledge *)
Acknowledge ==
  /\ pass.pc = "acknowledge"
  /\ pending' = pending \ pass.accepted
  /\ syncState' = IF pass.accepted = {} THEN syncState
                  ELSE [syncState EXCEPT !.last = Max(Sequences(pass.accepted))]
  /\ pass' = [pass EXCEPT !.pc = "upload", !.accepted = {}]
  /\ UNCHANGED <<clock, captured, cloud, bare, blind, mishaps>>

PassEnds ==
  /\ pass.pc = "upload" /\ pass.todo = {}
  /\ pass' = NoPass
  /\ UNCHANGED <<clock, captured, syncState, pending, cloud, bare, blind, mishaps>>

(* The app ends, a statement fails, or the task is aborted. *)
PassAborted ==
  /\ pass.pc # "idle" /\ Mishap
  /\ pass' = NoPass
  /\ UNCHANGED <<clock, captured, syncState, pending, cloud, bare, blind>>

(* The state database is gone while the cloud knows the device: the case a   *)
(* cold start asks the cloud about.                                        *)
StateLost ==
  /\ pass.pc = "idle" /\ syncState # NewState /\ Mishap
  /\ syncState' = NewState /\ pending' = {}
  /\ UNCHANGED <<clock, captured, cloud, bare, pass, blind>>

SegmentNext ==
  \/ \E s \in Streams : Capture(s)
  \/ TimePasses
  \/ \E answered, closes \in BOOLEAN : Gather(answered, closes)
  \/ \E chunk \in Chunks : \/ \E accepted \in SUBSET chunk : Upload(chunk, accepted)
                           \/ UploadFails(chunk)
  \/ ClearStructure \/ Acknowledge \/ PassEnds
  \/ PassAborted \/ StateLost

SegmentSpec == SegmentInit /\ [][SegmentNext]_segmentVars

UploadStep == \E chunk \in Chunks : Upload(chunk, chunk)

(* The engine starts a pass again and again, and a pass runs to its end.  The *)
(* last segment closes again and again: nothing is added for long enough.    *)
SegmentFairness ==
  /\ WF_segmentVars(TimePasses) /\ SF_segmentVars(Gather(TRUE, TRUE))
  /\ WF_segmentVars(UploadStep) /\ WF_segmentVars(ClearStructure)
  /\ WF_segmentVars(Acknowledge) /\ WF_segmentVars(PassEnds)

SegmentFairSpec == SegmentSpec /\ SegmentFairness

-----------------------------------------------------------------------------
(* Properties. *)

(* A segment id and revision stand for one content, whatever was lost or     *)
(* sent again: what is closed and what the cloud has agree.  Revisions do    *)
(* not tell rebuilt segments apart, they are always 1.                      *)
OneContentPerSegment ==
  ~blind =>
    \A x, y \in cloud \cup Received({segment \in pending : segment.stable}) :
      x.seq = y.seq => x = y

(* A row stored later bears an earlier time. *)
Overtaken(s, i) == \E j \in DOMAIN captured[s] : j > i /\ captured[s][j] < captured[s][i]

(* A frame loses its structure only when the cloud has the frame. *)
BareMeansAccepted ==
  \A item \in bare : \E segment \in cloud : item \in segment.items

InCloud(item) == \E segment \in cloud : item \in segment.items

(* A row that settles within the behaviour is uploaded in the end, through   *)
(* refusals, lost answers, aborted passes and a lost state database, unless  *)
(* it was overtaken in time.                                                *)
EverythingReachesTheCloud ==
  <>[](\A s \in Streams : \A i \in DOMAIN captured[s] :
         captured[s][i] + SettleLag =< MaxTime => InCloud(<<s, i>>) \/ Overtaken(s, i))
=============================================================================
