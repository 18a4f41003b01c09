------------------------------ MODULE ImageSync ------------------------------
(***************************************************************************)
(* How snapshots reach the cloud (crates/dystil-sync/src/image_sync.rs),   *)
(* the last part of a sync pass.  The pass works on a copy of a cache file *)
(* and writes it back at certain points: it completes what was uploaded,   *)
(* retries once what failed, scans the frames behind the cursor, selects   *)
(* and prepares some of them, uploads them one by one, completes them and  *)
(* moves the cursor.  Between passes the engine deletes the snapshots that *)
(* the cache no longer needs, and those that are too old                   *)
(* (crates/dystil-engine/src/lib.rs).                                      *)
(*                                                                         *)
(* Frames are numbered, in the order of their times.  Which frames are     *)
(* selected, the rate limit and the monitors' state are one choice, and so *)
(* is whether the next image fits into what is left of a pass.             *)
(***************************************************************************)
EXTENDS Integers, Sequences, FiniteSets, SequencesExt, FiniteSetsExt

CONSTANTS
  MaxUploads,     \* max_uploads_per_pass
  ByteLimit,      \* whether images may exceed max_upload_bytes_per_pass together
  MaxFrames,      \* bound: frames captured
  MaxSetbacks     \* bound: failed requests, aborted passes, expired snapshots

ASSUME ImageAssumption ==
  /\ MaxUploads \in Nat \ {0} /\ ByteLimit \in BOOLEAN
  /\ {MaxFrames, MaxSetbacks} \subseteq Nat

VARIABLES
  shots,        \* how many frames with a snapshot were captured
  snapshots,    \* the snapshot files there are
  cacheFile,    \* the cache on disk: cursor, pending_complete, pending_upload_retry
  cache,        \* the cache of the pass
  work,         \* where the pass is, and its locals
  cloudImages,  \* images the cloud has completed
  passedOver,   \* history: frames that a pass did not select, or gave up
  dropped,      \* history: retries lost with a round of retries cut short
  expired,      \* history: the last frame whose snapshot grew too old
  setbacks

imageVars == <<shots, snapshots, cacheFile, cache, work, cloudImages, passedOver,
               dropped, expired, setbacks>>

NewCache == [scanned |-> 0, complete |-> {}, retry |-> <<>>]
NoWork   == [pc |-> "idle", then |-> "idle", retries |-> <<>>, uploads |-> {},
             moved |-> 0]

ImageInit ==
  /\ shots = 0 /\ snapshots = {} /\ cacheFile = NewCache /\ cache = NewCache
  /\ work = NoWork /\ cloudImages = {} /\ passedOver = {} /\ dropped = {}
  /\ expired = 0 /\ setbacks = 0

Setback == setbacks < MaxSetbacks /\ setbacks' = setbacks + 1
Largest(S, n) == Max(S \cup {n})

CaptureShot ==
  /\ shots < MaxFrames
  /\ shots' = shots + 1 /\ snapshots' = snapshots \cup {shots + 1}
  /\ UNCHANGED <<cacheFile, cache, work, cloudImages, passedOver, dropped,
                 expired, setbacks>>

-----------------------------------------------------------------------------
(* The pass. *)

BeginImages ==
  /\ work.pc = "idle"
  /\ cache' = cacheFile
  /\ work' = [NoWork EXCEPT !.pc = "flush", !.then = "retry"]
  /\ UNCHANGED <<shots, snapshots, cacheFile, cloudImages, passedOver, dropped,
                 expired, setbacks>>

FramesIn(entries) == {entry.frame : entry \in entries}

(* flush_pending_image_completions: one request for everything uploaded.     *)
(* The cursor goes at least to the last frame completed.                   *)
Flush ==
  /\ work.pc = "flush"
  /\ work' = [work EXCEPT !.pc = work.then]
  /\ cache' = [cache EXCEPT !.complete = {},
                           !.scanned = Largest(FramesIn(cache.complete), @)]
  /\ cacheFile' = IF cache.complete = {} THEN cacheFile ELSE cache'
  /\ cloudImages' = cloudImages \cup FramesIn(cache.complete)
  /\ UNCHANGED <<shots, snapshots, passedOver, dropped,
                 expired, setbacks>>

(* The request fails: what has failed before is dropped, the rest kept. *)
FlushFails ==
  /\ work.pc = "flush" /\ cache.complete # {} /\ Setback
  /\ work' = [work EXCEPT !.pc = work.then]
  /\ LET again == {entry \in cache.complete : ~entry.failed}
     IN  /\ cache' = [cache EXCEPT !.complete =
                        {[frame |-> f, failed |-> TRUE] : f \in FramesIn(again)}]
         /\ passedOver' = passedOver \cup FramesIn(cache.complete \ again)
  /\ cacheFile' = cache'
  /\ UNCHANGED <<shots, snapshots, cloudImages, dropped,
                 expired>>

(* retry_pending_image_uploads takes the retries out of the cache. *)
TakeRetries ==
  /\ work.pc = "retry"
  /\ work' = [work EXCEPT !.pc = IF cache.retry = <<>> THEN "scan" ELSE "again",
                          !.retries = cache.retry]
  /\ cache' = [cache EXCEPT !.retry = <<>>]
  /\ UNCHANGED <<shots, snapshots, cacheFile, cloudImages, passedOver, dropped,
                 expired, setbacks>>

Uploaded(frame) ==
  /\ cache' = [cache EXCEPT !.complete = @ \cup {[frame |-> frame, failed |-> FALSE]}]
  /\ cacheFile' = cache'

RetryUpload ==
  /\ work.pc = "again" /\ work.retries # <<>>
  /\ Head(work.retries) \in snapshots
  /\ Uploaded(Head(work.retries))
  /\ work' = [work EXCEPT !.pc = "flush", !.then = "again", !.retries = Tail(@)]
  /\ UNCHANGED <<shots, snapshots, cloudImages, passedOver, dropped,
                 expired, setbacks>>

(* No snapshot, or a second failure. *)
RetryGivenUp ==
  /\ work.pc = "again" /\ work.retries # <<>>
  /\ \/ Head(work.retries) \notin snapshots /\ UNCHANGED setbacks
     \/ Head(work.retries) \in snapshots /\ Setback
  /\ work' = [work EXCEPT !.retries = Tail(@)]
  /\ passedOver' = passedOver \cup {Head(work.retries)}
  /\ UNCHANGED <<shots, snapshots, cacheFile, cache, cloudImages, dropped,
                 expired>>

RetriesEnd ==
  /\ work.pc = "again" /\ work.retries = <<>>
  /\ cacheFile' = cache
  /\ work' = [work EXCEPT !.pc = "scan"]
  /\ UNCHANGED <<shots, snapshots, cache, cloudImages, passedOver, dropped,
                 expired, setbacks>>

Behind == (cache.scanned + 1) .. shots

(* read_image_candidates finds nothing to upload. *)
ScanNothing ==
  /\ work.pc = "scan"
  /\ cache' = [cache EXCEPT !.scanned = Largest(Behind, @)]
  /\ cacheFile' = IF Behind = {} THEN cacheFile ELSE cache'
  /\ passedOver' = passedOver \cup Behind
  /\ work' = NoWork
  /\ UNCHANGED <<shots, snapshots, cloudImages, dropped,
                 expired, setbacks>>

(* Of the selected frames the first are admitted, until the pass has its     *)
(* number of uploads or, if ~fits, the next image does not fit.            *)
Admits(selected, admitted, fits) ==
  /\ admitted # {} /\ Cardinality(admitted) =< MaxUploads
  /\ \A f \in admitted, g \in selected \ admitted : f < g
  /\ fits => admitted = selected \/ Cardinality(admitted) = MaxUploads
  /\ ~fits => ByteLimit /\ admitted # selected /\ Cardinality(admitted) < MaxUploads

(* Whether as many were attempted as selected: the image that did not fit    *)
(* has been counted as attempted.                                          *)
AllAttempted(selected, admitted, fits) ==
  Cardinality(selected) = IF fits THEN Cardinality(admitted) ELSE Cardinality(admitted) + 1

(* Where the cursor goes: over everything when all selected were attempted,  *)
(* else to the last frame processed.                                       *)
CursorTo(selected, admitted, fits) ==
  IF AllAttempted(selected, admitted, fits) THEN shots ELSE Max(admitted)

(* A selection is prepared; an image that is gone, broken or too large on    *)
(* its own is skipped.  Where none could be prepared the pass is over, and   *)
(* the cursor is written only if some were not attempted.                   *)
Scan ==
  /\ work.pc = "scan"
  /\ \E selected \in (SUBSET Behind) \ {{}}, broken \in SUBSET Behind, fits \in BOOLEAN :
       \E admitted \in SUBSET selected :
         LET moved == CursorTo(selected, admitted, fits)
             ready == (admitted \cap snapshots) \ broken
             later == selected \ admitted
         IN  /\ Admits(selected, admitted, fits) /\ (~fits => ready # {})
             /\ passedOver' = passedOver
                  \cup (((cache.scanned + 1) .. moved) \ (ready \cup later))
             /\ IF ready # {}
                THEN /\ work' = [work EXCEPT !.pc = "upload", !.uploads = ready, !.moved = moved]
                     /\ UNCHANGED <<cache, cacheFile>>
                ELSE /\ work' = NoWork /\ cache' = [cache EXCEPT !.scanned = moved]
                     /\ cacheFile' = IF later = {} THEN cacheFile ELSE cache'
  /\ UNCHANGED <<shots, snapshots, cloudImages, dropped, expired, setbacks>>

(* The images are sent in the order of their frames. *)
NextUpload(f) == f \in work.uploads /\ \A g \in work.uploads : f =< g

UploadImage ==
  /\ work.pc = "upload"
  /\ \E f \in work.uploads :
       /\ NextUpload(f) /\ Uploaded(f)
       /\ work' = [work EXCEPT !.uploads = @ \ {f}]
  /\ UNCHANGED <<shots, snapshots, cloudImages, passedOver, dropped,
                 expired, setbacks>>

(* The storage refuses: one retry is queued, and written with the next write. *)
UploadRefused ==
  /\ work.pc = "upload" /\ Setback
  /\ \E f \in work.uploads :
       /\ NextUpload(f) /\ cache' = [cache EXCEPT !.retry = Append(@, f)]
       /\ work' = [work EXCEPT !.uploads = @ \ {f}]
  /\ UNCHANGED <<shots, snapshots, cacheFile, cloudImages, passedOver, dropped,
                 expired>>

UploadsEnd ==
  /\ work.pc = "upload" /\ work.uploads = {}
  /\ work' = [work EXCEPT !.pc = "flush", !.then = "close"]
  /\ UNCHANGED <<shots, snapshots, cacheFile, cache, cloudImages, passedOver, dropped,
                 setbacks, expired>>

CloseImages ==
  /\ work.pc = "close"
  /\ cache' = [cache EXCEPT !.scanned = Largest({work.moved}, @)]
  /\ cacheFile' = cache'
  /\ work' = NoWork
  /\ UNCHANGED <<shots, snapshots, cloudImages, passedOver, dropped,
                 expired, setbacks>>

(* The app ends, the network fails or the token is refused: the copy of the  *)
(* cache is lost, with the retries that were taken from it.                *)
ImagesAborted ==
  /\ work.pc # "idle" /\ Setback
  /\ work' = NoWork
  /\ dropped' = dropped \cup (ToSet(work.retries) \ ToSet(cacheFile.retry))
  /\ UNCHANGED <<shots, snapshots, cacheFile, cache, cloudImages, passedOver, expired>>

-----------------------------------------------------------------------------
(* The snapshots. *)

Waiting == FramesIn(cacheFile.complete) \cup ToSet(cacheFile.retry)

(* The clean-up up to the cursor, whatever waits. *)
CleanToCursor == cacheFile.scanned

(* max_snapshot_cleanup_frame_id *)
CleanTo == IF Waiting = {} THEN cacheFile.scanned
           ELSE Min({Min(Waiting) - 1, cacheFile.scanned})

(* cleanup_synced_snapshots_once, between two passes. *)
Cleanup ==
  /\ work.pc = "idle"
  /\ snapshots' = {f \in snapshots : f > CleanTo}
  /\ UNCHANGED <<shots, cacheFile, cache, work, cloudImages, passedOver, dropped,
                 expired, setbacks>>

(* cleanup_expired_snapshots_once: the oldest are gone, uploaded or not. *)
Expire ==
  /\ work.pc = "idle" /\ snapshots # {} /\ Setback
  /\ \E f \in snapshots : /\ expired' = f
                          /\ snapshots' = {g \in snapshots : g > f}
  /\ UNCHANGED <<shots, cacheFile, cache, work, cloudImages, passedOver, dropped>>

ImageNext ==
  \/ CaptureShot
  \/ BeginImages \/ Flush \/ FlushFails
  \/ TakeRetries \/ RetryUpload \/ RetryGivenUp \/ RetriesEnd
  \/ ScanNothing \/ Scan \/ UploadImage \/ UploadRefused \/ UploadsEnd \/ CloseImages
  \/ ImagesAborted
  \/ Cleanup \/ Expire

ImageSpec == ImageInit /\ [][ImageNext]_imageVars

-----------------------------------------------------------------------------
(* Properties. *)

(* No image is lost on the way: what the cursor has passed is with the       *)
(* cloud, waits in the cache, was not selected by some pass or has had its   *)
(* one retry; and of what is still to be uploaded no snapshot was cleaned    *)
(* up.  Left aside are the retries of a round that is cut short.             *)
NoImageIsForgotten ==
  /\ 1 .. cacheFile.scanned \subseteq
       cloudImages \cup passedOver \cup Waiting \cup ToSet(work.retries) \cup dropped
  /\ ToSet(cacheFile.retry) \cup ((cacheFile.scanned + 1) .. shots)
       \subseteq snapshots \cup (1 .. expired)
=============================================================================
