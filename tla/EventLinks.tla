------------------------------ MODULE EventLinks ------------------------------
(***************************************************************************)
(* How an input event gets its frame.  Three tasks of a capture session    *)
(* work side by side: the recorder writes events in batches and says on a  *)
(* bus what may deserve a frame (crates/dystil-capture/src/ui_recorder.rs),*)
(* the lane coalesces what it hears and captures                           *)
(* (capture_loop.rs, coordinator.rs), and the linker pairs the two ends by *)
(* correlation id (linker.rs).  A session starts and stops them            *)
(* (apps/dystil/src-tauri/src/capture_session.rs).                         *)
(*                                                                         *)
(* Events are numbered, and the number stands for the row and for the      *)
(* correlation id.  A screen is a window, the page it shows and its text;  *)
(* Alike stands for the distance of two simhashes.  Times are left out:    *)
(* whether a pause or a horizon is over is a choice.  One image is taken   *)
(* of one monitor.                                                         *)
(***************************************************************************)
EXTENDS Integers, Sequences, FiniteSets, SequencesExt

CONSTANTS
  Kinds,            \* which of "click", "focus", "key", "scroll" are recorded
  Windows, Pages, MaxText,
  Monitors,         \* empty where only text is captured
  CacheLimit,       \* MAX_DEDUP_WINDOWS
  BatchSize,        \* batch_size
  BusSize,          \* TRIGGER_CHANNEL_BUFFER
  MailSize,         \* LINKER_CHANNEL_BUFFER
  MaxEvents,        \* bound: events in one behaviour
  MaxSlips,         \* bound: failed flushes, expired entries, aborted lanes
  MaxSessions       \* bound: sessions started

ASSUME EventAssumption ==
  /\ Kinds \subseteq {"click", "focus", "key", "scroll"}
  /\ {BatchSize, BusSize, MailSize, CacheLimit} \subseteq Nat \ {0}
  /\ {MaxText, MaxEvents, MaxSlips, MaxSessions} \subseteq Nat

VARIABLES
  recording,      \* which parts of the recording are still up, and how many began
  kindOf,       \* the kinds of the events heard
  recorder,     \* the recorder's batch, and what it holds for a pause
  bus,          \* the messages the lane has not received
  lane,         \* where the lane is, the ids it coalesced, their trigger
  frames,       \* what the frames written show
  remembered,   \* the coordinator's caches, per window and per monitor
  seen,         \* what the capture that took an event in saw
  stored,       \* the events written to ui_events
  link,         \* ui_events.frame_id, 0 for NULL
  mailbox,      \* the linker's channel
  waiting,      \* the ids of which the linker knows one end
  slips         \* how often something was lost on the way

eventVars == <<recording, kindOf, recorder, bus, lane, frames, remembered, seen,
               stored, link, mailbox, waiting, slips>>

EventIds == 1 .. MaxEvents
Screens  == [window : Windows, page : Pages, text : 0 .. MaxText]
Unseen   == [result |-> "none"]
Failed   == [result |-> "failed"]

Alike(s, t) == s.text \div 2 = t.text \div 2
SameContext(s, t) == s.window = t.window /\ s.page = t.page

Quiet  == [batch |-> <<>>, typing |-> <<>>, scrolling |-> <<>>]
Idle   == [pc |-> "idle", ids |-> {}, trailing |-> {}, trigger |-> "click",
           active |-> FALSE]
Nobody == [event |-> {}, frame |-> <<>>]
Fresh  == [window |-> <<>>, monitor |-> <<>>]

EventInit ==
  /\ recording = [stage |-> "on", count |-> 1]
  /\ kindOf = <<>> /\ recorder = Quiet /\ bus = <<>> /\ lane = Idle
  /\ frames = <<>> /\ remembered = Fresh
  /\ seen = [e \in EventIds |-> Unseen]
  /\ stored = {} /\ link = [e \in EventIds |-> 0]
  /\ mailbox = <<>> /\ waiting = Nobody /\ slips = 0

Slip == slips < MaxSlips /\ slips' = slips + 1

-----------------------------------------------------------------------------
(* The recorder: run_consumer. *)

Message(trigger, ids) == [trigger |-> trigger, id |-> ids[1], more |-> Tail(ids)]

(* A full bus forgets its oldest message. *)
Sent(queue, messages) ==
  LET all == queue \o messages
  IN  SubSeq(all, Len(all) - (IF Len(all) < BusSize THEN Len(all) ELSE BusSize) + 1,
             Len(all))

(* try_send: what does not fit is gone. *)
Posted(messages) ==
  LET all == mailbox \o messages
  IN  SubSeq(all, 1, IF Len(all) < MailSize THEN Len(all) ELSE MailSize)

Persisted(e) == [end |-> "event", frame |-> 0, ids |-> {e}]
Taken(f, ids) == [end |-> "frame", frame |-> f, ids |-> ids]

(* flush: one transaction; a batch that cannot be written is kept. *)
Written(batch) ==
  /\ stored' = stored \cup ToSet(batch)
  /\ mailbox' = Posted([i \in DOMAIN batch |-> Persisted(batch[i])])
  /\ slips' = IF Len(mailbox) + Len(batch) > MailSize THEN slips + 1 ELSE slips

NotWritten == Slip /\ UNCHANGED <<stored, mailbox>>

(* Beyond twice its size a batch loses its oldest events. *)
Kept(batch) ==
  IF Len(batch) > 2 * BatchSize
  THEN SubSeq(batch, Len(batch) - BatchSize + 1, Len(batch)) ELSE batch

(* An event is heard: a click or a focus speaks at once, the keys of a burst *)
(* after a pause, the steps of a scroll in one message.                     *)
Hear(kind) ==
  LET e     == Len(kindOf) + 1
      batch == Append(recorder.batch, e)
      Next(b) == recorder' =
        [batch |-> b,
         typing |-> IF kind = "key" THEN Append(recorder.typing, e) ELSE recorder.typing,
         scrolling |-> IF kind = "scroll" THEN Append(recorder.scrolling, e)
                       ELSE recorder.scrolling]
  IN
  /\ recording.stage \in {"on", "recorder"} /\ e \in EventIds
  /\ kindOf' = Append(kindOf, kind)
  /\ bus' = IF kind \in {"click", "focus"} THEN Sent(bus, <<Message(kind, <<e>>)>>)
            ELSE bus
  /\ IF Len(batch) < BatchSize
     THEN Next(batch) /\ UNCHANGED <<stored, mailbox, slips>>
     ELSE \/ Written(batch) /\ Next(<<>>)
          \/ NotWritten /\ Next(Kept(batch))
  /\ UNCHANGED <<recording, lane, frames, remembered, seen, link, waiting>>

(* Only the last key of the burst is told. *)
TellsLastKey ==
  /\ recorder.typing # <<>> /\ recording.stage \in {"on", "recorder"}
  /\ bus' = Sent(bus, <<Message("key", <<Last(recorder.typing)>>)>>)
  /\ recorder' = [recorder EXCEPT !.typing = <<>>]
  /\ UNCHANGED <<recording, kindOf, lane, frames, remembered, seen, stored, link,
                 mailbox, waiting, slips>>

(* The typing timer: every key of the burst sends a message of its own. *)
TypingPause ==
  /\ recorder.typing # <<>> /\ recording.stage \in {"on", "recorder"}
  /\ bus' = Sent(bus, [i \in DOMAIN recorder.typing |->
                         Message("key", <<recorder.typing[i]>>)])
  /\ recorder' = [recorder EXCEPT !.typing = <<>>]
  /\ UNCHANGED <<recording, kindOf, lane, frames, remembered, seen, stored, link,
                 mailbox, waiting, slips>>

(* The tick flushes, and tells of a scroll that stopped. *)
Tick ==
  /\ recording.stage = "on"
  /\ recorder.batch # <<>> \/ recorder.scrolling # <<>>
  /\ \E stopped \in {FALSE, recorder.scrolling # <<>>}, written \in BOOLEAN :
       /\ IF written THEN Written(recorder.batch)
          ELSE recorder.batch # <<>> /\ NotWritten
       /\ recorder' =
            [recorder EXCEPT !.batch = IF written THEN <<>> ELSE @,
                             !.scrolling = IF stopped THEN <<>> ELSE @]
       /\ bus' = IF stopped THEN Sent(bus, <<Message("scroll", recorder.scrolling)>>)
                 ELSE bus
  /\ UNCHANGED <<recording, kindOf, lane, frames, remembered, seen, link, waiting>>

-----------------------------------------------------------------------------
(* The lane: run_ax_capture and capture_trigger_batch. *)

LaneGoes(pc) == lane' = [lane EXCEPT !.pc = pc]

FirstIds(messages) == {messages[i].id : i \in DOMAIN messages}
MoreIds(messages)  == UNION {ToSet(messages[i].more) : i \in DOMAIN messages}

(* The lane takes a message and waits for others: debounce. *)
Wakes ==
  /\ lane.pc = "idle" /\ bus # <<>> /\ recording.stage \in {"on", "recorder", "lane"}
  /\ lane' = [pc |-> "debounce", ids |-> {Head(bus).id},
              trailing |-> ToSet(Head(bus).more), trigger |-> Head(bus).trigger,
              active |-> TRUE]
  /\ bus' = Tail(bus)
  /\ UNCHANGED <<recording, kindOf, recorder, frames, remembered, seen, stored,
                 link, mailbox, waiting, slips>>

(* The messages that came meanwhile join; the last one names the trigger.    *)
(* Of a message only the first correlation id is taken.                     *)
Joined(pc) ==
  /\ lane' = [lane EXCEPT !.pc = pc, !.ids = @ \cup FirstIds(bus),
              !.trailing = @ \cup MoreIds(bus),
              !.trigger = IF bus = <<>> THEN @ ELSE Last(bus).trigger]
  /\ bus' = <<>>
  /\ UNCHANGED <<recording, kindOf, recorder, frames, remembered, seen, stored,
                 link, mailbox, waiting, slips>>

Collects == lane.pc = "debounce" /\ Joined("capture")

(* An ordinary trigger keeps its distance from the last one: what comes in   *)
(* that time joins too.                                                     *)
KeepsDistance ==
  /\ lane.pc = "capture" /\ lane.trigger \in {"click", "scroll"}
  /\ frames # <<>>
  /\ LaneGoes("interval")
  /\ UNCHANGED <<recording, kindOf, recorder, bus, frames, remembered, seen,
                 stored, link, mailbox, waiting, slips>>

CollectsMore == lane.pc = "interval" /\ Joined("due")

-----------------------------------------------------------------------------
(* The coordinator: capture_inner and persist_or_reuse_decision. *)

Forced(trigger) == trigger = "focus"

(* The context is not compared. *)
ReusableAnywhere(trigger, s, rapid) ==
  /\ ~Forced(trigger) /\ s.window \in DOMAIN remembered.window
  /\ LET last == frames[remembered.window[s.window]]
     IN  \/ last = s /\ (rapid \/ trigger \in {"key", "heartbeat"})
         \/ Alike(last, s) /\ rapid /\ trigger \in {"click", "scroll", "heartbeat"}

(* Whether the window's last frame stands for what it shows now. *)
Reusable(trigger, s, rapid) ==
  /\ ~Forced(trigger) /\ s.window \in DOMAIN remembered.window
  /\ LET last == frames[remembered.window[s.window]]
     IN  /\ SameContext(last, s)
         /\ \/ last = s /\ (rapid \/ trigger \in {"key", "heartbeat"})
            \/ Alike(last, s) /\ rapid /\ trigger \in {"click", "scroll", "heartbeat"}

(* Of images only those that differ in nothing are reused. *)
ReusableImage(trigger, s, m, near) ==
  /\ ~Forced(trigger) /\ m \in DOMAIN remembered.monitor
  /\ near /\ frames[remembered.monitor[m]] = s

(* remember_entry: a full cache forgets some window. *)
Room(w) ==
  LET known == DOMAIN remembered.window
  IN  IF w \in known \/ Cardinality(known) < CacheLimit THEN {known}
      ELSE {known \ {v} : v \in known}

Remembers(s, f, monitors) ==
  \E keep \in Room(s.window) :
    remembered' =
      [window |-> [w \in keep \cup {s.window} |->
                     IF w = s.window THEN f ELSE remembered.window[w]],
       monitor |-> [m \in DOMAIN remembered.monitor \cup monitors |->
                      IF m \in monitors THEN f ELSE remembered.monitor[m]]]

(* A frame with the text alone, because no image is wanted or none was had. *)
CapturesText(trigger, s, f) ==
  \/ /\ \E rapid \in BOOLEAN : Reusable(trigger, s, rapid)
     /\ f = remembered.window[s.window]
     /\ UNCHANGED <<frames, remembered>>
  \/ /\ \E rapid \in BOOLEAN : ~Reusable(trigger, s, rapid)
     /\ f = Len(frames) + 1
     /\ frames' = Append(frames, s) /\ Remembers(s, f, {})

(* persist_or_reuse_visual; the fingerprint may not be ready in time. *)
CapturesImage(trigger, s, f) ==
  \E m \in Monitors :
    \/ /\ ReusableImage(trigger, s, m, TRUE)
       /\ f = remembered.monitor[m]
       /\ UNCHANGED <<frames, remembered>>
    \/ /\ f = Len(frames) + 1
       /\ frames' = Append(frames, s)
       /\ \E monitors \in {{}, {m}} : Remembers(s, f, monitors)

Takes(pc, s, f) ==
  /\ seen' = [e \in EventIds |-> IF e \in lane.ids \cup lane.trailing THEN s
                               ELSE seen[e]]
  /\ lane' = [lane EXCEPT !.pc = pc, !.ids = {}, !.trailing = {}]

(* The capture, and the linker is told which frame the ids belong to. *)
Captures ==
  /\ lane.pc \in {"capture", "due"}
  /\ \E s \in Screens, f \in 1 .. Len(frames) + 1 :
       /\ CapturesText(lane.trigger, s, f) \/ CapturesImage(lane.trigger, s, f)
       /\ Takes("idle", s, f)
       /\ mailbox' = Posted(<<Taken(f, lane.ids)>>)
       /\ slips' = IF Len(mailbox) >= MailSize THEN slips + 1 ELSE slips
  /\ UNCHANGED <<recording, kindOf, recorder, bus, stored, link, waiting>>

(* No frame: the ids are dropped. *)
CaptureFails ==
  /\ lane.pc \in {"capture", "due"}
  /\ Takes("idle", Failed, 0)
  /\ UNCHANGED <<recording, kindOf, recorder, bus, frames, remembered, stored,
                 link, mailbox, waiting, slips>>

(* After activity a heartbeat writes what has changed since. *)
Heartbeat ==
  /\ lane.pc = "idle" /\ lane.active /\ recording.stage \in {"on", "recorder", "lane"}
  /\ lane' = [lane EXCEPT !.active = FALSE]
  /\ \E s \in Screens, f \in 1 .. Len(frames) + 1 : CapturesText("heartbeat", s, f)
  /\ UNCHANGED <<recording, kindOf, recorder, bus, seen, stored, link, mailbox,
                 waiting, slips>>

-----------------------------------------------------------------------------
(* The linker: run_linker. *)

(* The end that comes first waits for the other. *)
Links ==
  /\ mailbox # <<>> /\ recording.stage # "off"
  /\ mailbox' = Tail(mailbox)
  /\ LET m == Head(mailbox)
         paired == IF m.end = "event" THEN m.ids \cap DOMAIN waiting.frame
                   ELSE m.ids \cap waiting.event
         alone  == m.ids \ paired
     IN  /\ link' = [e \in EventIds |->
                       IF e \notin paired \/ link[e] # 0 THEN link[e]
                       ELSE IF m.end = "event" THEN waiting.frame[e] ELSE m.frame]
         /\ waiting' =
              IF m.end = "event"
              THEN [event |-> waiting.event \cup alone,
                    frame |-> [e \in (DOMAIN waiting.frame) \ paired |->
                                 waiting.frame[e]]]
              ELSE [event |-> waiting.event \ paired,
                    frame |-> [e \in DOMAIN waiting.frame \cup alone |->
                                 IF e \in alone THEN m.frame ELSE waiting.frame[e]]]
  /\ UNCHANGED <<recording, kindOf, recorder, bus, lane, frames, remembered, seen,
                 stored, slips>>

(* An end that waited too long, or that a full table pushed out. *)
Expires ==
  /\ Slip
  /\ \E e \in waiting.event \cup DOMAIN waiting.frame :
       waiting' = [event |-> waiting.event \ {e},
                   frame |-> [x \in (DOMAIN waiting.frame) \ {e} |-> waiting.frame[x]]]
  /\ UNCHANGED <<recording, kindOf, recorder, bus, lane, frames, remembered, seen,
                 stored, link, mailbox>>

-----------------------------------------------------------------------------
(* CaptureSession::stop and start. *)

StagesTo(s) == recording' = [recording EXCEPT !.stage = s]

StopSession ==
  /\ recording.stage = "on" /\ StagesTo("recorder")
  /\ UNCHANGED <<kindOf, recorder, bus, lane, frames, remembered, seen, stored,
                 link, mailbox, waiting, slips>>

(* The consumer's last flush; bursts that were not over are forgotten. *)
RecorderEnds ==
  /\ recording.stage = "recorder" /\ StagesTo("lane")
  /\ Written(recorder.batch) \/ NotWritten
  /\ recorder' = Quiet
  /\ UNCHANGED <<kindOf, bus, lane, frames, remembered, seen, link, waiting>>

(* The linker is not waited for. *)
LaneEndsWithLinker ==
  /\ recording.stage = "lane" /\ StagesTo("off")
  /\ lane.pc \in {"idle", "debounce"}
  /\ lane' = Idle /\ bus' = <<>> /\ mailbox' = <<>> /\ waiting' = Nobody
  /\ UNCHANGED <<kindOf, recorder, frames, remembered, seen, stored, link, slips>>

(* The lane ends between two captures, whatever is on the bus. *)
LaneEnds ==
  /\ recording.stage = "lane" /\ StagesTo("linker")
  /\ lane.pc \in {"idle", "debounce"}
  /\ lane' = Idle /\ bus' = <<>>
  /\ UNCHANGED <<kindOf, recorder, frames, remembered, seen, stored, link,
                 mailbox, waiting, slips>>

(* ... or is aborted after five seconds, perhaps behind its last frame. *)
LaneAborted ==
  /\ recording.stage = "lane" /\ StagesTo("linker")
  /\ lane.pc \notin {"idle", "debounce"} /\ Slip
  /\ lane' = Idle /\ bus' = <<>>
  /\ UNCHANGED frames \/ \E s \in Screens : frames' = Append(frames, s)
  /\ UNCHANGED <<kindOf, recorder, remembered, seen, stored, link, mailbox, waiting>>

(* Every sender is gone and the channel is empty. *)
LinkerEnds ==
  /\ recording.stage = "linker" /\ mailbox = <<>> /\ StagesTo("off")
  /\ waiting' = Nobody
  /\ UNCHANGED <<kindOf, recorder, bus, lane, frames, remembered, seen, stored,
                 link, mailbox, slips>>

StartSession ==
  /\ recording.stage = "off" /\ recording.count < MaxSessions
  /\ recording' = [stage |-> "on", count |-> recording.count + 1]
  /\ remembered' = Fresh
  /\ UNCHANGED <<kindOf, recorder, bus, lane, frames, seen, stored, link,
                 mailbox, waiting, slips>>

-----------------------------------------------------------------------------

RecorderStep == TypingPause \/ Tick
LaneStep == Wakes \/ Collects \/ CollectsMore \/ Captures \/ CaptureFails
StopStep == RecorderEnds \/ LaneEnds \/ LinkerEnds

EventNext ==
  \/ \E kind \in Kinds : Hear(kind)
  \/ RecorderStep \/ LaneStep \/ KeepsDistance \/ Heartbeat
  \/ Links \/ Expires
  \/ StopSession \/ StopStep \/ LaneAborted \/ StartSession

EventSpec == EventInit /\ [][EventNext]_eventVars

(* Timers fire, captures have deadlines, channels are received from.         *)
EventFairness ==
  /\ WF_eventVars(RecorderStep) /\ WF_eventVars(LaneStep) /\ WF_eventVars(Links)
  /\ WF_eventVars(StopStep)

EventFairSpec == EventSpec /\ EventFairness

-----------------------------------------------------------------------------
(* Properties. *)

(* The variables hold what the channels, the caches and the columns allow. *)
EventTypeOK ==
  /\ recording \in [stage : {"on", "recorder", "lane", "linker", "off"},
                  count : 1 .. MaxSessions + 1]
  /\ kindOf \in Seq(Kinds) /\ Len(kindOf) =< MaxEvents
  /\ DOMAIN recorder = {"batch", "typing", "scrolling"}
  /\ \A part \in DOMAIN recorder : ToSet(recorder[part]) \subseteq EventIds
  /\ Len(bus) =< BusSize /\ Len(mailbox) =< MailSize
  /\ lane \in [pc : {"idle", "debounce", "capture", "interval", "due"},
               ids : SUBSET EventIds, trailing : SUBSET EventIds,
               trigger : Kinds \cup {"click"}, active : BOOLEAN]
  /\ frames \in Seq(Screens)
  /\ DOMAIN remembered.window \subseteq Windows
  /\ Cardinality(DOMAIN remembered.window) =< CacheLimit
  /\ DOMAIN remembered.monitor \subseteq Monitors
  /\ seen \in [EventIds -> Screens \cup {Unseen, Failed}]
  /\ stored \subseteq EventIds
  /\ link \in [EventIds -> 0 .. Len(frames)]
  /\ waiting.event \subseteq EventIds /\ DOMAIN waiting.frame \subseteq EventIds
  /\ slips \in Nat

(* A link tells the truth.  Frames are shared between captures, and an id    *)
(* travels on two ways: the frame an event ends up with shows the window and *)
(* page that the capture which took the event saw, and a text like it.      *)
LinksTellTheTruth ==
  \A e \in EventIds :
    link[e] # 0 =>
      /\ e \in stored /\ seen[e] \in Screens
      /\ SameContext(frames[link[e]], seen[e]) /\ Alike(frames[link[e]], seen[e])

(* The linker "pairs persisted UI events with their captured frame" whichever*)
(* comes first, also while the session stops: unless something was lost on   *)
(* the way, an event that was written and captured has its frame or has it   *)
(* coming.  The steps of a scroll after the first are left out.             *)
BothEndsMeet ==
  \A e \in stored :
    /\ slips = 0 /\ seen[e] \in Screens /\ link[e] = 0
    => \/ \E i \in DOMAIN mailbox : e \in mailbox[i].ids
       \/ kindOf[e] = "scroll"

(* While the session lasts an event that was heard is written and gets its   *)
(* frame, unless its capture fails or something is lost on the way.          *)
HeardEventsAreLinked ==
  \A e \in EventIds :
    []<>(Len(kindOf) >= e /\ kindOf[e] # "scroll" =>
           link[e] # 0 \/ seen[e] = Failed \/ slips > 0 \/ recording.stage # "on")
=============================================================================
