--------------------------- MODULE Capture_proofs ---------------------------
(***************************************************************************)
(* Theorems about what happens to a capture, for every value of the        *)
(* constants: SegmentSync and ImageSync, which bring it to the cloud, and  *)
(* EventLinks, which gives an event its frame.                             *)
(***************************************************************************)
EXTENDS SegmentSync, ImageSync, EventLinks, Collections, FiniteSetTheorems

-----------------------------------------------------------------------------
(* Segments on their way to the cloud (SegmentSync).                        *)

(* The inductive invariant.  Segments are told apart by their numbers, which *)
(* lie below the next one to be given; what is not closed is the last.       *)
SegmentNumbers ==
  /\ syncState.next \in Nat \ {0}
  /\ \A x \in pending :
       /\ x.seq \in 1 .. (syncState.next - 1) /\ x.stable \in BOOLEAN
       /\ \A y \in pending : /\ x.seq = y.seq => x = y
                             /\ ~x.stable => y.seq =< x.seq

(* What the cloud has lies below as well, and below what will be rebuilt,    *)
(* unless the numbers were lost and are still to be asked for.              *)
CloudBehind ==
  /\ \E n \in Nat : \A e \in cloud : e.seq \in 0 .. n
  /\ \/ blind
     \/ Cold /\ pending = {}
     \/ \A e \in cloud :
          e.seq < syncState.next /\ \A x \in pending : ~x.stable => e.seq < x.seq

CloudAgrees ==
  ~blind => \A e \in cloud :
              /\ \A d \in cloud : d.seq = e.seq => d = e
              /\ \A x \in pending : x.stable /\ x.seq = e.seq => Envelope(x) = e

(* What a pass has still to upload is on file as closed, what was accepted   *)
(* is with the cloud.                                                       *)
PassIsBacked ==
  /\ pass.todo \subseteq {x \in pending : x.stable}
  /\ pass.accepted \cap pass.todo = {}
  /\ Received(pass.accepted) \subseteq cloud
  /\ pass.pc = "idle" => pass.todo = {}

SegmentInv ==
  SegmentNumbers /\ CloudBehind /\ CloudAgrees /\ PassIsBacked /\ BareMeansAccepted

-----------------------------------------------------------------------------
LEMMA SegmentInitHolds == SegmentInit => SegmentInv
<1> SUFFICES ASSUME SegmentInit PROVE SegmentInv
  OBVIOUS
<1>1. SegmentNumbers
  BY DEF SegmentInit, SegmentNumbers, NewState
<1>2. CloudBehind
  <2>1. \A e \in cloud : e.seq \in 0 .. 0
    BY DEF SegmentInit
  <2> QED
    BY <2>1 DEF SegmentInit, CloudBehind
<1>3. CloudAgrees /\ PassIsBacked /\ BareMeansAccepted
  BY DEF SegmentInit, CloudAgrees, PassIsBacked, BareMeansAccepted, NoPass, Received
<1> QED
  BY <1>1, <1>2, <1>3 DEF SegmentInv

(* A step that leaves the segments and their numbers alone. *)
LEMMA SegmentsRest ==
  ASSUME SegmentInv, UNCHANGED <<syncState, pending, cloud, blind>>, PassIsBacked',
         BareMeansAccepted'
  PROVE  SegmentInv'
<1>1. SegmentNumbers' /\ CloudAgrees'
  BY DEF SegmentInv, SegmentNumbers, CloudAgrees
<1>2. CloudBehind'
  BY DEF SegmentInv, CloudBehind, Cold
<1> QED
  BY <1>1, <1>2 DEF SegmentInv

(* What is closed and on file reaches the cloud. *)
LEMMA CloudGrows ==
  ASSUME SegmentInv, NEW new, new \subseteq pass.todo, cloud' = cloud \cup Received(new),
         UNCHANGED <<syncState, pending, bare, blind>>, PassIsBacked'
  PROVE  SegmentInv'
<1>1. SegmentNumbers'
  BY DEF SegmentInv, SegmentNumbers
<1>2. \A x \in new : x \in pending /\ x.stable
  BY DEF SegmentInv, PassIsBacked
<1>3. \A e \in Received(new) : \E x \in new : e = Envelope(x) /\ e.seq = x.seq
  BY DEF Received, Envelope
<1>4. \A e \in Received(new) : e.seq < syncState.next /\ \A x \in pending : ~x.stable => e.seq < x.seq
  BY <1>2, <1>3 DEF SegmentInv, SegmentNumbers
<1>5. CloudBehind'
  <2>1. PICK n \in Nat : \A e \in cloud : e.seq \in 0 .. n
    BY DEF SegmentInv, CloudBehind
  <2>2. PICK m \in Nat : m >= n /\ m >= syncState.next
    BY <2>1 DEF SegmentInv, SegmentNumbers
  <2>3. \A e \in Received(new) : e.seq \in 0 .. m
    BY <1>2, <1>3, <2>2 DEF SegmentInv, SegmentNumbers
  <2>4. \A e \in cloud' : e.seq \in 0 .. m
    BY <2>1, <2>2, <2>3
  <2>5. \/ blind
        \/ Cold /\ pending = {}
        \/ \A e \in cloud' :
             e.seq < syncState.next /\ \A x \in pending : ~x.stable => e.seq < x.seq
    BY <1>4 DEF SegmentInv, CloudBehind
  <2> QED
    BY <2>4, <2>5 DEF CloudBehind, Cold
<1>6. CloudAgrees'
  <2> SUFFICES ASSUME ~blind
               PROVE  \A e \in cloud' :
                        /\ \A d \in cloud' : d.seq = e.seq => d = e
                        /\ \A x \in pending : x.stable /\ x.seq = e.seq => Envelope(x) = e
    BY DEF CloudAgrees
  <2>1. \A e \in cloud :
          /\ \A d \in cloud : d.seq = e.seq => d = e
          /\ \A x \in pending : x.stable /\ x.seq = e.seq => Envelope(x) = e
    BY DEF SegmentInv, CloudAgrees
  <2>2. \A e \in Received(new) : \A x \in pending : x.seq = e.seq => Envelope(x) = e
    BY <1>2, <1>3 DEF SegmentInv, SegmentNumbers
  <2>3. \A e \in Received(new), d \in cloud : d.seq = e.seq => d = e
    BY <1>2, <1>3, <2>1
  <2>4. \A e \in Received(new), d \in Received(new) : d.seq = e.seq => d = e
    BY <1>2, <1>3, <2>2
  <2> QED
    BY <2>1, <2>2, <2>3, <2>4
<1>7. BareMeansAccepted'
  BY DEF SegmentInv, BareMeansAccepted
<1> QED
  BY <1>1, <1>5, <1>6, <1>7 DEF SegmentInv

-----------------------------------------------------------------------------
(* The numbers a pass goes on from lie above everything the cloud has. *)
LEMMA NumberedAbove ==
  ASSUME SegmentInv, NEW answered, Cold => answered \/ cloud = {}, ~blind
  PROVE  LET begun == Numbered(answered)
         IN  /\ Mutable(pending) = {} => \A e \in cloud : e.seq < begun.next
             /\ \A x \in Mutable(pending), e \in cloud : e.seq < x.seq
<1>1. PICK n \in Nat : \A e \in cloud : e.seq \in 0 .. n
  BY DEF SegmentInv, CloudBehind
<1>2. CASE Cold /\ answered /\ cloud # {}
  <2>1. pending = {}
    BY <1>2 DEF Cold, SegmentInv, SegmentNumbers
  <2>2. Sequences(cloud) \in SUBSET (0 .. n) /\ Sequences(cloud) # {}
    BY <1>1, <1>2 DEF Sequences
  <2>3. \A k \in Sequences(cloud) : k =< LastSent
    BY <1>2, <2>2, MaxIs DEF LastSent
  <2>4. LastSent \in Nat
    <3>1. Max(Sequences(cloud)) \in 0 .. n
      BY <2>2, MaxIs
    <3> QED
      BY <1>2, <3>1 DEF LastSent
  <2>5. Numbered(answered).next = LastSent + 1
    BY <1>2 DEF Numbered
  <2>6. \A e \in cloud : e.seq \in Sequences(cloud)
    BY DEF Sequences
  <2> QED
    BY <1>1, <2>1, <2>3, <2>4, <2>5, <2>6 DEF Mutable
<1>3. CASE cloud = {}
  BY <1>3
<1>4. CASE ~Cold
  <2>1. \A e \in cloud :
          e.seq < syncState.next /\ \A x \in pending : ~x.stable => e.seq < x.seq
    BY <1>4 DEF SegmentInv, CloudBehind
  <2>2. Numbered(answered) = syncState
    BY <1>4 DEF Numbered
  <2> QED
    BY <2>1, <2>2 DEF Mutable
<1> QED
  BY <1>2, <1>3, <1>4

LEMMA NumberedTyped ==
  ASSUME SegmentInv, NEW answered
  PROVE  /\ Numbered(answered).next \in Nat \ {0}
         /\ \A x \in pending : x.seq < Numbered(answered).next
<1>1. PICK n \in Nat : \A e \in cloud : e.seq \in 0 .. n
  BY DEF SegmentInv, CloudBehind
<1>2. CASE Cold /\ answered /\ cloud # {}
  <2>1. pending = {}
    BY <1>2 DEF Cold, SegmentInv, SegmentNumbers
  <2>2. Sequences(cloud) \in SUBSET (0 .. n) /\ Sequences(cloud) # {}
    BY <1>1, <1>2 DEF Sequences
  <2>3. LastSent \in Nat
    <3>1. Max(Sequences(cloud)) \in 0 .. n
      BY <2>2, MaxIs
    <3> QED
      BY <1>2, <3>1 DEF LastSent
  <2>4. Numbered(answered).next = LastSent + 1
    BY <1>2 DEF Numbered
  <2> QED
    BY <2>1, <2>3, <2>4
<1>3. CASE ~(Cold /\ answered /\ cloud # {})
  <2>1. Numbered(answered) = syncState
    BY <1>3 DEF Numbered
  <2> QED
    BY <2>1 DEF SegmentInv, SegmentNumbers
<1> QED
  BY <1>2, <1>3

LEMMA BuiltSegments ==
  ASSUME NEW group, NEW count \in Nat, NEW first \in Nat \ {0}, NEW previous,
         NEW closes \in BOOLEAN, NEW built,
         built = Built(group, count, first, previous, closes)
  PROVE  \A x \in built :
           /\ x.seq \in Nat /\ first =< x.seq /\ x.seq < first + count
           /\ x.stable \in BOOLEAN
           /\ ~x.stable => x.seq = first + count - 1
           /\ \A y \in built : x.seq = y.seq => x = y
<1> DEFINE Segment(n) ==
      [seq    |-> first + n - 1,
       prev   |-> IF n = 1 THEN previous ELSE first + n - 2,
       items  |-> {item \in DOMAIN group : group[item] = n},
       stable |-> n < count \/ closes]
<1>1. built = {Segment(n) : n \in 1 .. count}
  BY DEF Built
<1>2. \A n \in 1 .. count : Segment(n).seq = first + n - 1
  OBVIOUS
<1>3. \A n \in 1 .. count : Segment(n).stable = (n < count \/ closes)
  OBVIOUS
<1>4. \A n \in 1 .. count : (n < count \/ closes) \in BOOLEAN
  OBVIOUS
<1> HIDE DEF Segment
<1> SUFFICES ASSUME NEW x \in built
             PROVE  /\ x.seq \in Nat /\ first =< x.seq /\ x.seq < first + count
                    /\ x.stable \in BOOLEAN
                    /\ ~x.stable => x.seq = first + count - 1
                    /\ \A y \in built : x.seq = y.seq => x = y
  OBVIOUS
<1>5. PICK n \in 1 .. count : x = Segment(n)
  BY <1>1
<1>6. x.seq \in Nat /\ first =< x.seq /\ x.seq < first + count
  BY <1>2, <1>5
<1>7. x.stable \in BOOLEAN
  BY <1>3, <1>4, <1>5
<1>8. ~x.stable => x.seq = first + count - 1
  <2>1. ~x.stable => ~(n < count)
    BY <1>3, <1>5
  <2> QED
    BY <1>2, <1>5, <2>1
<1>9. ASSUME NEW y \in built, x.seq = y.seq PROVE x = y
  <2>1. PICK m \in 1 .. count : y = Segment(m)
    BY <1>1
  <2>2. m = n
    BY <1>2, <1>5, <1>9, <2>1
  <2> QED
    BY <1>5, <2>1, <2>2
<1> QED
  BY <1>6, <1>7, <1>8, <1>9

LEMMA GatherHolds ==
  ASSUME SegmentInv, NEW answered \in BOOLEAN, NEW closes \in BOOLEAN, Gather(answered, closes)
  PROVE  SegmentInv'
<1> DEFINE kept == pending \ Mutable(pending)
<1>1. PICK first, before, count, group :
        /\ count \in Nat
        /\ pending' = kept \cup Built(group, count, first, before, closes)
        /\ syncState'.next = first + count
        /\ first = IF Mutable(pending) # {} THEN First(Mutable(pending)).seq
                   ELSE Numbered(answered).next
  <2> DEFINE items  == UNION {segment.items : segment \in Mutable(pending)}
                         \cup UNION {Read(s) : s \in Streams}
             number == IF Mutable(pending) # {} THEN First(Mutable(pending)).seq
                       ELSE Numbered(answered).next
             previous == CASE Mutable(pending) # {} /\ First(Mutable(pending)).prev # 0
                                -> First(Mutable(pending)).prev
                         [] kept # {} -> Max(Sequences(kept))
                         [] OTHER -> Numbered(answered).last
  <2>1. \E count \in 0 .. Cardinality(items) : \E group \in Groupings(items, count) :
           /\ pending' = kept \cup Built(group, count, number, previous, closes)
           /\ syncState' = [Numbered(answered) EXCEPT
                !.cursor = [s \in Streams |-> CursorAfter(s)],
                !.next = number + count]
    BY DEF Gather
  <2>2. PICK first, before : first = number /\ before = previous
    OBVIOUS
  <2> HIDE DEF items, number, previous, kept
  <2>3. PICK count, group :
           /\ count \in 0 .. Cardinality(items)
           /\ pending' = kept \cup Built(group, count, first, before, closes)
           /\ syncState' = [Numbered(answered) EXCEPT
                !.cursor = [s \in Streams |-> CursorAfter(s)],
                !.next = first + count]
    BY <2>1, <2>2
  <2>4. syncState'.next = first + count
    BY <2>3 DEF Numbered
  <2>5. count \in Nat
    BY <2>3
  <2>6. first = IF Mutable(pending) # {} THEN First(Mutable(pending)).seq
                ELSE Numbered(answered).next
    BY <2>2 DEF number
  <2> QED
    BY <2>3, <2>4, <2>5, <2>6
<1>2. /\ pass' = [NoPass EXCEPT !.pc = "upload",
                                !.todo = {segment \in pending' : segment.stable}]
      /\ blind' = (blind \/ (Cold /\ ~answered /\ cloud # {}))
      /\ UNCHANGED <<cloud, bare>>
  BY DEF Gather
<1>3. \A x \in Mutable(pending) : \A y \in Mutable(pending) : x = y
  BY DEF Mutable, SegmentInv, SegmentNumbers
<1>4. \A x \in Mutable(pending) : x = First(Mutable(pending))
  BY <1>3 DEF First
<1>5. \A x \in Mutable(pending) : x.seq = first
  BY <1>1, <1>4
<1>6. first \in Nat \ {0}
  <2>1. CASE Mutable(pending) = {}
    BY <1>1, <2>1, NumberedTyped
  <2>2. CASE Mutable(pending) # {}
    BY <1>5, <2>2 DEF Mutable, SegmentInv, SegmentNumbers
  <2> QED
    BY <2>1, <2>2
<1>7. \A x \in kept : x \in pending /\ x.stable /\ x.seq \in Nat \ {0} /\ x.seq < first
  <2> SUFFICES ASSUME NEW x \in kept
               PROVE  x \in pending /\ x.stable /\ x.seq \in Nat \ {0} /\ x.seq < first
    OBVIOUS
  <2>1. x \in pending /\ x.stable /\ x.seq \in Nat \ {0}
    BY DEF Mutable, SegmentInv, SegmentNumbers
  <2>2. CASE Mutable(pending) = {}
    BY <1>1, <2>1, <2>2, NumberedTyped
  <2>3. ASSUME NEW y \in Mutable(pending) PROVE x.seq < first
    <3>1. y \in pending /\ ~y.stable /\ y.seq = first
      BY <1>5 DEF Mutable
    <3>2. x.seq =< y.seq /\ x.seq # y.seq
      BY <2>1, <3>1 DEF SegmentInv, SegmentNumbers
    <3> QED
      BY <1>6, <2>1, <3>1, <3>2
  <2> QED
    BY <2>1, <2>2, <2>3
<1>8. PICK built : built = Built(group, count, first, before, closes)
  OBVIOUS
<1>9. \A x \in built :
         /\ x.seq \in Nat /\ first =< x.seq /\ x.seq < first + count
         /\ x.stable \in BOOLEAN
         /\ ~x.stable => x.seq = first + count - 1
         /\ \A y \in built : x.seq = y.seq => x = y
  BY <1>1, <1>6, <1>8, BuiltSegments
<1>10. pending' = kept \cup built
  BY <1>1, <1>8
<1> HIDE DEF kept
<1>11. SegmentNumbers'
  <2>1. syncState'.next \in Nat \ {0}
    BY <1>1, <1>6
  <2>2. ASSUME NEW x \in pending'
        PROVE  x.seq \in 1 .. (syncState'.next - 1) /\ x.stable \in BOOLEAN
    <3>1. CASE x \in kept
      BY <1>1, <1>6, <1>7, <3>1 DEF SegmentInv, SegmentNumbers
    <3>2. CASE x \in built
      BY <1>1, <1>6, <1>9, <3>2
    <3> QED
      BY <1>10, <3>1, <3>2
  <2>3. ASSUME NEW x \in pending', NEW y \in pending'
        PROVE  (x.seq = y.seq => x = y) /\ (~x.stable => y.seq =< x.seq)
    <3>1. CASE x \in kept /\ y \in kept
      BY <1>7, <3>1 DEF SegmentInv, SegmentNumbers
    <3>2. CASE x \in built /\ y \in built
      BY <1>1, <1>6, <1>9, <3>2
    <3>3. CASE x \in kept /\ y \in built
      BY <1>6, <1>7, <1>9, <3>3
    <3>4. CASE x \in built /\ y \in kept
      BY <1>6, <1>7, <1>9, <3>4
    <3> QED
      BY <1>10, <3>1, <3>2, <3>3, <3>4
  <2> QED
    BY <2>1, <2>2, <2>3 DEF SegmentNumbers
<1>12. ~blind' => \A e \in cloud : e.seq < first
  <2> SUFFICES ASSUME ~blind' PROVE \A e \in cloud : e.seq < first
    OBVIOUS
  <2>1. ~blind /\ (Cold => answered \/ cloud = {})
    BY <1>2
  <2>2. /\ Mutable(pending) = {} => \A e \in cloud : e.seq < Numbered(answered).next
        /\ \A x \in Mutable(pending), e \in cloud : e.seq < x.seq
    BY <2>1, NumberedAbove
  <2> QED
    BY <1>1, <1>5, <2>2
<1>13. \E n \in Nat : \A e \in cloud : e.seq \in 0 .. n
  BY DEF SegmentInv, CloudBehind
<1>14. CloudBehind'
  <2>1. ASSUME ~blind', NEW e \in cloud
        PROVE  e.seq < syncState'.next /\ \A x \in pending' : ~x.stable => e.seq < x.seq
    <3>1. e.seq \in Nat /\ e.seq < first
      BY <1>12, <1>13, <2>1
    <3>2. \A x \in pending' : ~x.stable => x \in built
      BY <1>7, <1>10
    <3> QED
      BY <1>1, <1>6, <1>9, <3>1, <3>2
  <2> QED
    BY <1>2, <1>13, <2>1 DEF CloudBehind
<1>15. CloudAgrees'
  <2> SUFFICES ASSUME ~blind'
               PROVE  \A e \in cloud :
                        /\ \A d \in cloud : d.seq = e.seq => d = e
                        /\ \A x \in pending' : x.stable /\ x.seq = e.seq => Envelope(x) = e
    BY <1>2 DEF CloudAgrees
  <2>1. ~blind
    BY <1>2
  <2>2. \A e \in cloud : e.seq \in Nat /\ e.seq < first
    BY <1>12, <1>13
  <2>3. \A x \in built : first =< x.seq /\ x.seq \in Nat
    BY <1>9
  <2>4. \A e \in cloud, x \in built : x.seq # e.seq
    BY <1>6, <2>2, <2>3
  <2> QED
    BY <1>7, <1>10, <2>1, <2>4 DEF SegmentInv, CloudAgrees
<1>16. PassIsBacked'
  <2>1. pass'.todo = {x \in pending' : x.stable} /\ pass'.accepted = {} /\ pass'.pc = "upload"
    BY <1>2 DEF NoPass
  <2> QED
    BY <2>1 DEF PassIsBacked, Received
<1>17. BareMeansAccepted'
  BY <1>2 DEF SegmentInv, BareMeansAccepted
<1> QED
  BY <1>11, <1>14, <1>15, <1>16, <1>17 DEF SegmentInv

-----------------------------------------------------------------------------
LEMMA UploadHolds ==
  ASSUME SegmentInv, NEW chunk \in Chunks,
         NEW accepted \in SUBSET chunk, Upload(chunk, accepted)
  PROVE  SegmentInv'
<1>1. /\ chunk \subseteq pass.todo /\ accepted \subseteq pass.todo
      /\ cloud' = cloud \cup Received(accepted)
      /\ pass' = [pc |-> "clear", accepted |-> accepted, todo |-> pass.todo \ chunk]
      /\ UNCHANGED <<syncState, pending, bare, blind>>
  BY DEF Upload, Chunks
<1>2. PassIsBacked'
  BY <1>1 DEF SegmentInv, PassIsBacked
<1> QED
  BY <1>1, <1>2, CloudGrows

LEMMA UploadFailsHolds ==
  ASSUME SegmentInv, NEW chunk \in Chunks, UploadFails(chunk)
  PROVE  SegmentInv'
<1>1. /\ cloud' \in {cloud, cloud \cup Received(chunk)}
      /\ pass' = NoPass /\ UNCHANGED <<syncState, pending, bare, blind>>
  BY DEF UploadFails
<1>2. PassIsBacked'
  BY <1>1 DEF PassIsBacked, NoPass, Received
<1>3. PICK new \in SUBSET pass.todo : cloud' = cloud \cup Received(new)
  <2>1. CASE cloud' = cloud
    <3>1. cloud' = cloud \cup Received({})
      BY <2>1 DEF Received
    <3> QED
      BY <3>1
  <2>2. CASE cloud' = cloud \cup Received(chunk)
    BY <2>2 DEF Chunks
  <2> QED
    BY <1>1, <2>1, <2>2
<1> QED
  BY <1>1, <1>2, <1>3, CloudGrows

LEMMA ClearHolds == ASSUME SegmentInv, ClearStructure PROVE SegmentInv'
<1>1. /\ bare' = bare \cup Acknowledged(pass.accepted)
      /\ pass' = [pass EXCEPT !.pc = "acknowledge"]
      /\ UNCHANGED <<syncState, pending, cloud, blind>>
  BY DEF ClearStructure
<1>2. PassIsBacked'
  BY <1>1 DEF SegmentInv, PassIsBacked
<1>3. \A item \in Acknowledged(pass.accepted) : \E e \in cloud : item \in e.items
  <2> SUFFICES ASSUME NEW item \in Acknowledged(pass.accepted)
               PROVE  \E e \in cloud : item \in e.items
    OBVIOUS
  <2>1. PICK x \in pass.accepted : item \in x.items
    BY DEF Acknowledged, FramesOf
  <2>2. Envelope(x) \in cloud
    BY DEF SegmentInv, PassIsBacked, Received
  <2>3. Envelope(x).items = x.items
    BY DEF Envelope
  <2> QED
    BY <2>1, <2>2, <2>3
<1>4. BareMeansAccepted'
  BY <1>1, <1>3 DEF SegmentInv, BareMeansAccepted
<1> QED
  BY <1>1, <1>2, <1>4, SegmentsRest

(* What is accepted goes off the file, nothing else. *)
LEMMA AcknowledgeHolds == ASSUME SegmentInv, Acknowledge PROVE SegmentInv'
<1>1. /\ pending' = pending \ pass.accepted
      /\ syncState'.next = syncState.next /\ syncState'.cursor = syncState.cursor
      /\ pass' = [pass EXCEPT !.pc = "upload", !.accepted = {}]
      /\ UNCHANGED <<cloud, bare, blind>>
  BY DEF Acknowledge
<1>2. SegmentNumbers'
  BY <1>1 DEF SegmentInv, SegmentNumbers
<1>3. CloudBehind'
  BY <1>1 DEF SegmentInv, CloudBehind, Cold
<1>4. CloudAgrees'
  BY <1>1 DEF SegmentInv, CloudAgrees
<1>5. PassIsBacked'
  <2>1. pass'.todo \in {pass.todo} /\ pass'.accepted \in {{}, pass.accepted}
    BY <1>1
  <2> QED
    BY <1>1, <2>1 DEF SegmentInv, PassIsBacked, Received
<1>6. BareMeansAccepted'
  BY <1>1 DEF SegmentInv, BareMeansAccepted
<1> QED
  BY <1>2, <1>3, <1>4, <1>5, <1>6 DEF SegmentInv

LEMMA PassEndHolds == ASSUME SegmentInv, PassEnds \/ PassAborted PROVE SegmentInv'
<1>1. pass' = NoPass /\ UNCHANGED <<syncState, pending, cloud, bare, blind>>
  BY DEF PassEnds, PassAborted
<1>2. PassIsBacked' /\ BareMeansAccepted'
  BY <1>1 DEF SegmentInv, PassIsBacked, BareMeansAccepted, NoPass, Received
<1> QED
  BY <1>1, <1>2, SegmentsRest

LEMMA StateLostHolds == ASSUME SegmentInv, StateLost PROVE SegmentInv'
<1>1. /\ pass.pc = "idle" /\ syncState' = NewState /\ pending' = {}
      /\ UNCHANGED <<cloud, bare, pass, blind>>
  BY DEF StateLost
<1>2. SegmentNumbers' /\ CloudAgrees' /\ PassIsBacked' /\ BareMeansAccepted'
  BY <1>1 DEF SegmentInv, SegmentNumbers, CloudAgrees, PassIsBacked, BareMeansAccepted, NewState
<1>3. CloudBehind'
  BY <1>1 DEF SegmentInv, CloudBehind, Cold, NewState
<1> QED
  BY <1>2, <1>3 DEF SegmentInv

LEMMA RowsHold ==
  ASSUME SegmentInv, TimePasses \/ (\E s \in Streams : Capture(s)) \/ UNCHANGED segmentVars
  PROVE  SegmentInv'
<1>1. UNCHANGED <<syncState, pending, cloud, bare, pass, blind>>
  BY DEF TimePasses, Capture, segmentVars
<1>2. PassIsBacked' /\ BareMeansAccepted'
  BY <1>1 DEF SegmentInv, PassIsBacked, BareMeansAccepted
<1> QED
  BY <1>1, <1>2, SegmentsRest

LEMMA SegmentInvHolds == SegmentSpec => []SegmentInv
<1>1. SegmentInv /\ [SegmentNext]_segmentVars => SegmentInv'
  <2> SUFFICES ASSUME SegmentInv, [SegmentNext]_segmentVars PROVE SegmentInv'
    OBVIOUS
  <2>1. ASSUME NEW answered \in BOOLEAN, NEW closes \in BOOLEAN, Gather(answered, closes)
        PROVE  SegmentInv'
    BY <2>1, GatherHolds
  <2>2. ASSUME NEW chunk \in Chunks, NEW accepted \in SUBSET chunk, Upload(chunk, accepted)
        PROVE  SegmentInv'
    BY <2>2, UploadHolds
  <2>3. ASSUME NEW chunk \in Chunks, UploadFails(chunk) PROVE SegmentInv'
    BY <2>3, UploadFailsHolds
  <2> QED
    BY <2>1, <2>2, <2>3, ClearHolds, AcknowledgeHolds, PassEndHolds, StateLostHolds, RowsHold
    DEF SegmentNext
<1> QED
  BY <1>1, SegmentInitHolds, PTL DEF SegmentSpec

(* A number of a segment stands for one content, on file and in the cloud,   *)
(* through refusals, lost answers, aborted passes and a lost state database,*)
(* for every size of chunk and every number of rows, unless a cold start    *)
(* went without the cloud's answer.                                         *)
THEOREM ContentsAgree == SegmentSpec => []OneContentPerSegment
<1>1. SegmentInv => OneContentPerSegment
  <2> SUFFICES ASSUME SegmentInv, ~blind
               PROVE  \A x, y \in cloud \cup Received({segment \in pending : segment.stable}) :
                        x.seq = y.seq => x = y
    BY DEF OneContentPerSegment
  <2>1. \A x \in Received({segment \in pending : segment.stable}) :
          \E segment \in pending :
            segment.stable /\ x = Envelope(segment) /\ x.seq = segment.seq
    BY DEF Received, Envelope
  <2>2. \A x \in Received({segment \in pending : segment.stable}), e \in cloud :
          x.seq = e.seq => x = e
    BY <2>1 DEF SegmentInv, CloudAgrees
  <2>3. \A x, y \in Received({segment \in pending : segment.stable}) :
          x.seq = y.seq => x = y
    BY <2>1 DEF SegmentInv, SegmentNumbers
  <2> QED
    BY <2>2, <2>3 DEF SegmentInv, CloudAgrees
<1> QED
  BY <1>1, SegmentInvHolds, PTL

(* A frame loses its structure only when the cloud has the frame. *)
THEOREM ClearedAreAccepted == SegmentSpec => []BareMeansAccepted
<1>1. SegmentInv => BareMeansAccepted
  BY DEF SegmentInv
<1> QED
  BY <1>1, SegmentInvHolds, PTL

-----------------------------------------------------------------------------
(* Images on their way to the cloud (ImageSync).                            *)

(* ImageSync. *)

Stands(c) == cloudImages \cup passedOver \cup dropped \cup FramesIn(c.complete)
             \cup ToSet(c.retry) \cup ToSet(work.retries)

Reaches(c) == FramesIn(c.complete) \cup ToSet(c.retry) \cup {c.scanned}

(* Below every frame that a cache knows of nothing is missing. *)
Accounted(c) ==
  \A g \in Reaches(c) \cup ToSet(work.retries) : 1 .. g \subseteq Stands(c)

(* Of what a cache still has to upload there is a snapshot, unless it grew   *)
(* too old.                                                                 *)
Remain == snapshots \cup (1 .. expired)
HasFile(c) == ToSet(c.retry) \cup ((c.scanned + 1) .. shots) \subseteq Remain

Frames == 1 .. shots
CacheSet == [scanned : 0 .. shots, complete : SUBSET [frame : Frames, failed : BOOLEAN],
             retry : Seq(Frames)]
CacheOK(c) == c \in CacheSet /\ Accounted(c) /\ HasFile(c)

WorkSet == [pc : {"idle", "flush", "retry", "again", "scan", "upload", "close"},
            then : {"idle", "retry", "again", "close"}, retries : Seq(Frames),
            uploads : SUBSET Frames, moved : 0 .. shots]

(* The uploads of a pass have their snapshots, and with them nothing is      *)
(* missing up to where the cursor will go.                                  *)
PassAccounted ==
  /\ CacheOK(cache)
  /\ work.uploads \subseteq (1 .. work.moved) \cap snapshots /\ (work.uploads # {} => work.pc = "upload")
  /\ 1 .. work.moved \subseteq Stands(cache) \cup work.uploads
  /\ work.then # "idle"
  /\ work.retries # <<>> => work.pc = "again" \/ (work.pc = "flush" /\ work.then = "again")
  /\ work.pc = "retry" \/ (work.pc = "flush" /\ work.then = "retry") => cache = cacheFile

ImageType ==
  /\ shots \in Nat /\ expired \in 0 .. shots /\ snapshots \subseteq (expired + 1) .. shots
  /\ work \in WorkSet

ImageInv ==
  /\ ImageType /\ CacheOK(cacheFile)
  /\ work.pc = "idle" => work = NoWork
  /\ work.pc # "idle" => PassAccounted

LEMMA LargestIs ==
  ASSUME NEW n \in Nat, NEW S \in SUBSET (0 .. n), NEW k \in 0 .. n
  PROVE  Largest(S, k) \in S \cup {k} /\ Largest(S, k) \in 0 .. n /\ k =< Largest(S, k)
BY MaxIs DEF Largest

-----------------------------------------------------------------------------
LEMMA ImageInitHolds == ImageInit => ImageInv
<1> SUFFICES ASSUME ImageInit PROVE ImageInv
  OBVIOUS
<1>1. ImageType
  BY DEF ImageInit, ImageType, WorkSet, NoWork, Frames
<1>2. CacheOK(cacheFile)
  <2>1. cacheFile \in CacheSet
    BY DEF ImageInit, CacheSet, NewCache, Frames
  <2>2. Reaches(cacheFile) \cup ToSet(work.retries) = {0}
    BY EmptySet DEF ImageInit, NewCache, NoWork, Reaches, FramesIn
  <2>3. HasFile(cacheFile)
    BY EmptySet DEF ImageInit, NewCache, HasFile, Remain
  <2> QED
    BY <2>1, <2>2, <2>3 DEF CacheOK, Accounted
<1> QED
  BY <1>1, <1>2 DEF ImageInit, ImageInv, NoWork

(* A cache that a step does not touch stays as it is, when nothing that      *)
(* stands is taken away.                                                    *)
LEMMA FileHolds ==
  ASSUME ImageInv, UNCHANGED cacheFile, shots =< shots', shots' \in Nat,
         Remain \cup ((shots + 1) .. shots') \subseteq Remain',
         cloudImages \cup passedOver \cup dropped \cup ToSet(work.retries) \subseteq
           cloudImages' \cup passedOver' \cup dropped' \cup ToSet(work'.retries) \cup ToSet(cacheFile.retry)
             \cup FramesIn(cacheFile.complete),
         ToSet(work'.retries) \subseteq ToSet(work.retries) \cup ToSet(cacheFile.retry)
  PROVE  CacheOK(cacheFile)'
<1>1. cacheFile' \in CacheSet'
  BY DEF ImageInv, ImageType, CacheOK, CacheSet, Frames
<1>2. Stands(cacheFile) \subseteq Stands(cacheFile)'
  BY DEF Stands
<1>3. (Reaches(cacheFile) \cup ToSet(work.retries))' \subseteq Reaches(cacheFile) \cup ToSet(work.retries)
  BY DEF Reaches
<1>4. Accounted(cacheFile)'
  <2>1. \A g \in (Reaches(cacheFile) \cup ToSet(work.retries))' : 1 .. g \subseteq Stands(cacheFile)
    BY <1>3 DEF ImageInv, CacheOK, Accounted
  <2> QED
    BY <2>1, <1>2 DEF Accounted
<1>5. HasFile(cacheFile)'
  <2>1. cacheFile.scanned \in Nat /\ shots \in Nat
    BY DEF ImageInv, ImageType, CacheOK, CacheSet
  <2>2. (cacheFile.scanned + 1) .. shots' \subseteq ((cacheFile.scanned + 1) .. shots) \cup ((shots + 1) .. shots')
    BY <2>1
  <2> QED
    BY <2>2 DEF ImageInv, CacheOK, HasFile
<1> QED
  BY <1>1, <1>4, <1>5 DEF CacheOK

LEMMA CacheHolds ==
  ASSUME ImageInv, work.pc # "idle", UNCHANGED cache, shots =< shots', shots' \in Nat,
         Remain \cup ((shots + 1) .. shots') \subseteq Remain',
         cloudImages \cup passedOver \cup dropped \cup ToSet(work.retries) \subseteq
           cloudImages' \cup passedOver' \cup dropped' \cup ToSet(work'.retries),
         ToSet(work'.retries) \subseteq ToSet(work.retries)
  PROVE  CacheOK(cache)' /\ Stands(cache) \subseteq Stands(cache)'
<1>1. cache' \in CacheSet'
  BY DEF ImageInv, ImageType, PassAccounted, CacheOK, CacheSet, Frames
<1>2. Stands(cache) \subseteq Stands(cache)'
  BY DEF Stands
<1>3. (Reaches(cache) \cup ToSet(work.retries))' \subseteq Reaches(cache) \cup ToSet(work.retries)
  BY DEF Reaches
<1>4. Accounted(cache)'
  <2>1. \A g \in (Reaches(cache) \cup ToSet(work.retries))' : 1 .. g \subseteq Stands(cache)
    BY <1>3 DEF ImageInv, PassAccounted, CacheOK, Accounted
  <2> QED
    BY <2>1, <1>2 DEF Accounted
<1>5. HasFile(cache)'
  <2>1. cache.scanned \in Nat /\ shots \in Nat
    BY DEF ImageInv, ImageType, PassAccounted, CacheOK, CacheSet
  <2>2. (cache.scanned + 1) .. shots' \subseteq ((cache.scanned + 1) .. shots) \cup ((shots + 1) .. shots')
    BY <2>1
  <2> QED
    BY <2>2 DEF ImageInv, PassAccounted, CacheOK, HasFile
<1> QED
  BY <1>1, <1>2, <1>4, <1>5 DEF CacheOK

(* A written cache is as good as the cache of the pass. *)
LEMMA FileWritten ==
  ASSUME CacheOK(cache)', cacheFile' = cache'
  PROVE  CacheOK(cacheFile)'
BY DEF CacheOK, CacheSet, Accounted, HasFile, Stands, Reaches, Remain, Frames

-----------------------------------------------------------------------------
(* The steps outside a pass, and its beginning and end. *)
LEMMA CaptureShotHolds ==
  ASSUME ImageInv, CaptureShot
  PROVE  ImageInv'
<1>1. ImageType'
  <2>1. /\ shots' \in Nat /\ expired' \in 0 .. shots' /\ snapshots' \subseteq (expired' + 1) .. shots'
        /\ shots =< shots' /\ Frames \subseteq Frames'
    BY DEF ImageInv, ImageType, CaptureShot, Frames
  <2>2. work \in WorkSet /\ work' = work
    BY DEF ImageInv, ImageType, CaptureShot
  <2>3. work.retries \in Seq(Frames')
    BY <2>1, <2>2 DEF WorkSet
  <2>4. work.uploads \subseteq Frames' /\ work.moved \in 0 .. shots'
    BY <2>1, <2>2 DEF WorkSet, ImageInv, ImageType
  <2>5. work' \in WorkSet'
    BY <2>2, <2>3, <2>4 DEF WorkSet
  <2> QED
    BY <2>1, <2>5 DEF ImageType
<1>2. /\ shots =< shots' /\ shots' \in Nat
      /\ Remain \cup ((shots + 1) .. shots') \subseteq Remain'
  BY DEF ImageInv, ImageType, CaptureShot, Remain
<1>3. CacheOK(cacheFile)'
  BY <1>2, FileHolds DEF CaptureShot
<1>4. ASSUME work.pc # "idle" PROVE PassAccounted'
  <2>1. CacheOK(cache)' /\ Stands(cache) \subseteq Stands(cache)'
    BY <1>2, <1>4, CacheHolds DEF CaptureShot
  <2> QED
    BY <2>1, <1>4 DEF PassAccounted, ImageInv, CaptureShot
<1> QED
  BY <1>1, <1>3, <1>4 DEF ImageInv, CaptureShot

LEMMA BeginImagesHolds ==
  ASSUME ImageInv, BeginImages
  PROVE  ImageInv'
<1>1. work.retries = <<>> /\ work.uploads = {} /\ work.moved = 0
  BY DEF BeginImages, ImageInv, NoWork
<1>2. work' = [pc |-> "flush", then |-> "retry", retries |-> <<>>, uploads |-> {}, moved |-> 0]
  BY DEF BeginImages, NoWork
<1>3. ImageType'
  BY <1>2 DEF ImageInv, ImageType, BeginImages, WorkSet, Frames
<1>4. CacheOK(cacheFile)'
  BY <1>1, <1>2, FileHolds DEF BeginImages, Remain, ImageInv, ImageType
<1>5. CacheOK(cache)'
  BY <1>4 DEF BeginImages, CacheOK, CacheSet, Accounted, HasFile, Stands, Reaches, Remain, Frames
<1>6. PassAccounted'
  <2>1. 1 .. work'.moved = {}
    BY <1>2
  <2>2. work'.uploads = {} /\ work'.retries = <<>> /\ work'.pc = "flush" /\ work'.then = "retry"
    BY <1>2
  <2>3. /\ 1 .. work'.moved \subseteq Stands(cache)' \cup work'.uploads
        /\ work'.uploads \subseteq (1 .. work'.moved) \cap snapshots' /\ cache' = cacheFile'
    BY <2>1, <2>2 DEF BeginImages
  <2> QED
    BY <2>2, <2>3, <1>5, Zenon DEF PassAccounted
<1> QED
  BY <1>2, <1>3, <1>4, <1>6 DEF ImageInv

LEMMA AbortedHolds ==
  ASSUME ImageInv, ImagesAborted
  PROVE  ImageInv'
<1>1. ToSet(work'.retries) = {} /\ work' = NoWork
  BY EmptySet DEF ImagesAborted, NoWork
<1>2. ImageType'
  BY <1>1 DEF ImageInv, ImageType, ImagesAborted, WorkSet, Frames, NoWork
<1>3. CacheOK(cacheFile)'
  BY <1>1, FileHolds DEF ImagesAborted, Remain, ImageInv, ImageType
<1> QED
  BY <1>1, <1>2, <1>3 DEF ImageInv, NoWork

(* Between two passes snapshots go. *)
LEMMA SnapshotsGo ==
  ASSUME ImageInv, work.pc = "idle", snapshots' \subseteq snapshots, expired' \in 0 .. shots,
         snapshots' \subseteq (expired' + 1) .. shots, HasFile(cacheFile)',
         UNCHANGED <<shots, cacheFile, work, cloudImages, passedOver, dropped>>
  PROVE  ImageInv'
<1>1. ImageType'
  BY DEF ImageInv, ImageType, WorkSet, Frames
<1>2. cacheFile' \in CacheSet' /\ Accounted(cacheFile)'
  BY DEF ImageInv, CacheOK, CacheSet, Frames, Accounted, Stands, Reaches
<1> QED
  BY <1>1, <1>2 DEF ImageInv, CacheOK

LEMMA CleanupHolds ==
  ASSUME ImageInv, Cleanup
  PROVE  ImageInv'
<1>1. cacheFile.scanned \in Nat /\ Waiting \subseteq Frames /\ shots \in Nat /\ expired \in Nat
  BY SetOfSeq DEF ImageInv, ImageType, CacheOK, CacheSet, Waiting, FramesIn, Frames
<1>2. CleanTo =< cacheFile.scanned /\ CleanTo \in Int /\ \A f \in Waiting : CleanTo < f
  <2>1. CASE Waiting = {}
    BY <2>1, <1>1 DEF CleanTo
  <2>2. CASE Waiting # {}
    <3>1. Waiting \in SUBSET Nat
      BY <1>1 DEF Frames
    <3>2. PICK x \in Waiting : \A y \in Waiting : x =< y
      BY <3>1, <2>2, LeastExists
    <3>3. Min(Waiting) \in Waiting /\ \A y \in Waiting : Min(Waiting) =< y
      BY <3>2 DEF Min
    <3>4. PICK m \in Nat : m = Min(Waiting)
      BY <3>1, <3>3
    <3>5. \E x1 \in {m - 1, cacheFile.scanned} : \A y \in {m - 1, cacheFile.scanned} : x1 =< y
      BY <3>4, <1>1
    <3>6. /\ Min({m - 1, cacheFile.scanned}) \in {m - 1, cacheFile.scanned}
          /\ \A y \in {m - 1, cacheFile.scanned} : Min({m - 1, cacheFile.scanned}) =< y
      BY <3>5 DEF Min
    <3>7. CleanTo = Min({m - 1, cacheFile.scanned})
      BY <2>2, <3>4 DEF CleanTo
    <3>8. PICK least \in {m - 1, cacheFile.scanned} :
            CleanTo = least /\ least =< m - 1 /\ least =< cacheFile.scanned
      BY <3>6, <3>7
    <3>9. least < m /\ least \in Int
      BY <3>4, <3>8, <1>1
    <3>10. \A f \in Waiting : f \in Int /\ m =< f
      BY <3>1, <3>3, <3>4
    <3> QED
      BY <3>4, <3>8, <3>9, <3>10
  <2> QED
    BY <2>1, <2>2
<1>3. HasFile(cacheFile)'
  <2>1. \A f \in ToSet(cacheFile.retry) \cup ((cacheFile.scanned + 1) .. shots) : f \in Int /\ f > CleanTo
    BY <1>1, <1>2 DEF Waiting, Frames
  <2>2. ToSet(cacheFile.retry) \cup ((cacheFile.scanned + 1) .. shots) \subseteq Remain
    BY DEF ImageInv, CacheOK, HasFile
  <2> QED
    BY <2>1, <2>2 DEF HasFile, Remain, Cleanup
<1>4. snapshots' \subseteq snapshots
  BY DEF Cleanup
<1> QED
  BY <1>3, <1>4, SnapshotsGo DEF Cleanup, ImageInv, ImageType

LEMMA ExpireHolds ==
  ASSUME ImageInv, Expire
  PROVE  ImageInv'
<1>1. PICK f \in snapshots : expired' = f /\ snapshots' = {g \in snapshots : g > f}
  BY DEF Expire
<1>2. /\ f \in Nat /\ shots \in Nat /\ expired \in Nat /\ f > expired /\ f =< shots
      /\ snapshots \subseteq 1 .. shots
  BY DEF ImageInv, ImageType
<1>3. Remain \subseteq Remain'
  BY <1>1, <1>2 DEF Remain
<1>4. HasFile(cacheFile)'
  BY <1>3 DEF ImageInv, CacheOK, HasFile, Expire
<1>5. snapshots' \subseteq snapshots /\ snapshots' \subseteq (expired' + 1) .. shots /\ expired' \in 0 .. shots
  <2>1. \A g \in snapshots : g \in Nat /\ g =< shots
    BY <1>2
  <2>2. {g \in snapshots : g > f} \subseteq (f + 1) .. shots
    <3> SUFFICES ASSUME NEW g \in snapshots, g > f PROVE g \in (f + 1) .. shots
      OBVIOUS
    <3> QED
      BY <2>1, <1>2
  <2>3. f \in 0 .. shots
    BY <1>2
  <2> QED
    BY <2>2, <2>3, <1>1
<1> QED
  BY <1>4, <1>5, SnapshotsGo DEF Expire

-----------------------------------------------------------------------------
(* The steps of a pass. *)

(* A step within the pass that leaves both caches alone. *)
LEMMA PassMoves ==
  ASSUME ImageInv, work.pc # "idle", UNCHANGED <<shots, snapshots, expired, cacheFile, cache>>,
         cloudImages \cup passedOver \cup dropped \cup ToSet(work.retries) \subseteq
           cloudImages' \cup passedOver' \cup dropped' \cup ToSet(work'.retries),
         ToSet(work'.retries) \subseteq ToSet(work.retries)
  PROVE  CacheOK(cacheFile)' /\ CacheOK(cache)' /\ Stands(cache) \subseteq Stands(cache)'
<1>1. /\ shots =< shots' /\ shots' \in Nat
      /\ Remain \cup ((shots + 1) .. shots') \subseteq Remain'
  BY DEF Remain, ImageInv, ImageType
<1>2. CacheOK(cacheFile)'
  BY <1>1, FileHolds
<1>3. CacheOK(cache)' /\ Stands(cache) \subseteq Stands(cache)'
  BY <1>1, CacheHolds
<1> QED
  BY <1>2, <1>3

LEMMA FlushHolds ==
  ASSUME ImageInv, Flush
  PROVE  ImageInv'
<1> DEFINE done == FramesIn(cache.complete)
<1>1. /\ cache \in CacheSet /\ done \subseteq 1 .. shots /\ shots \in Nat /\ work.pc = "flush"
      /\ cache.scanned \in 0 .. shots /\ PassAccounted /\ work.uploads = {} /\ work \in WorkSet
  BY DEF ImageInv, ImageType, PassAccounted, CacheOK, CacheSet, FramesIn, Frames, Flush
<1>2. PICK last \in done \cup {cache.scanned} : last = Largest(done, cache.scanned) /\ last \in 0 .. shots
                                              /\ cache.scanned =< last
  BY <1>1, LargestIs
<1>3. cache' = [scanned |-> last, complete |-> {}, retry |-> cache.retry]
  BY <1>1, <1>2 DEF Flush, CacheSet
<1>4. cache' \in CacheSet'
  BY <1>1, <1>2, <1>3 DEF CacheSet, Flush, Frames
<1>5. work' = [work EXCEPT !.pc = work.then]
  BY DEF Flush
<1>6. /\ work'.pc = work.then /\ work'.then = work.then /\ work'.retries = work.retries
      /\ work'.uploads = {} /\ work'.moved = work.moved /\ work' \in WorkSet'
  BY <1>1, <1>5 DEF WorkSet, Flush, Frames
<1>7. Stands(cache) = Stands(cache)' /\ FramesIn(cache'.complete) = {}
  <2>1. FramesIn(cache'.complete) = {}
    BY <1>3 DEF FramesIn
  <2> QED
    BY <2>1, <1>3, <1>6 DEF Stands, Flush
<1>8. Reaches(cache)' \subseteq Reaches(cache)
  BY <1>2, <1>3, <1>7 DEF Reaches
<1>9. Accounted(cache)'
  <2>1. \A g \in Reaches(cache) \cup ToSet(work.retries) : 1 .. g \subseteq Stands(cache)'
    BY <1>1, <1>7 DEF PassAccounted, CacheOK, Accounted
  <2> QED
    BY <2>1, <1>6, <1>8 DEF Accounted
<1>10. HasFile(cache)'
  <2>1. (cache'.scanned + 1) .. shots \subseteq (cache.scanned + 1) .. shots
    BY <1>1, <1>2, <1>3
  <2> QED
    BY <2>1, <1>1, <1>3 DEF PassAccounted, CacheOK, HasFile, Flush, Remain
<1>11. CacheOK(cache)'
  BY <1>4, <1>9, <1>10 DEF CacheOK
<1>12. CacheOK(cacheFile)'
  <2>1. CASE cacheFile' = cache'
    BY <2>1, <1>11, FileWritten
  <2>2. CASE cacheFile' = cacheFile /\ cache.complete = {}
    <3>1. cloudImages' = cloudImages
      BY <2>2 DEF Flush, FramesIn
    <3> QED
      BY <3>1, <2>2, <1>1, <1>6, FileHolds DEF Flush, Remain, ImageInv, ImageType
  <2> QED
    BY <2>1, <2>2 DEF Flush
<1>13. PassAccounted'
  <2>1. 1 .. work'.moved \subseteq Stands(cache)' \cup work'.uploads
    BY <1>1, <1>6, <1>7 DEF PassAccounted
  <2>2. work'.retries # <<>> => work'.pc = "again" \/ (work'.pc = "flush" /\ work'.then = "again")
    BY <1>1, <1>6 DEF PassAccounted
  <2>3. ASSUME work'.pc = "retry" \/ (work'.pc = "flush" /\ work'.then = "retry") PROVE cache' = cacheFile'
    <3>1. work.then = "retry" /\ cache = cacheFile
      BY <2>3, <1>1, <1>6 DEF PassAccounted, WorkSet
    <3>2. CASE cache.complete = {}
      <4>1. last = cache.scanned
        BY <3>2, <1>2 DEF FramesIn
      <4>2. cache = [scanned |-> cache.scanned, complete |-> cache.complete, retry |-> cache.retry]
        BY <1>1 DEF CacheSet
      <4> QED
        BY <3>1, <3>2, <4>1, <4>2, <1>3 DEF Flush
    <3>3. CASE cache.complete # {}
      BY <3>3 DEF Flush
    <3> QED
      BY <3>2, <3>3
  <2> QED
    <3>1. work'.uploads = {} /\ work'.uploads \subseteq (1 .. work'.moved) \cap snapshots' /\ work'.then # "idle"
      BY <1>1, <1>6 DEF PassAccounted
    <3> QED
      BY <2>1, <2>2, <2>3, <3>1, <1>11, Zenon DEF PassAccounted
<1>14. ImageType'
  BY <1>6 DEF ImageInv, ImageType, Flush
<1>15. work'.pc # "idle"
  BY <1>1, <1>6 DEF PassAccounted
<1> QED
  BY <1>12, <1>13, <1>14, <1>15 DEF ImageInv

LEMMA FlushFailsHolds ==
  ASSUME ImageInv, FlushFails
  PROVE  ImageInv'
<1>1. /\ cache \in CacheSet /\ shots \in Nat /\ work.pc = "flush"
      /\ PassAccounted /\ work.uploads = {} /\ work \in WorkSet
  BY DEF ImageInv, ImageType, PassAccounted, CacheOK, FlushFails
<1>2. PICK again : again = {entry \in cache.complete : ~entry.failed}
  OBVIOUS
<1>3. PICK kept : kept = {[frame |-> f, failed |-> TRUE] : f \in FramesIn(again)}
  OBVIOUS
<1>4. /\ cache' = [cache EXCEPT !.complete = kept] /\ cacheFile' = cache'
      /\ passedOver' = passedOver \cup FramesIn(cache.complete \ again)
      /\ work' = [work EXCEPT !.pc = work.then]
      /\ UNCHANGED <<shots, snapshots, cloudImages, dropped, expired>>
  BY <1>2, <1>3 DEF FlushFails
<1>5. FramesIn(again) \subseteq Frames /\ kept \in SUBSET [frame : Frames, failed : BOOLEAN]
  <2>1. again \subseteq cache.complete /\ cache.complete \subseteq [frame : Frames, failed : BOOLEAN]
    BY <1>1, <1>2 DEF CacheSet
  <2>2. \A entry \in again : entry.frame \in Frames
    BY <2>1
  <2>3. FramesIn(again) \subseteq Frames
    BY <2>2 DEF FramesIn
  <2>4. \A f \in Frames : [frame |-> f, failed |-> TRUE] \in [frame : Frames, failed : BOOLEAN]
    OBVIOUS
  <2> QED
    BY <2>3, <2>4, <1>3
<1>6. FramesIn(kept) = FramesIn(again)
  <2>1. \A f \in FramesIn(again) : [frame |-> f, failed |-> TRUE] \in kept
    BY <1>3
  <2>2. \A f \in FramesIn(again) : f \in FramesIn(kept)
    <3> SUFFICES ASSUME NEW f \in FramesIn(again) PROVE \E entry \in kept : f = entry.frame
      BY DEF FramesIn
    <3> QED
      BY <2>1
  <2>3. \A entry \in kept : \E f \in FramesIn(again) : entry = [frame |-> f, failed |-> TRUE]
    BY <1>3
  <2>4. \A entry \in kept : entry.frame \in FramesIn(again)
    BY <2>3
  <2> QED
    BY <2>2, <2>4 DEF FramesIn
<1>7. FramesIn(cache.complete) = FramesIn(again) \cup FramesIn(cache.complete \ again)
  BY <1>2 DEF FramesIn
<1>8. /\ cache'.scanned = cache.scanned /\ cache'.retry = cache.retry /\ cache'.complete = kept
      /\ cache' \in CacheSet'
  BY <1>1, <1>4, <1>5 DEF CacheSet, Frames
<1>9. /\ work'.pc = work.then /\ work'.then = work.then /\ work'.retries = work.retries
      /\ work'.uploads = {} /\ work'.moved = work.moved /\ work' \in WorkSet'
  BY <1>1, <1>4 DEF WorkSet, Frames
<1>10. Stands(cache) = Stands(cache)'
  BY <1>4, <1>6, <1>7, <1>8, <1>9 DEF Stands
<1>11. Reaches(cache)' \subseteq Reaches(cache)
  BY <1>6, <1>7, <1>8 DEF Reaches
<1>12. Accounted(cache)'
  <2>1. \A g \in Reaches(cache) \cup ToSet(work.retries) : 1 .. g \subseteq Stands(cache)'
    BY <1>1, <1>10 DEF PassAccounted, CacheOK, Accounted
  <2> QED
    BY <2>1, <1>9, <1>11 DEF Accounted
<1>13. CacheOK(cache)' /\ CacheOK(cacheFile)'
  <2>1. HasFile(cache)'
    BY <1>1, <1>4, <1>8 DEF PassAccounted, CacheOK, HasFile, Remain
  <2>2. CacheOK(cache)'
    BY <2>1, <1>8, <1>12 DEF CacheOK
  <2> QED
    BY <2>2, <1>4, FileWritten
<1>14. PassAccounted'
  <2>1. 1 .. work'.moved \subseteq Stands(cache)' \cup work'.uploads
    BY <1>1, <1>9, <1>10 DEF PassAccounted
  <2>2. /\ work'.then # "idle"
        /\ work'.retries # <<>> => work'.pc = "again" \/ (work'.pc = "flush" /\ work'.then = "again")
    BY <1>1, <1>9 DEF PassAccounted
  <2>3. work'.uploads \subseteq (1 .. work'.moved) \cap snapshots' /\ cache' = cacheFile' /\ work'.uploads = {}
    BY <1>4, <1>9
  <2> QED
    BY <2>1, <2>2, <2>3, <1>13, Zenon DEF PassAccounted
<1>15. ImageType' /\ work'.pc # "idle"
  BY <1>1, <1>4, <1>9 DEF ImageInv, ImageType, PassAccounted
<1> QED
  BY <1>13, <1>14, <1>15 DEF ImageInv

LEMMA TakeRetriesHolds ==
  ASSUME ImageInv, TakeRetries
  PROVE  ImageInv'
<1>1. /\ work.pc = "retry" /\ PassAccounted /\ cache = cacheFile /\ work \in WorkSet
      /\ work.uploads = {} /\ work.retries = <<>> /\ cache \in CacheSet
  BY DEF ImageInv, ImageType, PassAccounted, TakeRetries, CacheOK
<1>2. PICK next \in {"scan", "again"} : next = (IF cache.retry = <<>> THEN "scan" ELSE "again")
  OBVIOUS
<1>3. /\ work' = [work EXCEPT !.pc = next, !.retries = cache.retry]
      /\ cache' = [cache EXCEPT !.retry = <<>>]
      /\ UNCHANGED <<shots, snapshots, cacheFile, cloudImages, passedOver, dropped, expired>>
  BY <1>2 DEF TakeRetries
<1>4. /\ work'.pc = next /\ work'.then = work.then /\ work'.retries = cache.retry
      /\ work'.uploads = {} /\ work'.moved = work.moved /\ work' \in WorkSet'
  BY <1>1, <1>3 DEF WorkSet, Frames, CacheSet
<1>5. /\ cache'.scanned = cache.scanned /\ cache'.retry = <<>> /\ cache'.complete = cache.complete
      /\ cache' \in CacheSet'
  <2>1. cache' = [scanned |-> cache.scanned, complete |-> cache.complete, retry |-> <<>>]
    BY <1>1, <1>3 DEF CacheSet
  <2>2. <<>> \in Seq(Frames)
    OBVIOUS
  <2> QED
    BY <2>1, <2>2, <1>1, <1>3 DEF CacheSet, Frames
<1>6. Stands(cache)' = Stands(cache) /\ (Reaches(cache) \cup ToSet(work.retries))' = Reaches(cache)
  BY <1>1, <1>3, <1>4, <1>5, EmptySet DEF Stands, Reaches
<1>7. CacheOK(cache)'
  <2>1. Accounted(cache)'
    BY <1>1, <1>6 DEF PassAccounted, CacheOK, Accounted
  <2>2. HasFile(cache)'
    BY <1>1, <1>3, <1>5, EmptySet DEF PassAccounted, CacheOK, HasFile, Remain
  <2> QED
    BY <2>1, <2>2, <1>5 DEF CacheOK
<1>8. CacheOK(cacheFile)'
  BY <1>1, <1>3, <1>4, EmptySet, FileHolds DEF Remain, ImageInv, ImageType
<1>9. PassAccounted'
  <2>1. 1 .. work'.moved \subseteq Stands(cache)' \cup work'.uploads
    BY <1>1, <1>4, <1>6 DEF PassAccounted
  <2>2. /\ work'.then # "idle" /\ work'.uploads \subseteq (1 .. work'.moved) \cap snapshots' /\ work'.uploads = {}
        /\ work'.retries # <<>> => work'.pc = "again"
        /\ work'.pc # "retry" /\ work'.pc # "flush"
    BY <1>1, <1>2, <1>4 DEF PassAccounted
  <2> QED
    BY <2>1, <2>2, <1>7, Zenon DEF PassAccounted
<1>10. ImageType' /\ work'.pc # "idle"
  BY <1>2, <1>3, <1>4 DEF ImageInv, ImageType
<1> QED
  BY <1>8, <1>9, <1>10 DEF ImageInv

(* A frame uploaded or to be retried: nothing is missing below it, and it    *)
(* counts from now on.                                                      *)
LEMMA UploadAgain ==
  ASSUME ImageInv, RetryUpload
  PROVE  ImageInv'
<1>1. /\ cache \in CacheSet /\ shots \in Nat /\ work.pc = "again" /\ CacheOK(cache)
      /\ PassAccounted /\ work.uploads = {} /\ work \in WorkSet /\ work.retries \in Seq(Frames)
  BY DEF ImageInv, ImageType, PassAccounted, CacheOK, RetryUpload, WorkSet
<1>2. PICK f : f = Head(work.retries)
  OBVIOUS
<1>3. PICK rest : rest = Tail(work.retries)
  OBVIOUS
<1>4. f \in Frames /\ rest \in Seq(Frames) /\ ToSet(work.retries) = {f} \cup ToSet(rest)
  BY <1>1, <1>2, <1>3, TailSet DEF RetryUpload
<1>5. PICK entry : entry = [frame |-> f, failed |-> FALSE]
  OBVIOUS
<1>6. /\ cache' = [cache EXCEPT !.complete = @ \cup {entry}] /\ cacheFile' = cache'
      /\ work' = [work EXCEPT !.pc = "flush", !.then = "again", !.retries = rest]
      /\ UNCHANGED <<shots, snapshots, cloudImages, passedOver, dropped, expired>>
  BY <1>2, <1>3, <1>5 DEF RetryUpload, Uploaded
<1>7. /\ work'.pc = "flush" /\ work'.then = "again" /\ work'.retries = rest
      /\ work'.uploads = {} /\ work'.moved = work.moved /\ work' \in WorkSet'
  BY <1>1, <1>4, <1>6 DEF WorkSet, Frames
<1>8. /\ cache'.scanned = cache.scanned /\ cache'.retry = cache.retry
      /\ cache'.complete = cache.complete \cup {entry} /\ cache' \in CacheSet'
  <2>1. entry \in [frame : Frames, failed : BOOLEAN]
    BY <1>4, <1>5
  <2> QED
    BY <2>1, <1>1, <1>6 DEF CacheSet, Frames
<1>9. FramesIn(cache'.complete) = FramesIn(cache.complete) \cup {f}
  BY <1>5, <1>8 DEF FramesIn
<1>10. /\ Stands(cache)' = Stands(cache)
       /\ (Reaches(cache) \cup ToSet(work.retries))' = Reaches(cache) \cup ToSet(work.retries)
  BY <1>4, <1>6, <1>7, <1>8, <1>9 DEF Stands, Reaches
<1>11. CacheOK(cache)' /\ CacheOK(cacheFile)'
  <2>1. Accounted(cache)'
    BY <1>1, <1>10 DEF CacheOK, Accounted
  <2>2. HasFile(cache)'
    BY <1>1, <1>6, <1>8 DEF CacheOK, HasFile, Remain
  <2>3. CacheOK(cache)'
    BY <2>1, <2>2, <1>8 DEF CacheOK
  <2> QED
    BY <2>3, <1>6, FileWritten
<1>12. PassAccounted'
  <2>1. 1 .. work'.moved \subseteq Stands(cache)' \cup work'.uploads
    BY <1>1, <1>7, <1>10 DEF PassAccounted
  <2>2. work'.uploads \subseteq (1 .. work'.moved) \cap snapshots' /\ work'.pc = "flush" /\ work'.then = "again"
        /\ work'.uploads = {} /\ work'.then # "idle" /\ work'.pc # "retry" /\ work'.then # "retry"
    BY <1>7
  <2> QED
    BY <2>1, <2>2, <1>11, Zenon DEF PassAccounted
<1>13. ImageType' /\ work'.pc # "idle"
  BY <1>6, <1>7 DEF ImageInv, ImageType
<1> QED
  BY <1>11, <1>12, <1>13 DEF ImageInv

LEMMA RetryGivenUpHolds ==
  ASSUME ImageInv, RetryGivenUp
  PROVE  ImageInv'
<1>1. /\ work.pc = "again" /\ PassAccounted /\ work.uploads = {} /\ work \in WorkSet
      /\ work.retries \in Seq(Frames)
  BY DEF ImageInv, ImageType, PassAccounted, RetryGivenUp, WorkSet
<1>2. PICK f : f = Head(work.retries)
  OBVIOUS
<1>3. PICK rest : rest = Tail(work.retries)
  OBVIOUS
<1>4. f \in Frames /\ rest \in Seq(Frames) /\ ToSet(work.retries) = {f} \cup ToSet(rest)
  BY <1>1, <1>2, <1>3, TailSet DEF RetryGivenUp
<1>5. /\ work' = [work EXCEPT !.retries = rest] /\ passedOver' = passedOver \cup {f}
      /\ UNCHANGED <<shots, snapshots, cacheFile, cache, cloudImages, dropped, expired>>
  BY <1>2, <1>3 DEF RetryGivenUp
<1>6. /\ work'.pc = "again" /\ work'.then = work.then /\ work'.retries = rest
      /\ work'.uploads = {} /\ work'.moved = work.moved /\ work' \in WorkSet'
  BY <1>1, <1>4, <1>5 DEF WorkSet, Frames
<1>7. CacheOK(cacheFile)' /\ CacheOK(cache)' /\ Stands(cache) \subseteq Stands(cache)'
  BY <1>1, <1>4, <1>5, <1>6, PassMoves
<1>8. PassAccounted'
  <2>1. 1 .. work'.moved \subseteq Stands(cache)' \cup work'.uploads
    BY <1>1, <1>6, <1>7 DEF PassAccounted
  <2>2. work'.then # "idle" /\ work'.uploads \subseteq (1 .. work'.moved) \cap snapshots' /\ work'.uploads = {} /\ work'.pc = "again"
        /\ work'.pc # "retry" /\ work'.pc # "flush"
    BY <1>1, <1>6 DEF PassAccounted
  <2> QED
    BY <2>1, <2>2, <1>7, Zenon DEF PassAccounted
<1>9. ImageType' /\ work'.pc # "idle"
  BY <1>5, <1>6 DEF ImageInv, ImageType
<1> QED
  BY <1>7, <1>8, <1>9 DEF ImageInv

LEMMA RetriesEndHolds ==
  ASSUME ImageInv, RetriesEnd
  PROVE  ImageInv'
<1>1. /\ work.pc = "again" /\ PassAccounted /\ work.uploads = {} /\ work \in WorkSet
      /\ work.retries = <<>>
  BY DEF ImageInv, ImageType, PassAccounted, RetriesEnd
<1>2. /\ work'.pc = "scan" /\ work'.then = work.then /\ work'.retries = work.retries
      /\ work'.uploads = {} /\ work'.moved = work.moved /\ work' \in WorkSet'
  BY <1>1 DEF WorkSet, Frames, RetriesEnd
<1>3. CacheOK(cache)' /\ Stands(cache) \subseteq Stands(cache)'
  <2>1. /\ shots =< shots' /\ shots' \in Nat
        /\ Remain \cup ((shots + 1) .. shots') \subseteq Remain'
    BY DEF Remain, ImageInv, ImageType, RetriesEnd
  <2> QED
    BY <2>1, <1>1, <1>2, CacheHolds DEF RetriesEnd
<1>4. CacheOK(cacheFile)'
  BY <1>3, FileWritten DEF RetriesEnd
<1>5. PassAccounted'
  <2>1. 1 .. work'.moved \subseteq Stands(cache)' \cup work'.uploads
    BY <1>1, <1>2, <1>3 DEF PassAccounted
  <2>2. work'.then # "idle" /\ work'.uploads \subseteq (1 .. work'.moved) \cap snapshots' /\ work'.uploads = {}
        /\ work'.retries = <<>> /\ work'.pc # "retry" /\ work'.pc # "flush"
    BY <1>1, <1>2 DEF PassAccounted
  <2> QED
    BY <2>1, <2>2, <1>3, Zenon DEF PassAccounted
<1>6. ImageType' /\ work'.pc # "idle"
  BY <1>2 DEF ImageInv, ImageType, RetriesEnd
<1> QED
  BY <1>4, <1>5, <1>6 DEF ImageInv

(* The pass is over: what its cache has is written, or lost. *)
LEMMA PassEndsHolds ==
  ASSUME ImageInv, work.pc # "idle", work.retries = <<>>, work' = NoWork,
         UNCHANGED <<shots, snapshots, expired, cloudImages, dropped>>,
         passedOver \subseteq passedOver',
         cacheFile' = cacheFile \/ CacheOK(cacheFile)'
  PROVE  ImageInv'
<1>1. work'.retries = <<>> /\ ImageType'
  BY DEF ImageInv, ImageType, NoWork, WorkSet, Frames
<1>2. ASSUME cacheFile' = cacheFile PROVE CacheOK(cacheFile)'
  <2>1. /\ shots =< shots' /\ shots' \in Nat
        /\ Remain \cup ((shots + 1) .. shots') \subseteq Remain'
    BY DEF Remain, ImageInv, ImageType
  <2> QED
    BY <2>1, <1>1, <1>2, FileHolds
<1> QED
  BY <1>1, <1>2 DEF ImageInv, NoWork

(* The cursor of the pass moves over what is accounted for. *)
LEMMA CursorMoves ==
  ASSUME ImageInv, work.pc # "idle", work.retries = <<>>, work'.retries = <<>>,
         NEW k \in 0 .. shots, cache.scanned =< k, cache' = [cache EXCEPT !.scanned = k],
         UNCHANGED <<shots, snapshots, expired, cloudImages, dropped>>,
         passedOver \subseteq passedOver', 1 .. k \subseteq Stands(cache) \cup passedOver'
  PROVE  CacheOK(cache)'
<1>1. cache \in CacheSet /\ CacheOK(cache) /\ shots \in Nat
  BY DEF ImageInv, ImageType, PassAccounted, CacheOK
<1>2. /\ cache' \in CacheSet' /\ cache'.scanned = k /\ cache'.complete = cache.complete
      /\ cache'.retry = cache.retry
  BY <1>1 DEF CacheSet, Frames
<1>3. Stands(cache)' = Stands(cache) \cup passedOver'
  BY <1>2 DEF Stands
<1>4. (Reaches(cache) \cup ToSet(work.retries))' \subseteq Reaches(cache) \cup {k}
  BY <1>2, EmptySet DEF Reaches
<1>5. Accounted(cache)'
  <2>1. \A g \in Reaches(cache) \cup {k} : 1 .. g \subseteq Stands(cache)'
    BY <1>1, <1>3 DEF CacheOK, Accounted
  <2> QED
    BY <2>1, <1>4 DEF Accounted
<1>6. HasFile(cache)'
  <2>1. (k + 1) .. shots \subseteq (cache.scanned + 1) .. shots
    BY <1>1 DEF CacheSet
  <2> QED
    BY <2>1, <1>1, <1>2 DEF CacheOK, HasFile, Remain
<1> QED
  BY <1>2, <1>5, <1>6 DEF CacheOK

LEMMA ScanNothingHolds ==
  ASSUME ImageInv, ScanNothing
  PROVE  ImageInv'
<1>1. /\ work.pc = "scan" /\ PassAccounted /\ work.retries = <<>> /\ cache \in CacheSet
      /\ shots \in Nat /\ CacheOK(cache)
  BY DEF ImageInv, ImageType, PassAccounted, ScanNothing, CacheOK
<1>2. Behind \subseteq 0 .. shots /\ cache.scanned \in 0 .. shots
  BY <1>1 DEF Behind, CacheSet
<1>3. PICK k \in 0 .. shots : k = Largest(Behind, cache.scanned) /\ cache.scanned =< k
  BY <1>1, <1>2, LargestIs
<1>4. cache' = [cache EXCEPT !.scanned = k] /\ work' = NoWork /\ work'.retries = <<>>
  BY <1>3 DEF ScanNothing, NoWork
<1>5. 1 .. k \subseteq Stands(cache) \cup passedOver'
  <2>1. 1 .. cache.scanned \subseteq Stands(cache)
    BY <1>1 DEF CacheOK, Accounted, Reaches
  <2>2. 1 .. k \subseteq (1 .. cache.scanned) \cup Behind
    BY <1>1, <1>2, <1>3 DEF Behind
  <2> QED
    BY <2>1, <2>2 DEF ScanNothing
<1>6. CacheOK(cache)'
  BY <1>1, <1>3, <1>4, <1>5, CursorMoves DEF ScanNothing
<1>7. cacheFile' = cacheFile \/ CacheOK(cacheFile)'
  BY <1>6, FileWritten DEF ScanNothing
<1> QED
  BY <1>1, <1>4, <1>7, PassEndsHolds DEF ScanNothing

LEMMA CloseImagesHolds ==
  ASSUME ImageInv, CloseImages
  PROVE  ImageInv'
<1>1. /\ work.pc = "close" /\ PassAccounted /\ work.retries = <<>> /\ cache \in CacheSet
      /\ shots \in Nat /\ CacheOK(cache) /\ work.uploads = {} /\ work.moved \in 0 .. shots
  BY DEF ImageInv, ImageType, PassAccounted, CloseImages, CacheOK, WorkSet
<1>2. {work.moved} \subseteq 0 .. shots /\ cache.scanned \in 0 .. shots
  BY <1>1 DEF CacheSet
<1>3. PICK k \in {work.moved, cache.scanned} :
        k = Largest({work.moved}, cache.scanned) /\ cache.scanned =< k /\ k \in 0 .. shots
  BY <1>1, <1>2, LargestIs
<1>4. cache' = [cache EXCEPT !.scanned = k] /\ work' = NoWork /\ work'.retries = <<>>
  BY <1>3 DEF CloseImages, NoWork
<1>5. 1 .. k \subseteq Stands(cache) \cup passedOver'
  <2>1. 1 .. cache.scanned \subseteq Stands(cache)
    BY <1>1 DEF CacheOK, Accounted, Reaches
  <2>2. 1 .. work.moved \subseteq Stands(cache)
    BY <1>1 DEF PassAccounted
  <2> QED
    BY <2>1, <2>2, <1>3
<1>6. CacheOK(cache)'
  BY <1>1, <1>3, <1>4, <1>5, CursorMoves DEF CloseImages
<1>7. cacheFile' = cacheFile \/ CacheOK(cacheFile)'
  BY <1>6, FileWritten DEF CloseImages
<1> QED
  BY <1>1, <1>4, <1>7, PassEndsHolds DEF CloseImages

LEMMA UploadsEndHolds ==
  ASSUME ImageInv, UploadsEnd
  PROVE  ImageInv'
<1>1. /\ work.pc = "upload" /\ PassAccounted /\ work.uploads = {} /\ work \in WorkSet
      /\ work.retries = <<>>
  BY DEF ImageInv, ImageType, PassAccounted, UploadsEnd
<1>2. /\ work'.pc = "flush" /\ work'.then = "close" /\ work'.retries = <<>>
      /\ work'.uploads = {} /\ work'.moved = work.moved /\ work' \in WorkSet'
  BY <1>1 DEF WorkSet, Frames, UploadsEnd
<1>3. CacheOK(cacheFile)' /\ CacheOK(cache)' /\ Stands(cache) \subseteq Stands(cache)'
  BY <1>1, <1>2, PassMoves DEF UploadsEnd
<1>4. PassAccounted'
  <2>1. 1 .. work'.moved \subseteq Stands(cache)' \cup work'.uploads
    BY <1>1, <1>2, <1>3 DEF PassAccounted
  <2>2. work'.then # "idle" /\ work'.uploads \subseteq (1 .. work'.moved) \cap snapshots' /\ work'.uploads = {}
        /\ work'.retries = <<>> /\ work'.pc # "retry" /\ work'.then # "retry"
    BY <1>1, <1>2 DEF PassAccounted
  <2> QED
    BY <2>1, <2>2, <1>3, Zenon DEF PassAccounted
<1>5. ImageType' /\ work'.pc # "idle"
  BY <1>2 DEF ImageInv, ImageType, UploadsEnd
<1> QED
  BY <1>3, <1>4, <1>5 DEF ImageInv

(* Below the next upload everything is accounted for. *)
LEMMA BelowUpload ==
  ASSUME ImageInv, work.pc = "upload", NEW f, NextUpload(f)
  PROVE  /\ f \in Frames /\ f \in snapshots /\ 1 .. f \subseteq Stands(cache) \cup {f}
         /\ 1 .. work.moved \subseteq Stands(cache) \cup {f} \cup (work.uploads \ {f})
<1>1. /\ PassAccounted /\ work \in WorkSet /\ shots \in Nat
      /\ f \in work.uploads /\ \A g \in work.uploads : f =< g
  BY DEF ImageInv, ImageType, NextUpload
<1>2. f \in 1 .. work.moved /\ f \in snapshots /\ work.moved \in Nat /\ work.uploads \subseteq Frames
  BY <1>1 DEF PassAccounted, WorkSet
<1>3. 1 .. f \subseteq 1 .. work.moved
  BY <1>2
<1>4. \A g \in 1 .. f : g \in work.uploads => g = f
  BY <1>1, <1>2
<1> QED
  BY <1>1, <1>2, <1>3, <1>4 DEF PassAccounted

LEMMA UploadImageHolds ==
  ASSUME ImageInv, UploadImage
  PROVE  ImageInv'
<1>1. /\ cache \in CacheSet /\ shots \in Nat /\ work.pc = "upload" /\ CacheOK(cache)
      /\ PassAccounted /\ work \in WorkSet /\ work.retries = <<>>
  BY DEF ImageInv, ImageType, PassAccounted, CacheOK, UploadImage
<1>2. PICK f \in work.uploads :
        NextUpload(f) /\ Uploaded(f) /\ work' = [work EXCEPT !.uploads = @ \ {f}]
  BY DEF UploadImage
<1>3. /\ f \in Frames /\ 1 .. f \subseteq Stands(cache) \cup {f}
      /\ 1 .. work.moved \subseteq Stands(cache) \cup {f} \cup (work.uploads \ {f})
  BY <1>1, <1>2, BelowUpload
<1>4. UNCHANGED <<shots, snapshots, cloudImages, passedOver, dropped, expired>>
  BY DEF UploadImage
<1>5. PICK entry : entry = [frame |-> f, failed |-> FALSE]
  OBVIOUS
<1>6. cache' = [cache EXCEPT !.complete = @ \cup {entry}] /\ cacheFile' = cache'
  BY <1>2, <1>5 DEF Uploaded
<1>7. /\ work'.pc = "upload" /\ work'.then = work.then /\ work'.retries = <<>>
      /\ work'.uploads = work.uploads \ {f} /\ work'.moved = work.moved /\ work' \in WorkSet'
  BY <1>1, <1>2, <1>4 DEF WorkSet, Frames
<1>8. /\ cache'.scanned = cache.scanned /\ cache'.retry = cache.retry
      /\ cache'.complete = cache.complete \cup {entry} /\ cache' \in CacheSet'
  <2>1. entry \in [frame : Frames, failed : BOOLEAN]
    BY <1>3, <1>5
  <2> QED
    BY <2>1, <1>1, <1>4, <1>6 DEF CacheSet, Frames
<1>9. FramesIn(cache'.complete) = FramesIn(cache.complete) \cup {f}
  BY <1>5, <1>8 DEF FramesIn
<1>10. /\ Stands(cache)' = Stands(cache) \cup {f}
       /\ (Reaches(cache) \cup ToSet(work.retries))' = Reaches(cache) \cup {f}
  BY <1>1, <1>4, <1>7, <1>8, <1>9, EmptySet DEF Stands, Reaches
<1>11. CacheOK(cache)' /\ CacheOK(cacheFile)'
  <2>1. Accounted(cache)'
    <3>1. \A g \in Reaches(cache) \cup {f} : 1 .. g \subseteq Stands(cache)'
      BY <1>1, <1>3, <1>10 DEF CacheOK, Accounted
    <3> QED
      BY <3>1, <1>10 DEF Accounted
  <2>2. HasFile(cache)'
    BY <1>1, <1>4, <1>8 DEF CacheOK, HasFile, Remain
  <2>3. CacheOK(cache)'
    BY <2>1, <2>2, <1>8 DEF CacheOK
  <2> QED
    BY <2>3, <1>6, FileWritten
<1>12. PassAccounted'
  <2>1. 1 .. work'.moved \subseteq Stands(cache)' \cup work'.uploads
    BY <1>3, <1>7, <1>10
  <2>2. work'.then # "idle" /\ work'.uploads \subseteq (1 .. work'.moved) \cap snapshots' /\ work'.pc = "upload"
        /\ work'.retries = <<>> /\ work'.pc # "retry" /\ work'.pc # "flush"
    BY <1>1, <1>4, <1>7 DEF PassAccounted
  <2> QED
    BY <2>1, <2>2, <1>11, Zenon DEF PassAccounted
<1>13. ImageType' /\ work'.pc # "idle"
  BY <1>4, <1>7 DEF ImageInv, ImageType
<1> QED
  BY <1>11, <1>12, <1>13 DEF ImageInv

LEMMA UploadRefusedHolds ==
  ASSUME ImageInv, UploadRefused
  PROVE  ImageInv'
<1>1. /\ cache \in CacheSet /\ shots \in Nat /\ work.pc = "upload" /\ CacheOK(cache)
      /\ PassAccounted /\ work \in WorkSet /\ work.retries = <<>>
  BY DEF ImageInv, ImageType, PassAccounted, CacheOK, UploadRefused
<1>2. PICK f \in work.uploads :
        /\ NextUpload(f) /\ cache' = [cache EXCEPT !.retry = Append(@, f)]
        /\ work' = [work EXCEPT !.uploads = @ \ {f}]
  BY DEF UploadRefused
<1>3. /\ f \in Frames /\ 1 .. f \subseteq Stands(cache) \cup {f} /\ f \in snapshots
      /\ 1 .. work.moved \subseteq Stands(cache) \cup {f} \cup (work.uploads \ {f})
  BY <1>1, <1>2, BelowUpload
<1>4. UNCHANGED <<shots, snapshots, cacheFile, cloudImages, passedOver, dropped, expired>>
  BY DEF UploadRefused
<1>5. PICK longer \in Seq(Frames) :
        longer = Append(cache.retry, f) /\ ToSet(longer) = ToSet(cache.retry) \cup {f}
  <2>1. cache.retry \in Seq(Frames)
    BY <1>1 DEF CacheSet
  <2>2. /\ Append(cache.retry, f) \in Seq(Frames)
        /\ ToSet(Append(cache.retry, f)) = ToSet(cache.retry) \cup {f}
    BY <2>1, <1>3, AppendSet
  <2> QED
    BY <2>2, Zenon
<1>6. /\ work'.pc = "upload" /\ work'.then = work.then /\ work'.retries = <<>>
      /\ work'.uploads = work.uploads \ {f} /\ work'.moved = work.moved /\ work' \in WorkSet'
  BY <1>1, <1>2, <1>4 DEF WorkSet, Frames
<1>7. /\ cache'.scanned = cache.scanned /\ cache'.retry = longer
      /\ cache'.complete = cache.complete /\ cache' \in CacheSet'
  BY <1>1, <1>2, <1>4, <1>5 DEF CacheSet, Frames
<1>8. /\ Stands(cache)' = Stands(cache) \cup {f}
      /\ (Reaches(cache) \cup ToSet(work.retries))' = Reaches(cache) \cup {f}
  BY <1>1, <1>4, <1>5, <1>6, <1>7, EmptySet DEF Stands, Reaches
<1>9. CacheOK(cache)'
  <2>1. Accounted(cache)'
    <3>1. \A g \in Reaches(cache) \cup {f} : 1 .. g \subseteq Stands(cache)'
      BY <1>1, <1>3, <1>8 DEF CacheOK, Accounted
    <3> QED
      BY <3>1, <1>8 DEF Accounted
  <2>2. HasFile(cache)'
    BY <1>1, <1>3, <1>4, <1>5, <1>7 DEF CacheOK, HasFile, Remain
  <2> QED
    BY <2>1, <2>2, <1>7 DEF CacheOK
<1>10. CacheOK(cacheFile)'
  <2>1. /\ shots =< shots' /\ shots' \in Nat
        /\ Remain \cup ((shots + 1) .. shots') \subseteq Remain'
    BY <1>1, <1>4 DEF Remain
  <2> QED
    BY <2>1, <1>1, <1>4, <1>6, FileHolds
<1>11. PassAccounted'
  <2>1. 1 .. work'.moved \subseteq Stands(cache)' \cup work'.uploads
    BY <1>3, <1>6, <1>8
  <2>2. work'.then # "idle" /\ work'.uploads \subseteq (1 .. work'.moved) \cap snapshots' /\ work'.pc = "upload"
        /\ work'.retries = <<>> /\ work'.pc # "retry" /\ work'.pc # "flush"
    BY <1>1, <1>4, <1>6 DEF PassAccounted
  <2> QED
    BY <2>1, <2>2, <1>9, Zenon DEF PassAccounted
<1>12. ImageType' /\ work'.pc # "idle"
  BY <1>4, <1>6 DEF ImageInv, ImageType
<1> QED
  BY <1>10, <1>11, <1>12 DEF ImageInv

(* What the cursor passes over with a selection is sent, was not selected or *)
(* could not be prepared: what is left for later lies behind it.            *)
LEMMA LaterIsBehind ==
  ASSUME ~ByteLimit, shots \in Nat, NEW k \in Nat, NEW selected \in SUBSET ((k + 1) .. shots),
         NEW admitted \in SUBSET selected, NEW fits, Admits(selected, admitted, fits)
  PROVE  /\ CursorTo(selected, admitted, fits) \in (k + 1) .. shots
         /\ \A f \in admitted : f =< CursorTo(selected, admitted, fits)
         /\ \A f \in selected \ admitted : f > CursorTo(selected, admitted, fits)
<1>1. fits /\ admitted # {} /\ \A f \in admitted, g \in selected \ admitted : f < g
  BY DEF Admits
<1>2. PICK f \in admitted : TRUE
  BY <1>1
<1>3. f \in (k + 1) .. shots /\ shots \in (k + 1) .. shots
  BY <1>2
<1>4. CASE AllAttempted(selected, admitted, fits)
  <2>1. IsFiniteSet(selected)
    <3>1. IsFiniteSet((k + 1) .. shots)
      BY FS_Interval
    <3> QED
      BY <3>1, FS_Subset
  <2>2. admitted = selected
    BY <2>1, <1>1, <1>4, FS_Subset DEF AllAttempted
  <2> QED
    BY <2>2, <1>3, <1>4 DEF CursorTo
<1>5. CASE ~AllAttempted(selected, admitted, fits)
  <2>1. admitted \in SUBSET (0 .. shots)
    OBVIOUS
  <2>2. Max(admitted) \in admitted /\ \A g \in admitted : g =< Max(admitted)
    BY <2>1, <1>1, MaxIs
  <2> QED
    BY <2>2, <1>1, <1>5 DEF CursorTo
<1> QED
  BY <1>4, <1>5

LEMMA ScanHolds ==
  ASSUME ~ByteLimit, ImageInv, Scan
  PROVE  ImageInv'
<1>1. /\ work.pc = "scan" /\ PassAccounted /\ work.retries = <<>> /\ cache \in CacheSet
      /\ shots \in Nat /\ CacheOK(cache) /\ work \in WorkSet /\ snapshots \subseteq Frames
      /\ cache.scanned \in Nat /\ cache.scanned =< shots
  BY DEF ImageInv, ImageType, PassAccounted, Scan, CacheOK, CacheSet, Frames
<1>2. PICK selected \in SUBSET Behind : \E broken \in SUBSET Behind, fits \in BOOLEAN :
       \E admitted \in SUBSET selected :
         LET moved == CursorTo(selected, admitted, fits)
             ready == (admitted \cap snapshots) \ broken
             later == selected \ admitted
         IN  /\ Admits(selected, admitted, fits) /\ (~fits => ready # {})
             /\ passedOver' = passedOver
                  \cup (((cache.scanned + 1) .. moved) \ (ready \cup later))
             /\ IF ready # {}
                THEN /\ work' = [work EXCEPT !.pc = "upload", !.uploads = ready, !.moved = moved]
                     /\ UNCHANGED <<cache, cacheFile>>
                ELSE /\ work' = NoWork /\ cache' = [cache EXCEPT !.scanned = moved]
                     /\ cacheFile' = IF later = {} THEN cacheFile ELSE cache'
  BY DEF Scan
<1>3. PICK broken \in SUBSET Behind, fits \in BOOLEAN :
       \E admitted \in SUBSET selected :
         LET moved == CursorTo(selected, admitted, fits)
             ready == (admitted \cap snapshots) \ broken
             later == selected \ admitted
         IN  /\ Admits(selected, admitted, fits) /\ (~fits => ready # {})
             /\ passedOver' = passedOver
                  \cup (((cache.scanned + 1) .. moved) \ (ready \cup later))
             /\ IF ready # {}
                THEN /\ work' = [work EXCEPT !.pc = "upload", !.uploads = ready, !.moved = moved]
                     /\ UNCHANGED <<cache, cacheFile>>
                ELSE /\ work' = NoWork /\ cache' = [cache EXCEPT !.scanned = moved]
                     /\ cacheFile' = IF later = {} THEN cacheFile ELSE cache'
  BY <1>2
<1>4. PICK admitted \in SUBSET selected :
         LET moved == CursorTo(selected, admitted, fits)
             ready == (admitted \cap snapshots) \ broken
             later == selected \ admitted
         IN  /\ Admits(selected, admitted, fits) /\ (~fits => ready # {})
             /\ passedOver' = passedOver
                  \cup (((cache.scanned + 1) .. moved) \ (ready \cup later))
             /\ IF ready # {}
                THEN /\ work' = [work EXCEPT !.pc = "upload", !.uploads = ready, !.moved = moved]
                     /\ UNCHANGED <<cache, cacheFile>>
                ELSE /\ work' = NoWork /\ cache' = [cache EXCEPT !.scanned = moved]
                     /\ cacheFile' = IF later = {} THEN cacheFile ELSE cache'
  BY <1>3
<1>5. PICK moved : moved = CursorTo(selected, admitted, fits)
  OBVIOUS
<1>6. PICK ready : ready = (admitted \cap snapshots) \ broken
  OBVIOUS
<1>7. PICK later : later = selected \ admitted
  OBVIOUS
<1>8. /\ passedOver' = passedOver \cup (((cache.scanned + 1) .. moved) \ (ready \cup later))
      /\ IF ready # {}
         THEN /\ work' = [work EXCEPT !.pc = "upload", !.uploads = ready, !.moved = moved]
              /\ UNCHANGED <<cache, cacheFile>>
         ELSE /\ work' = NoWork /\ cache' = [cache EXCEPT !.scanned = moved]
              /\ cacheFile' = IF later = {} THEN cacheFile ELSE cache'
      /\ UNCHANGED <<shots, snapshots, cloudImages, dropped, expired>>
  BY <1>4, <1>5, <1>6, <1>7 DEF Scan
<1>9. /\ moved \in (cache.scanned + 1) .. shots /\ \A f \in later : f > moved
      /\ \A f \in admitted : f =< moved
  <2>1. PICK k \in Nat : k = cache.scanned
    BY <1>1
  <2>2. selected \in SUBSET ((k + 1) .. shots) /\ Admits(selected, admitted, fits)
    BY <2>1, <1>4 DEF Behind
  <2>3. /\ CursorTo(selected, admitted, fits) \in (k + 1) .. shots
        /\ \A f \in admitted : f =< CursorTo(selected, admitted, fits)
        /\ \A f \in selected \ admitted : f > CursorTo(selected, admitted, fits)
    <3>1. /\ ~ByteLimit /\ shots \in Nat /\ k \in Nat /\ selected \in SUBSET ((k + 1) .. shots)
          /\ admitted \in SUBSET selected /\ fits \in BOOLEAN /\ Admits(selected, admitted, fits)
      BY <2>1, <2>2, <1>1, <1>3, <1>4
    <3> QED
      BY <3>1, LaterIsBehind
  <2> QED
    BY <2>1, <2>3, <1>5, <1>7
<1>10. /\ ready \subseteq (1 .. moved) \cap snapshots /\ ready \subseteq Frames
       /\ moved \in 0 .. shots /\ cache.scanned =< moved
  BY <1>1, <1>6, <1>9 DEF Behind, Frames
<1>11. 1 .. moved \subseteq Stands(cache) \cup passedOver' \cup ready
  <2>1. 1 .. cache.scanned \subseteq Stands(cache)
    BY <1>1 DEF CacheOK, Accounted, Reaches
  <2>2. 1 .. moved \subseteq (1 .. cache.scanned) \cup ((cache.scanned + 1) .. moved)
    BY <1>1, <1>10
  <2>3. (cache.scanned + 1) .. moved \subseteq passedOver' \cup ready \cup later
    BY <1>8
  <2>4. \A f \in 1 .. moved : f \notin later
    BY <1>9, <1>10
  <2> QED
    BY <2>1, <2>2, <2>3, <2>4
<1>12. CASE ready # {}
  <2>1. /\ work'.pc = "upload" /\ work'.then = work.then /\ work'.retries = <<>>
        /\ work'.uploads = ready /\ work'.moved = moved /\ work' \in WorkSet'
        /\ UNCHANGED <<cache, cacheFile>>
    BY <1>1, <1>8, <1>10, <1>12 DEF WorkSet, Frames
  <2>2. CacheOK(cacheFile)' /\ CacheOK(cache)' /\ Stands(cache) \subseteq Stands(cache)'
    BY <2>1, <1>1, <1>8, PassMoves
  <2>3. PassAccounted'
    <3>1. 1 .. work'.moved \subseteq Stands(cache)' \cup work'.uploads
      <4>1. passedOver' \subseteq Stands(cache)'
        BY DEF Stands
      <4> QED
        BY <4>1, <2>1, <2>2, <1>11
    <3>2. work'.then # "idle" /\ work'.uploads \subseteq (1 .. work'.moved) \cap snapshots' /\ work'.pc = "upload"
          /\ work'.retries = <<>> /\ work'.pc # "retry" /\ work'.pc # "flush"
      BY <2>1, <1>1, <1>8, <1>10 DEF PassAccounted
    <3> QED
      BY <3>1, <3>2, <2>2, Zenon DEF PassAccounted
  <2>4. ImageType' /\ work'.pc # "idle"
    BY <2>1, <1>8 DEF ImageInv, ImageType
  <2> QED
    BY <2>2, <2>3, <2>4 DEF ImageInv
<1>13. CASE ready = {}
  <2>1. work' = NoWork /\ cache' = [cache EXCEPT !.scanned = moved] /\ work'.retries = <<>>
    BY <1>8, <1>13 DEF NoWork
  <2>2. CacheOK(cache)'
    BY <2>1, <1>1, <1>8, <1>10, <1>11, <1>13, CursorMoves
  <2>3. cacheFile' = cacheFile \/ CacheOK(cacheFile)'
    BY <2>2, <1>8, <1>13, FileWritten
  <2> QED
    BY <2>1, <2>3, <1>1, <1>8, PassEndsHolds
<1> QED
  BY <1>12, <1>13

LEMMA ImageStutters == ASSUME ImageInv, UNCHANGED imageVars PROVE ImageInv'
BY DEF imageVars, ImageInv, ImageType, CacheOK, PassAccounted, CacheSet, WorkSet, Frames,
       Accounted, HasFile, Stands, Reaches, Remain

(* Whatever the number of frames, of uploads in a pass and of setbacks, no   *)
(* image is lost on the way, where images never exceed the pass's bytes      *)
(* together (image_sync.rs).                                                *)
THEOREM NoneIsForgotten == ASSUME ~ByteLimit PROVE ImageSpec => []NoImageIsForgotten
<1>1. ImageInv /\ [ImageNext]_imageVars => ImageInv'
  BY CaptureShotHolds, BeginImagesHolds, FlushHolds, FlushFailsHolds, TakeRetriesHolds,
     UploadAgain, RetryGivenUpHolds, RetriesEndHolds, ScanNothingHolds, ScanHolds,
     UploadImageHolds, UploadRefusedHolds, UploadsEndHolds, CloseImagesHolds,
     AbortedHolds, CleanupHolds, ExpireHolds, ImageStutters DEF ImageNext
<1>2. ImageInv => NoImageIsForgotten
  BY DEF ImageInv, CacheOK, Accounted, Reaches, Stands, HasFile, Remain, NoImageIsForgotten, Waiting
<1> QED
  BY <1>1, <1>2, ImageInitHolds, PTL DEF ImageSpec

-----------------------------------------------------------------------------
(* Events and their frames (EventLinks).                                    *)

LEMMA Sizes == BusSize \in Nat \ {0} /\ MailSize \in Nat \ {0} /\ BatchSize \in Nat \ {0}
               /\ MaxEvents \in Nat /\ MaxSlips \in Nat
BY EventAssumption

(* A message on its way is one that was sent. *)
LEMMA SentSet ==
  ASSUME NEW S, NEW q \in Seq(S), NEW t \in Seq(S)
  PROVE  Sent(q, t) \in Seq(S) /\ ToSet(Sent(q, t)) \subseteq ToSet(q) \cup ToSet(t)
<1>1. PICK u \in Seq(S) : u = q \o t /\ ToSet(u) = ToSet(q) \cup ToSet(t)
  BY ConcatSet
<1>2. PICK k \in Nat : k = (IF Len(u) < BusSize THEN Len(u) ELSE BusSize) /\ k =< Len(u)
  BY Sizes
<1>3. Sent(q, t) = SubSeq(u, Len(u) - k + 1, Len(u))
  BY <1>1, <1>2 DEF Sent
<1>4. Len(u) \in Nat /\ Len(u) - k + 1 \in Int /\ 1 =< Len(u) - k + 1
  BY <1>2
<1>5. SubSeq(u, Len(u) - k + 1, Len(u)) \in Seq(S) /\ ToSet(SubSeq(u, Len(u) - k + 1, Len(u))) \subseteq ToSet(u)
  BY <1>4, SubSeqSet
<1> QED
  BY <1>1, <1>3, <1>5

(* What fits into the linker's channel is in it. *)
LEMMA PostedSet ==
  ASSUME NEW S, mailbox \in Seq(S), NEW t \in Seq(S)
  PROVE  /\ Posted(t) \in Seq(S) /\ ToSet(Posted(t)) \subseteq ToSet(mailbox) \cup ToSet(t)
         /\ Len(mailbox) + Len(t) =< MailSize => ToSet(Posted(t)) = ToSet(mailbox) \cup ToSet(t)
<1>1. PICK u \in Seq(S) : u = mailbox \o t /\ ToSet(u) = ToSet(mailbox) \cup ToSet(t)
                          /\ Len(u) = Len(mailbox) + Len(t)
  BY ConcatSet
<1>2. PICK k \in Nat : k = (IF Len(u) < MailSize THEN Len(u) ELSE MailSize) /\ k =< Len(u)
  BY Sizes
<1>3. Posted(t) = SubSeq(u, 1, k)
  BY <1>1, <1>2 DEF Posted
<1>4. SubSeq(u, 1, k) \in Seq(S) /\ ToSet(SubSeq(u, 1, k)) \subseteq ToSet(u)
  BY <1>2, SubSeqSet
<1>5. ASSUME Len(u) =< MailSize PROVE SubSeq(u, 1, k) = u
  <2>1. k = Len(u)
    BY <1>2, <1>5, Sizes
  <2> QED
    BY <2>1
<1> QED
  BY <1>1, <1>3, <1>4, <1>5

-----------------------------------------------------------------------------
(* The inductive invariant, in parts.  First what is what. *)
Triggers == Kinds \cup {"click", "key", "scroll"}
Messages == [trigger : Triggers, id : EventIds, more : Seq(EventIds)]
Mails    == [end : {"event", "frame"}, frame : Nat, ids : SUBSET EventIds]
Recorders == [batch : Seq(EventIds), typing : Seq(EventIds), scrolling : Seq(EventIds)]
Lanes == [pc : {"idle", "debounce", "capture", "interval", "due"}, ids : SUBSET EventIds,
          trailing : SUBSET EventIds, trigger : Triggers, active : BOOLEAN]

EventShape ==
  /\ kindOf \in Seq(Kinds) /\ Len(kindOf) =< MaxEvents
  /\ recorder \in Recorders /\ bus \in Seq(Messages) /\ lane \in Lanes
  /\ frames \in Seq(Screens) /\ mailbox \in Seq(Mails) /\ slips \in Nat

(* An id is in one place on its way to a capture, and nowhere once it was    *)
(* captured.                                                                *)
IdsOf(m) == {m.id} \cup ToSet(m.more)
BusIds   == UNION {IdsOf(m) : m \in ToSet(bus)}
LaneIds  == lane.ids \cup lane.trailing
Held     == ToSet(recorder.typing) \cup ToSet(recorder.scrolling)
OnWay    == Held \cup BusIds \cup LaneIds
Heard    == 1 .. Len(kindOf)
InBatch  == ToSet(recorder.batch)
Ready    == lane.pc \in {"capture", "interval", "due"}

OneWay ==
  /\ OnWay \cup InBatch \cup stored \subseteq Heard
  /\ ToSet(recorder.typing) \cap ToSet(recorder.scrolling) = {}
  /\ Held \cap (BusIds \cup LaneIds) = {}
  /\ Ready => BusIds \cap LaneIds = {}
  /\ \A e \in EventIds : seen[e] # Unseen => e \in Heard /\ e \notin OnWay

(* Both ends of a link are true wherever they are. *)
Truthful(f, e) ==
  /\ f \in 1 .. Len(frames) /\ seen[e] \in Screens
  /\ SameContext(frames[f], seen[e]) /\ Alike(frames[f], seen[e])

MailIsTrue ==
  \A m \in ToSet(mailbox) :
    IF m.end = "event" THEN m.ids \subseteq stored ELSE \A e \in m.ids : Truthful(m.frame, e)

WaitingIsTrue ==
  /\ waiting.event \subseteq stored /\ DOMAIN waiting.frame \subseteq EventIds
  /\ \A e \in DOMAIN waiting.frame : Truthful(waiting.frame[e], e)

LinksAreTrue ==
  \A e \in EventIds : link[e] # 0 => e \in stored /\ Truthful(link[e], e)

MemoryIsTrue ==
  /\ \A w \in DOMAIN remembered.window : remembered.window[w] \in 1 .. Len(frames)
  /\ \A m \in DOMAIN remembered.monitor : remembered.monitor[m] \in 1 .. Len(frames)

TruthInv == EventShape /\ OneWay /\ MailIsTrue /\ WaitingIsTrue /\ LinksAreTrue /\ MemoryIsTrue

LEMMA UnseenIsNoScreen == Unseen \notin Screens /\ Unseen # Failed /\ Failed \notin Screens
<1>1. \A s \in Screens : DOMAIN s = {"window", "page", "text"}
  BY DEF Screens
<1>2. DOMAIN Unseen = {"result"} /\ DOMAIN Failed = {"result"}
  BY DEF Unseen, Failed
<1>3. Unseen.result # Failed.result
  BY DEF Unseen, Failed
<1>4. {"result"} # {"window", "page", "text"}
  OBVIOUS
<1> QED
  BY <1>1, <1>2, <1>3, <1>4

LEMMA ShapeFacts ==
  ASSUME EventShape
  PROVE  /\ Len(kindOf) \in Nat /\ Heard \subseteq EventIds /\ Len(frames) \in Nat
         /\ recorder.batch \in Seq(EventIds) /\ recorder.typing \in Seq(EventIds)
         /\ recorder.scrolling \in Seq(EventIds)
         /\ InBatch \subseteq EventIds /\ OnWay \subseteq EventIds
<1>1. /\ Len(kindOf) \in Nat /\ Heard \subseteq EventIds /\ Len(frames) \in Nat
      /\ recorder.batch \in Seq(EventIds) /\ recorder.typing \in Seq(EventIds)
      /\ recorder.scrolling \in Seq(EventIds)
  BY Sizes DEF EventShape, Recorders, Heard, EventIds
<1>2. Held \subseteq EventIds /\ InBatch \subseteq EventIds
  BY <1>1, SetOfSeq DEF Held, InBatch
<1>3. BusIds \subseteq EventIds
  <2>1. \A m \in ToSet(bus) : m \in Messages
    BY SetOfSeq DEF EventShape
  <2>2. \A m \in Messages : IdsOf(m) \subseteq EventIds
    BY SetOfSeq DEF Messages, IdsOf
  <2> QED
    BY <2>1, <2>2 DEF BusIds
<1>4. LaneIds \subseteq EventIds
  BY DEF EventShape, Lanes, LaneIds
<1> QED
  BY <1>1, <1>2, <1>3, <1>4 DEF OnWay

-----------------------------------------------------------------------------
(* Ids move along their way, or are lost. *)
LEMMA WayMoves ==
  ASSUME OneWay, UNCHANGED <<kindOf, seen>>,
         Held' \subseteq Held, BusIds' \cup LaneIds' \subseteq OnWay,
         ToSet(recorder.typing)' \in {ToSet(recorder.typing), {}},
         ToSet(recorder.scrolling)' \in {ToSet(recorder.scrolling), {}},
         Held' \cap (BusIds' \cup LaneIds') = {},
         Ready' => BusIds' \cap LaneIds' = {},
         stored' \cup InBatch' \subseteq stored \cup InBatch
  PROVE  OneWay' /\ OnWay' \subseteq OnWay
<1>1. OnWay' \subseteq OnWay
  BY DEF OnWay
<1>2. Heard' = Heard
  BY DEF Heard
<1>3. OnWay' \cup InBatch' \cup stored' \subseteq Heard'
  BY <1>1, <1>2 DEF OneWay
<1>4. ToSet(recorder'.typing) \cap ToSet(recorder'.scrolling) = {}
  BY DEF OneWay
<1>5. \A e \in EventIds : seen'[e] # Unseen => e \in Heard' /\ e \notin OnWay'
  BY <1>1, <1>2 DEF OneWay
<1> QED
  BY <1>1, <1>3, <1>4, <1>5 DEF OneWay

(* Nothing of the way is touched. *)
LEMMA WayRests ==
  ASSUME OneWay, UNCHANGED <<kindOf, recorder, bus, seen, stored>>,
         LaneIds' = LaneIds, Ready' => Ready
  PROVE  OneWay' /\ OnWay' = OnWay
BY DEF OneWay, OnWay, Held, BusIds, Heard, InBatch

(* Frames and screens seen stay as they are, and more are stored. *)
LEMMA TruthHolds ==
  ASSUME TruthInv, frames' = frames, seen' = seen, stored \subseteq stored'
  PROVE  /\ \A f, e : Truthful(f, e) => Truthful(f, e)'
         /\ mailbox' = mailbox => MailIsTrue'
         /\ waiting' = waiting => WaitingIsTrue'
         /\ link' = link => LinksAreTrue'
         /\ remembered' = remembered => MemoryIsTrue'
<1>1. \A f, e : Truthful(f, e) => Truthful(f, e)'
  BY DEF Truthful
<1>2. ASSUME mailbox' = mailbox PROVE MailIsTrue'
  <2>1. \A m \in ToSet(mailbox) :
          IF m.end = "event" THEN m.ids \subseteq stored' ELSE \A e \in m.ids : Truthful(m.frame, e)'
    BY <1>1 DEF TruthInv, MailIsTrue
  <2> QED
    BY <2>1, <1>2 DEF MailIsTrue
<1>3. ASSUME waiting' = waiting PROVE WaitingIsTrue'
  <2>1. PICK table : table = waiting.frame
    OBVIOUS
  <2>2. \A e \in DOMAIN table : Truthful(table[e], e)'
    BY <2>1, <1>1 DEF TruthInv, WaitingIsTrue
  <2> QED
    BY <2>1, <2>2, <1>3 DEF TruthInv, WaitingIsTrue
<1>4. ASSUME link' = link PROVE LinksAreTrue'
  <2>1. PICK table : table = link
    OBVIOUS
  <2>2. \A e \in EventIds : table[e] # 0 => e \in stored' /\ Truthful(table[e], e)'
    BY <2>1, <1>1 DEF TruthInv, LinksAreTrue
  <2> QED
    BY <2>1, <2>2, <1>4 DEF LinksAreTrue
<1>5. ASSUME remembered' = remembered PROVE MemoryIsTrue'
  BY <1>5 DEF TruthInv, MemoryIsTrue
<1> QED
  BY <1>1, <1>2, <1>3, <1>4, <1>5

LEMMA MessageSet ==
  ASSUME NEW k \in Triggers, NEW b \in Seq(EventIds), b # <<>>
  PROVE  /\ Message(k, b) \in Messages /\ IdsOf(Message(k, b)) = ToSet(b)
         /\ Message(k, b).more = Tail(b) /\ Message(k, b).id = b[1]
<1>1. Head(b) \in EventIds /\ Tail(b) \in Seq(EventIds) /\ ToSet(b) = {Head(b)} \cup ToSet(Tail(b))
  BY TailSet
<1>2. Head(b) = b[1]
  OBVIOUS
<1>3. PICK rest \in Seq(EventIds) : rest = Tail(b)
  BY <1>1
<1>4. Message(k, b) = [trigger |-> k, id |-> b[1], more |-> rest]
  BY <1>3 DEF Message
<1>5. Message(k, b) \in Messages
  BY <1>1, <1>2, <1>4 DEF Messages
<1> QED
  BY <1>1, <1>2, <1>3, <1>4, <1>5 DEF IdsOf

(* A batch is written, or it is not. *)
LEMMA WrittenHolds ==
  ASSUME TruthInv, NEW b \in Seq(EventIds), Written(b), frames' = frames, seen' = seen
  PROVE  /\ stored' = stored \cup ToSet(b) /\ mailbox' \in Seq(Mails) /\ slips' \in Nat /\ MailIsTrue'
         /\ slips' = 0 =>
              /\ slips = 0 /\ ToSet(mailbox) \subseteq ToSet(mailbox')
              /\ \A e \in ToSet(b) : Persisted(e) \in ToSet(mailbox')
<1>1. PICK news : news = [i \in DOMAIN b |-> Persisted(b[i])]
  OBVIOUS
<1>2. Len(b) \in Nat /\ DOMAIN b = 1 .. Len(b) /\ \A i \in 1 .. Len(b) : b[i] \in EventIds
  OBVIOUS
<1>3. \A e \in EventIds : Persisted(e) \in Mails
  BY DEF Persisted, Mails
<1>4. news \in Seq(Mails) /\ Len(news) = Len(b)
  <2>1. news \in [1 .. Len(b) -> Mails]
    BY <1>1, <1>2, <1>3
  <2> QED
    BY <2>1, <1>2
<1>5. ToSet(news) = {Persisted(e) : e \in ToSet(b)}
  BY <1>1, <1>2 DEF ToSet
<1>6. /\ stored' = stored \cup ToSet(b) /\ mailbox' = Posted(news)
      /\ slips' = IF Len(mailbox) + Len(b) > MailSize THEN slips + 1 ELSE slips
  BY <1>1 DEF Written
<1>7. /\ mailbox \in Seq(Mails) /\ slips \in Nat /\ Len(mailbox) \in Nat
  BY DEF TruthInv, EventShape
<1>8. /\ mailbox' \in Seq(Mails) /\ ToSet(mailbox') \subseteq ToSet(mailbox) \cup ToSet(news)
      /\ Len(mailbox) + Len(b) =< MailSize => ToSet(mailbox') = ToSet(mailbox) \cup ToSet(news)
  BY <1>4, <1>6, <1>7, PostedSet
<1>9. MailIsTrue'
  <2>1. stored \subseteq stored'
    BY <1>6
  <2>2. \A f, e : Truthful(f, e) => Truthful(f, e)'
    BY <2>1, TruthHolds
  <2>3. \A m \in ToSet(mailbox) :
          IF m.end = "event" THEN m.ids \subseteq stored' ELSE \A e \in m.ids : Truthful(m.frame, e)'
    BY <2>1, <2>2 DEF TruthInv, MailIsTrue
  <2>4. \A m \in ToSet(news) : m.end = "event" /\ m.ids \subseteq stored'
    BY <1>5, <1>6 DEF Persisted
  <2> QED
    BY <2>3, <2>4, <1>8 DEF MailIsTrue
<1>10. slips' \in Nat /\ (slips' = 0 => slips = 0 /\ Len(mailbox) + Len(b) =< MailSize)
  BY <1>2, <1>6, <1>7, Sizes
<1>11. ASSUME slips' = 0
       PROVE  /\ ToSet(mailbox) \subseteq ToSet(mailbox')
              /\ \A e \in ToSet(b) : Persisted(e) \in ToSet(mailbox')
  BY <1>5, <1>8, <1>10, <1>11
<1> QED
  BY <1>6, <1>8, <1>9, <1>10, <1>11

LEMMA NotWrittenHolds ==
  ASSUME TruthInv, NotWritten, frames' = frames, seen' = seen
  PROVE  stored' = stored /\ mailbox' = mailbox /\ slips' \in Nat /\ slips' # 0 /\ MailIsTrue'
<1>1. stored' = stored /\ mailbox' = mailbox /\ slips' \in Nat /\ slips' # 0
  BY DEF NotWritten, Slip, TruthInv, EventShape
<1> QED
  BY <1>1, TruthHolds

LEMMA KeptSet ==
  ASSUME NEW b \in Seq(EventIds)
  PROVE  Kept(b) \in Seq(EventIds) /\ ToSet(Kept(b)) \subseteq ToSet(b)
<1>1. CASE Len(b) > 2 * BatchSize
  <2>1. Len(b) \in Nat /\ Len(b) - BatchSize + 1 \in Int /\ 1 =< Len(b) - BatchSize + 1
    BY <1>1, Sizes
  <2>2. /\ SubSeq(b, Len(b) - BatchSize + 1, Len(b)) \in Seq(EventIds)
        /\ ToSet(SubSeq(b, Len(b) - BatchSize + 1, Len(b))) \subseteq ToSet(b)
    BY <2>1, SubSeqSet
  <2> QED
    BY <2>2, <1>1 DEF Kept
<1>2. CASE ~(Len(b) > 2 * BatchSize)
  BY <1>2 DEF Kept
<1> QED
  BY <1>1, <1>2

(* A message joins the bus. *)
LEMMA SentIds ==
  ASSUME EventShape, NEW t \in Seq(Messages), bus' = Sent(bus, t)
  PROVE  /\ bus' \in Seq(Messages)
         /\ BusIds' \subseteq BusIds \cup UNION {IdsOf(m) : m \in ToSet(t)}
         /\ ToSet(bus') \subseteq ToSet(bus) \cup ToSet(t)
<1>1. bus \in Seq(Messages)
  BY DEF EventShape
<1>2. bus' \in Seq(Messages) /\ ToSet(bus') \subseteq ToSet(bus) \cup ToSet(t)
  BY <1>1, SentSet
<1> QED
  BY <1>2 DEF BusIds

(* What an event does to the recorder and the bus. *)
LEMMA HearShows ==
  ASSUME TruthInv, NEW kind \in Kinds, Hear(kind), NEW e, e = Len(kindOf) + 1
  PROVE  /\ e \in EventIds /\ e \notin Heard /\ e \notin OnWay /\ e \notin stored \cup InBatch
         /\ kindOf' \in Seq(Kinds) /\ Len(kindOf') =< MaxEvents /\ Heard' = Heard \cup {e}
         /\ kindOf'[e] = kind /\ \A x \in Heard : kindOf'[x] = kindOf[x]
         /\ recorder' \in Recorders
         /\ ToSet(recorder.typing)' = ToSet(recorder.typing) \cup (IF kind = "key" THEN {e} ELSE {})
         /\ ToSet(recorder.scrolling)' = ToSet(recorder.scrolling) \cup (IF kind = "scroll" THEN {e} ELSE {})
         /\ bus' \in Seq(Messages)
         /\ BusIds' \subseteq BusIds \cup (IF kind \in {"click", "focus"} THEN {e} ELSE {})
         /\ UNCHANGED <<recording, lane, frames, remembered, seen, link, waiting>>
         /\ mailbox' \in Seq(Mails) /\ slips' \in Nat /\ MailIsTrue' /\ stored \subseteq stored'
         /\ stored' \cup InBatch' \subseteq stored \cup InBatch \cup {e}
         /\ slips' = 0 => slips = 0 /\ ToSet(mailbox) \subseteq ToSet(mailbox')
                         /\ \A x \in stored' \ stored : Persisted(x) \in ToSet(mailbox')
         /\ \A m \in ToSet(bus') : m \in ToSet(bus) \/ m.more = <<>>
<1>1. EventShape /\ OneWay
  BY DEF TruthInv
<1>2. /\ Len(kindOf) \in Nat /\ recorder.batch \in Seq(EventIds) /\ recorder.typing \in Seq(EventIds)
      /\ recorder.scrolling \in Seq(EventIds) /\ kindOf \in Seq(Kinds)
  BY <1>1, ShapeFacts DEF EventShape
<1>3. e \in EventIds /\ e \notin Heard /\ e \in Nat
  BY <1>2 DEF Hear, Heard
<1>4. e \notin OnWay /\ e \notin stored \cup InBatch
  BY <1>1, <1>3 DEF OneWay
<1>5. /\ kindOf' = Append(kindOf, kind)
      /\ bus' = (IF kind \in {"click", "focus"} THEN Sent(bus, <<Message(kind, <<e>>)>>) ELSE bus)
      /\ UNCHANGED <<recording, lane, frames, remembered, seen, link, waiting>>
  BY DEF Hear
<1>6. /\ kindOf' \in Seq(Kinds) /\ Len(kindOf') = e /\ kindOf'[e] = kind
      /\ \A x \in 1 .. Len(kindOf) : kindOf'[x] = kindOf[x]
  BY <1>2, <1>5
<1>7. Heard' = Heard \cup {e} /\ Len(kindOf') =< MaxEvents
  BY <1>2, <1>3, <1>6, Sizes DEF Heard, EventIds
<1>8. PICK longer \in Seq(EventIds) :
        longer = Append(recorder.batch, e) /\ ToSet(longer) = InBatch \cup {e}
  <2>1. /\ Append(recorder.batch, e) \in Seq(EventIds)
        /\ ToSet(Append(recorder.batch, e)) = ToSet(recorder.batch) \cup {e}
    BY <1>2, <1>3, AppendSet
  <2> QED
    BY <2>1, Zenon DEF InBatch
<1>9. PICK typing \in Seq(EventIds) :
        /\ typing = (IF kind = "key" THEN Append(recorder.typing, e) ELSE recorder.typing)
        /\ ToSet(typing) = ToSet(recorder.typing) \cup (IF kind = "key" THEN {e} ELSE {})
  <2>1. /\ Append(recorder.typing, e) \in Seq(EventIds)
        /\ ToSet(Append(recorder.typing, e)) = ToSet(recorder.typing) \cup {e}
    BY <1>2, <1>3, AppendSet
  <2>2. CASE kind = "key"
    BY <2>1, <2>2, Zenon
  <2>3. CASE kind # "key"
    BY <2>3, <1>2
  <2> QED
    BY <2>2, <2>3
<1>10. PICK scrolling \in Seq(EventIds) :
        /\ scrolling = (IF kind = "scroll" THEN Append(recorder.scrolling, e) ELSE recorder.scrolling)
        /\ ToSet(scrolling) = ToSet(recorder.scrolling) \cup (IF kind = "scroll" THEN {e} ELSE {})
  <2>1. /\ Append(recorder.scrolling, e) \in Seq(EventIds)
        /\ ToSet(Append(recorder.scrolling, e)) = ToSet(recorder.scrolling) \cup {e}
    BY <1>2, <1>3, AppendSet
  <2>2. CASE kind = "scroll"
    BY <2>1, <2>2, Zenon
  <2>3. CASE kind # "scroll"
    BY <2>3, <1>2
  <2> QED
    BY <2>2, <2>3
<1>11. \/ /\ recorder' = [batch |-> longer, typing |-> typing, scrolling |-> scrolling]
          /\ UNCHANGED <<stored, mailbox, slips>>
       \/ /\ Written(longer)
          /\ recorder' = [batch |-> <<>>, typing |-> typing, scrolling |-> scrolling]
       \/ /\ NotWritten
          /\ recorder' = [batch |-> Kept(longer), typing |-> typing, scrolling |-> scrolling]
  BY <1>8, <1>9, <1>10 DEF Hear
<1>12. PICK left \in Seq(EventIds) :
         /\ recorder' = [batch |-> left, typing |-> typing, scrolling |-> scrolling]
         /\ ToSet(left) \subseteq InBatch \cup {e}
  <2>1. Kept(longer) \in Seq(EventIds) /\ ToSet(Kept(longer)) \subseteq InBatch \cup {e}
    BY <1>8, KeptSet
  <2>2. <<>> \in Seq(EventIds) /\ ToSet(<<>>) \subseteq InBatch \cup {e}
    BY EmptySet
  <2> QED
    BY <2>1, <2>2, <1>8, <1>11
<1>13. /\ recorder' \in Recorders /\ recorder'.typing = typing /\ recorder'.scrolling = scrolling
       /\ InBatch' \subseteq InBatch \cup {e}
  BY <1>12 DEF Recorders, InBatch, EventIds
<1>14. PICK message \in Messages : /\ message = Message(kind, <<e>>) /\ IdsOf(message) = {e}
                                  /\ message.more = <<>>
  <2>1. <<e>> \in Seq(EventIds) /\ <<e>> # <<>> /\ Tail(<<e>>) = <<>> /\ ToSet(<<e>>) = {e}
    BY <1>3, SingleSet
  <2>2. kind \in Triggers
    BY DEF Triggers
  <2>3. /\ Message(kind, <<e>>) \in Messages /\ IdsOf(Message(kind, <<e>>)) = {e}
        /\ Message(kind, <<e>>).more = <<>>
    BY <2>1, <2>2, MessageSet
  <2> QED
    BY <2>3
<1>15. /\ bus' \in Seq(Messages)
       /\ BusIds' \subseteq BusIds \cup (IF kind \in {"click", "focus"} THEN {e} ELSE {})
       /\ \A m \in ToSet(bus') : m \in ToSet(bus) \/ m.more = <<>>
  <2>1. CASE kind \in {"click", "focus"}
    <3>1. PICK t \in Seq(Messages) : t = <<message>> /\ ToSet(t) = {message}
      BY SingleSet
    <3>2. bus' = Sent(bus, t)
      BY <2>1, <3>1, <1>5, <1>14
    <3>3. /\ bus' \in Seq(Messages) /\ BusIds' \subseteq BusIds \cup UNION {IdsOf(m) : m \in ToSet(t)}
          /\ ToSet(bus') \subseteq ToSet(bus) \cup ToSet(t)
      BY <3>2, <1>1, SentIds
    <3>4. UNION {IdsOf(m) : m \in ToSet(t)} = {e}
      BY <3>1, <1>14
    <3> QED
      BY <2>1, <3>1, <3>3, <3>4, <1>14
  <2>2. CASE kind \notin {"click", "focus"}
    BY <2>2, <1>1, <1>5 DEF EventShape, BusIds
  <2> QED
    BY <2>1, <2>2
<1>16. /\ mailbox' \in Seq(Mails) /\ slips' \in Nat /\ MailIsTrue' /\ stored \subseteq stored'
       /\ stored' \subseteq stored \cup InBatch \cup {e}
       /\ slips' = 0 => slips = 0 /\ ToSet(mailbox) \subseteq ToSet(mailbox')
                       /\ \A x \in stored' \ stored : Persisted(x) \in ToSet(mailbox')
  <2>1. CASE UNCHANGED <<stored, mailbox, slips>>
    BY <2>1, <1>1, <1>5, TruthHolds DEF EventShape
  <2>2. CASE Written(longer)
    BY <2>2, <1>5, <1>8, WrittenHolds
  <2>3. CASE NotWritten
    BY <2>3, <1>1, <1>5, NotWrittenHolds DEF EventShape
  <2> QED
    BY <2>1, <2>2, <2>3, <1>11
<1> QED
  BY <1>3, <1>4, <1>5, <1>6, <1>7, <1>9, <1>10, <1>13, <1>15, <1>16 DEF Heard

LEMMA HearHolds ==
  ASSUME TruthInv, NEW kind \in Kinds, Hear(kind)
  PROVE  TruthInv'
<1>1. PICK e : e = Len(kindOf) + 1
  OBVIOUS
<1>2. /\ e \in EventIds /\ e \notin Heard /\ e \notin OnWay
      /\ kindOf' \in Seq(Kinds) /\ Len(kindOf') =< MaxEvents /\ Heard' = Heard \cup {e}
      /\ recorder' \in Recorders
      /\ ToSet(recorder.typing)' = ToSet(recorder.typing) \cup (IF kind = "key" THEN {e} ELSE {})
      /\ ToSet(recorder.scrolling)' = ToSet(recorder.scrolling) \cup (IF kind = "scroll" THEN {e} ELSE {})
      /\ bus' \in Seq(Messages)
      /\ BusIds' \subseteq BusIds \cup (IF kind \in {"click", "focus"} THEN {e} ELSE {})
      /\ UNCHANGED <<recording, lane, frames, remembered, seen, link, waiting>>
      /\ mailbox' \in Seq(Mails) /\ slips' \in Nat /\ MailIsTrue' /\ stored \subseteq stored'
      /\ stored' \cup InBatch' \subseteq stored \cup InBatch \cup {e}
  BY <1>1, HearShows
<1>3. EventShape'
  BY <1>2 DEF TruthInv, EventShape
<1>4. OneWay'
  <2>1. OneWay
    BY DEF TruthInv
  <2>2. LaneIds' = LaneIds /\ Ready' = Ready
    BY <1>2 DEF LaneIds, Ready
  <2>3. e \notin Held /\ e \notin BusIds /\ e \notin LaneIds
    BY <1>2 DEF OnWay
  <2>4. OnWay' \cup InBatch' \cup stored' \subseteq Heard'
    BY <2>1, <2>2, <1>2 DEF OneWay, OnWay, Held
  <2>5. ToSet(recorder.typing)' \cap ToSet(recorder.scrolling)' = {}
    BY <2>1, <2>3, <1>2 DEF OneWay, Held
  <2>6. Held' \cap (BusIds' \cup LaneIds') = {}
    BY <2>1, <2>2, <2>3, <1>2 DEF OneWay, Held
  <2>7. Ready' => BusIds' \cap LaneIds' = {}
    BY <2>1, <2>2, <2>3, <1>2 DEF OneWay
  <2>8. \A x \in EventIds : seen'[x] # Unseen => x \in Heard' /\ x \notin OnWay'
    <3>1. OnWay' \subseteq OnWay \cup {e}
      BY <2>2, <1>2 DEF OnWay, Held
    <3> QED
      BY <3>1, <2>1, <1>2 DEF OneWay
  <2> QED
    BY <2>4, <2>5, <2>6, <2>7, <2>8 DEF OneWay
<1>5. WaitingIsTrue' /\ LinksAreTrue' /\ MemoryIsTrue'
  BY <1>2, TruthHolds
<1> QED
  BY <1>2, <1>3, <1>4, <1>5 DEF TruthInv

LEMMA TypingPauseHolds ==
  ASSUME TruthInv, TypingPause
  PROVE  TruthInv' /\ OnWay' \subseteq OnWay /\ \A m \in ToSet(bus') : m \in ToSet(bus) \/ m.more = <<>>
<1>1. EventShape /\ OneWay /\ recorder \in Recorders /\ recorder.typing \in Seq(EventIds)
  BY ShapeFacts DEF TruthInv, EventShape
<1>2. PICK typing \in Seq(EventIds) : typing = recorder.typing
  BY <1>1
<1>3. PICK t : t = [i \in DOMAIN typing |-> Message("key", <<typing[i]>>)]
  OBVIOUS
<1>4. /\ bus' = Sent(bus, t) /\ recorder' = [recorder EXCEPT !.typing = <<>>]
      /\ UNCHANGED <<recording, kindOf, lane, frames, remembered, seen, stored, link,
                     mailbox, waiting, slips>>
  BY <1>2, <1>3 DEF TypingPause
<1>5. \A e \in EventIds : /\ Message("key", <<e>>) \in Messages /\ IdsOf(Message("key", <<e>>)) = {e}
                          /\ Message("key", <<e>>).more = <<>>
  <2> SUFFICES ASSUME NEW e \in EventIds
               PROVE  /\ Message("key", <<e>>) \in Messages /\ IdsOf(Message("key", <<e>>)) = {e}
                      /\ Message("key", <<e>>).more = <<>>
    OBVIOUS
  <2>1. <<e>> \in Seq(EventIds) /\ <<e>> # <<>> /\ Tail(<<e>>) = <<>> /\ ToSet(<<e>>) = {e}
    BY SingleSet
  <2>2. "key" \in Triggers
    BY DEF Triggers
  <2> QED
    BY <2>1, <2>2, MessageSet
<1>6. t \in Seq(Messages) /\ \A m \in ToSet(t) : \E e \in ToSet(typing) : IdsOf(m) = {e} /\ m.more = <<>>
  <2>1. DOMAIN typing = 1 .. Len(typing) /\ Len(typing) \in Nat /\ \A i \in 1 .. Len(typing) : typing[i] \in EventIds
    OBVIOUS
  <2>2. t \in [1 .. Len(typing) -> Messages]
    BY <2>1, <1>3, <1>5
  <2>3. \A i \in 1 .. Len(typing) : t[i] = Message("key", <<typing[i]>>)
    BY <2>1, <1>3
  <2>4. \A i \in 1 .. Len(typing) : IdsOf(t[i]) = {typing[i]} /\ t[i].more = <<>>
    BY <2>1, <2>3, <1>5
  <2>5. t \in Seq(Messages) /\ DOMAIN t = 1 .. Len(typing)
    BY <2>1, <2>2
  <2> QED
    BY <2>1, <2>4, <2>5 DEF ToSet
<1>7. /\ bus' \in Seq(Messages) /\ BusIds' \subseteq BusIds \cup UNION {IdsOf(m) : m \in ToSet(t)}
      /\ ToSet(bus') \subseteq ToSet(bus) \cup ToSet(t)
  BY <1>1, <1>4, <1>6, SentIds
<1>8. BusIds' \subseteq BusIds \cup ToSet(recorder.typing)
  BY <1>2, <1>6, <1>7
<1>9. /\ recorder' \in Recorders /\ recorder'.typing = <<>> /\ recorder'.scrolling = recorder.scrolling
      /\ recorder'.batch = recorder.batch
  <2>1. <<>> \in Seq(EventIds)
    OBVIOUS
  <2> QED
    BY <2>1, <1>1, <1>4 DEF Recorders
<1>10. EventShape'
  BY <1>1, <1>4, <1>7, <1>9 DEF EventShape
<1>11. OneWay' /\ OnWay' \subseteq OnWay
  <2>1. LaneIds' = LaneIds /\ Ready' = Ready /\ InBatch' = InBatch
    BY <1>4, <1>9 DEF LaneIds, Ready, InBatch
  <2>2. Held' = ToSet(recorder.scrolling) /\ Held' \subseteq Held
    BY <1>9, EmptySet DEF Held
  <2>3. Held' \cap (BusIds' \cup LaneIds') = {}
    BY <2>1, <2>2, <1>1, <1>8 DEF OneWay, Held
  <2>4. Ready' => BusIds' \cap LaneIds' = {}
    BY <2>1, <1>1, <1>8 DEF OneWay, Held
  <2>5. BusIds' \cup LaneIds' \subseteq OnWay
    BY <2>1, <1>8 DEF OnWay, Held
  <2> QED
    BY <2>1, <2>2, <2>3, <2>4, <2>5, <1>1, <1>4, <1>9, EmptySet, WayMoves
<1>12. MailIsTrue' /\ WaitingIsTrue' /\ LinksAreTrue' /\ MemoryIsTrue'
  BY <1>4, TruthHolds
<1> QED
  BY <1>6, <1>7, <1>10, <1>11, <1>12 DEF TruthInv

(* What the tick does to the recorder, the bus and the linker's channel. *)
LEMMA TickShows ==
  ASSUME TruthInv, Tick
  PROVE  /\ recorder' \in Recorders /\ recorder'.typing = recorder.typing /\ InBatch' \subseteq InBatch
         /\ \/ recorder'.scrolling = recorder.scrolling /\ BusIds' = BusIds /\ bus' = bus
            \/ /\ recorder'.scrolling = <<>> /\ BusIds' \subseteq BusIds \cup ToSet(recorder.scrolling)
               /\ \A m \in ToSet(bus') :
                    m \in ToSet(bus) \/ ToSet(m.more) \subseteq ToSet(recorder.scrolling)
         /\ bus' \in Seq(Messages) /\ mailbox' \in Seq(Mails) /\ slips' \in Nat /\ MailIsTrue'
         /\ stored \subseteq stored' /\ stored' \subseteq stored \cup InBatch
         /\ slips' = 0 => slips = 0 /\ ToSet(mailbox) \subseteq ToSet(mailbox')
                         /\ \A x \in stored' \ stored : Persisted(x) \in ToSet(mailbox')
<1>1. EventShape /\ recorder \in Recorders /\ recorder.batch \in Seq(EventIds)
      /\ recorder.scrolling \in Seq(EventIds) /\ recorder.typing \in Seq(EventIds)
  BY ShapeFacts DEF TruthInv, EventShape
<1>2. PICK stopped \in {FALSE, recorder.scrolling # <<>>} : \E written \in BOOLEAN :
        /\ IF written THEN Written(recorder.batch)
           ELSE recorder.batch # <<>> /\ NotWritten
        /\ recorder' =
             [recorder EXCEPT !.batch = IF written THEN <<>> ELSE @,
                              !.scrolling = IF stopped THEN <<>> ELSE @]
        /\ bus' = IF stopped THEN Sent(bus, <<Message("scroll", recorder.scrolling)>>)
                  ELSE bus
  BY Zenon DEF Tick
<1>3. PICK written \in BOOLEAN :
        /\ IF written THEN Written(recorder.batch)
           ELSE recorder.batch # <<>> /\ NotWritten
        /\ recorder' =
             [recorder EXCEPT !.batch = IF written THEN <<>> ELSE @,
                              !.scrolling = IF stopped THEN <<>> ELSE @]
        /\ bus' = IF stopped THEN Sent(bus, <<Message("scroll", recorder.scrolling)>>)
                  ELSE bus
  BY <1>2
<1>4. PICK left : left = (IF written THEN <<>> ELSE recorder.batch)
  OBVIOUS
<1>5. PICK still : still = (IF stopped THEN <<>> ELSE recorder.scrolling)
  OBVIOUS
<1>6. recorder' = [recorder EXCEPT !.batch = left, !.scrolling = still]
  BY <1>3, <1>4, <1>5, <1>1 DEF Recorders
<1>7. /\ left \in Seq(EventIds) /\ ToSet(left) \subseteq InBatch /\ still \in Seq(EventIds)
  BY <1>1, <1>4, <1>5, EmptySet DEF InBatch
<1>8. /\ recorder' \in Recorders /\ recorder'.typing = recorder.typing /\ recorder'.scrolling = still
      /\ InBatch' \subseteq InBatch
  BY <1>1, <1>6, <1>7 DEF Recorders, InBatch
<1>9. frames' = frames /\ seen' = seen
  BY DEF Tick
<1>10. /\ mailbox' \in Seq(Mails) /\ slips' \in Nat /\ MailIsTrue'
       /\ stored \subseteq stored' /\ stored' \subseteq stored \cup InBatch
       /\ slips' = 0 => slips = 0 /\ ToSet(mailbox) \subseteq ToSet(mailbox')
                       /\ \A x \in stored' \ stored : Persisted(x) \in ToSet(mailbox')
  <2>1. CASE Written(recorder.batch)
    BY <2>1, <1>1, <1>9, WrittenHolds DEF InBatch
  <2>2. CASE NotWritten
    BY <2>2, <1>1, <1>9, NotWrittenHolds DEF EventShape
  <2> QED
    BY <2>1, <2>2, <1>3
<1>11. CASE stopped
  <2>1. recorder.scrolling # <<>> /\ "scroll" \in Triggers
    BY <1>2, <1>11 DEF Triggers
  <2>2. PICK message \in Messages :
          /\ message = Message("scroll", recorder.scrolling) /\ IdsOf(message) = ToSet(recorder.scrolling)
          /\ ToSet(message.more) \subseteq ToSet(recorder.scrolling)
    <3>1. /\ Message("scroll", recorder.scrolling) \in Messages
          /\ IdsOf(Message("scroll", recorder.scrolling)) = ToSet(recorder.scrolling)
      BY <2>1, <1>1, MessageSet
    <3> QED
      BY <3>1 DEF IdsOf
  <2>3. PICK t \in Seq(Messages) : t = <<message>> /\ ToSet(t) = {message}
    BY SingleSet
  <2>4. bus' = Sent(bus, t) /\ still = <<>>
    BY <1>3, <1>5, <1>11, <2>2, <2>3
  <2>5. /\ bus' \in Seq(Messages) /\ BusIds' \subseteq BusIds \cup UNION {IdsOf(m) : m \in ToSet(t)}
        /\ ToSet(bus') \subseteq ToSet(bus) \cup ToSet(t)
    BY <2>4, <1>1, SentIds
  <2>6. BusIds' \subseteq BusIds \cup ToSet(recorder.scrolling)
    BY <2>2, <2>3, <2>5
  <2> QED
    BY <2>2, <2>3, <2>4, <2>5, <2>6, <1>8, <1>10
<1>12. CASE ~stopped
  <2>1. bus' = bus /\ still = recorder.scrolling
    BY <1>3, <1>5, <1>12
  <2>2. BusIds' = BusIds /\ bus' \in Seq(Messages)
    BY <2>1, <1>1 DEF BusIds, EventShape
  <2> QED
    BY <2>1, <2>2, <1>8, <1>10
<1> QED
  BY <1>11, <1>12

LEMMA TickHolds ==
  ASSUME TruthInv, Tick
  PROVE  TruthInv' /\ OnWay' \subseteq OnWay
<1>1. /\ recorder' \in Recorders /\ recorder'.typing = recorder.typing /\ InBatch' \subseteq InBatch
      /\ \/ recorder'.scrolling = recorder.scrolling /\ BusIds' = BusIds
         \/ recorder'.scrolling = <<>> /\ BusIds' \subseteq BusIds \cup ToSet(recorder.scrolling)
      /\ bus' \in Seq(Messages) /\ mailbox' \in Seq(Mails) /\ slips' \in Nat /\ MailIsTrue'
      /\ stored \subseteq stored' /\ stored' \subseteq stored \cup InBatch
  BY TickShows
<1>2. UNCHANGED <<recording, kindOf, lane, frames, remembered, seen, link, waiting>>
  BY DEF Tick
<1>3. EventShape'
  BY <1>1, <1>2 DEF TruthInv, EventShape
<1>4. OneWay' /\ OnWay' \subseteq OnWay
  <2>1. OneWay /\ LaneIds' = LaneIds /\ Ready' = Ready
    BY <1>2 DEF LaneIds, Ready, TruthInv
  <2>2. /\ ToSet(recorder.typing)' = ToSet(recorder.typing)
        /\ ToSet(recorder.scrolling)' \in {ToSet(recorder.scrolling), {}}
        /\ Held' \subseteq Held
    BY <1>1, EmptySet DEF Held
  <2>3. Held' \cap (BusIds' \cup LaneIds') = {}
    BY <2>1, <1>1, EmptySet DEF OneWay, Held
  <2>4. Ready' => BusIds' \cap LaneIds' = {}
    BY <2>1, <1>1 DEF OneWay, Held
  <2>5. BusIds' \cup LaneIds' \subseteq OnWay
    BY <2>1, <1>1 DEF OnWay, Held
  <2>6. stored' \cup InBatch' \subseteq stored \cup InBatch
    BY <1>1
  <2> QED
    BY <2>1, <2>2, <2>3, <2>4, <2>5, <2>6, <1>2, WayMoves
<1>5. WaitingIsTrue' /\ LinksAreTrue' /\ MemoryIsTrue'
  BY <1>1, <1>2, TruthHolds
<1> QED
  BY <1>1, <1>3, <1>4, <1>5 DEF TruthInv

(* Steps that leave the events, the frames and the linker alone. *)
LEMMA OnlyTheWay ==
  ASSUME TruthInv, OneWay', bus' \in Seq(Messages), lane' \in Lanes, recorder' \in Recorders,
         UNCHANGED <<kindOf, frames, remembered, seen, stored, link, mailbox, waiting, slips>>
  PROVE  TruthInv'
<1>1. EventShape'
  BY DEF TruthInv, EventShape
<1>2. MailIsTrue' /\ WaitingIsTrue' /\ LinksAreTrue' /\ MemoryIsTrue'
  BY TruthHolds
<1> QED
  BY <1>1, <1>2 DEF TruthInv

LEMMA WakesHolds ==
  ASSUME TruthInv, Wakes
  PROVE  TruthInv' /\ OnWay' \subseteq OnWay
<1>1. EventShape /\ OneWay /\ bus \in Seq(Messages) /\ bus # <<>> /\ recorder \in Recorders
  BY DEF TruthInv, EventShape, Wakes
<1>2. PICK m \in Messages : m = Head(bus) /\ ToSet(bus) = {m} \cup ToSet(Tail(bus)) /\ Tail(bus) \in Seq(Messages)
  BY <1>1, TailSet
<1>3. /\ lane' = [pc |-> "debounce", ids |-> {m.id}, trailing |-> ToSet(m.more),
                  trigger |-> m.trigger, active |-> TRUE]
      /\ bus' = Tail(bus)
      /\ UNCHANGED <<recording, kindOf, recorder, frames, remembered, seen, stored,
                     link, mailbox, waiting, slips>>
  BY <1>2 DEF Wakes
<1>4. lane' \in Lanes /\ LaneIds' = IdsOf(m) /\ ~Ready'
  <2>1. m.id \in EventIds /\ ToSet(m.more) \subseteq EventIds /\ m.trigger \in Triggers
    BY <1>2, SetOfSeq DEF Messages
  <2> QED
    BY <2>1, <1>3 DEF Lanes, LaneIds, IdsOf, Ready
<1>5. BusIds' \subseteq BusIds /\ LaneIds' \subseteq BusIds
  BY <1>2, <1>3, <1>4 DEF BusIds
<1>6. OneWay' /\ OnWay' \subseteq OnWay
  <2>1. Held' = Held /\ InBatch' = InBatch
    BY <1>3 DEF Held, InBatch
  <2>2. Held' \cap (BusIds' \cup LaneIds') = {}
    BY <2>1, <1>1, <1>5 DEF OneWay
  <2>3. BusIds' \cup LaneIds' \subseteq OnWay
    BY <1>5 DEF OnWay
  <2> QED
    BY <2>1, <2>2, <2>3, <1>1, <1>3, <1>4, WayMoves
<1> QED
  BY <1>1, <1>2, <1>3, <1>4, <1>6, OnlyTheWay

LEMMA JoinedHolds ==
  ASSUME TruthInv, NEW pc \in {"capture", "due"}, Joined(pc)
  PROVE  TruthInv' /\ OnWay' \subseteq OnWay
<1>1. EventShape /\ OneWay /\ bus \in Seq(Messages) /\ lane \in Lanes /\ recorder \in Recorders
  BY DEF TruthInv, EventShape
<1>2. PICK trigger \in Triggers : trigger = (IF bus = <<>> THEN lane.trigger ELSE Last(bus).trigger)
  <2>1. CASE bus = <<>>
    BY <2>1, <1>1 DEF Lanes
  <2>2. CASE bus # <<>>
    <3>1. Len(bus) \in 1 .. Len(bus)
      BY <2>2, <1>1
    <3>2. bus[Len(bus)] \in Messages
      BY <3>1, <1>1
    <3> QED
      BY <3>2, <2>2 DEF Last, Messages
  <2> QED
    BY <2>1, <2>2
<1>3. FirstIds(bus) \cup MoreIds(bus) = BusIds
  BY DEF FirstIds, MoreIds, BusIds, ToSet, IdsOf
<1>4. BusIds \subseteq EventIds
  BY <1>1, ShapeFacts DEF OnWay
<1>5. /\ lane' = [lane EXCEPT !.pc = pc, !.ids = @ \cup FirstIds(bus),
                             !.trailing = @ \cup MoreIds(bus), !.trigger = trigger]
      /\ bus' = <<>>
      /\ UNCHANGED <<recording, kindOf, recorder, frames, remembered, seen, stored,
                     link, mailbox, waiting, slips>>
  BY <1>1, <1>2 DEF Joined, Lanes
<1>6. lane' \in Lanes /\ LaneIds' = LaneIds \cup BusIds
  BY <1>1, <1>3, <1>4, <1>5 DEF Lanes, LaneIds
<1>7. BusIds' = {} /\ bus' \in Seq(Messages)
  BY <1>5, EmptySet DEF BusIds
<1>8. OneWay' /\ OnWay' \subseteq OnWay
  <2>1. Held' = Held /\ InBatch' = InBatch
    BY <1>5 DEF Held, InBatch
  <2>2. Held' \cap (BusIds' \cup LaneIds') = {}
    BY <2>1, <1>1, <1>6, <1>7 DEF OneWay
  <2>3. BusIds' \cup LaneIds' \subseteq OnWay
    BY <1>6, <1>7 DEF OnWay
  <2> QED
    BY <2>1, <2>2, <2>3, <1>1, <1>5, <1>7, WayMoves
<1> QED
  BY <1>1, <1>5, <1>6, <1>7, <1>8, OnlyTheWay

LEMMA KeepsDistanceHolds ==
  ASSUME TruthInv, KeepsDistance
  PROVE  TruthInv' /\ OnWay' \subseteq OnWay
<1>1. OneWay /\ lane \in Lanes /\ bus \in Seq(Messages) /\ recorder \in Recorders
  BY DEF TruthInv, EventShape
<1>2. lane' \in Lanes /\ LaneIds' = LaneIds /\ Ready
  BY <1>1 DEF KeepsDistance, LaneGoes, Lanes, LaneIds, Ready
<1>3. OneWay' /\ OnWay' \subseteq OnWay
  BY <1>1, <1>2, WayRests DEF KeepsDistance
<1> QED
  BY <1>1, <1>2, <1>3, OnlyTheWay DEF KeepsDistance

-----------------------------------------------------------------------------
(* The frame that a capture ends up with shows what it saw. *)
LEMMA RememberedIsTrue ==
  ASSUME MemoryIsTrue, NEW s, NEW f, NEW monitors, Remembers(s, f, monitors),
         f \in 1 .. Len(frames'), Len(frames) =< Len(frames'), Len(frames) \in Nat, Len(frames') \in Nat
  PROVE  MemoryIsTrue'
<1>1. PICK keep \in Room(s.window) :
        remembered' =
          [window |-> [w \in keep \cup {s.window} |->
                         IF w = s.window THEN f ELSE remembered.window[w]],
           monitor |-> [m \in DOMAIN remembered.monitor \cup monitors |->
                          IF m \in monitors THEN f ELSE remembered.monitor[m]]]
  BY DEF Remembers
<1>2. keep \subseteq DOMAIN remembered.window
  BY DEF Room
<1>3. ASSUME NEW w \in DOMAIN remembered'.window PROVE remembered'.window[w] \in 1 .. Len(frames')
  <2>1. w \in keep \cup {s.window} /\ remembered'.window[w] = IF w = s.window THEN f ELSE remembered.window[w]
    BY <1>1, <1>3
  <2>2. CASE w = s.window
    BY <2>1, <2>2
  <2>3. CASE w # s.window
    BY <2>1, <2>3, <1>2 DEF MemoryIsTrue
  <2> QED
    BY <2>2, <2>3
<1>4. ASSUME NEW m \in DOMAIN remembered'.monitor PROVE remembered'.monitor[m] \in 1 .. Len(frames')
  <2>1. /\ m \in DOMAIN remembered.monitor \cup monitors
        /\ remembered'.monitor[m] = IF m \in monitors THEN f ELSE remembered.monitor[m]
    BY <1>1, <1>4
  <2>2. CASE m \in monitors
    BY <2>1, <2>2
  <2>3. CASE m \notin monitors
    BY <2>1, <2>3 DEF MemoryIsTrue
  <2> QED
    BY <2>2, <2>3
<1> QED
  BY <1>3, <1>4 DEF MemoryIsTrue

LEMMA CaptureShows ==
  ASSUME TruthInv, NEW trigger, NEW s \in Screens, NEW f,
         CapturesText(trigger, s, f) \/ CapturesImage(trigger, s, f)
  PROVE  /\ frames' \in Seq(Screens) /\ Len(frames) =< Len(frames')
         /\ \A i \in 1 .. Len(frames) : frames'[i] = frames[i]
         /\ f \in 1 .. Len(frames') /\ SameContext(frames'[f], s) /\ Alike(frames'[f], s)
         /\ MemoryIsTrue'
<1>1. frames \in Seq(Screens) /\ Len(frames) \in Nat /\ MemoryIsTrue
  BY DEF TruthInv, EventShape
<1>2. ASSUME UNCHANGED <<frames, remembered>>, f \in 1 .. Len(frames),
             SameContext(frames[f], s), Alike(frames[f], s)
      PROVE  /\ frames' \in Seq(Screens) /\ Len(frames) =< Len(frames')
             /\ \A i \in 1 .. Len(frames) : frames'[i] = frames[i]
             /\ f \in 1 .. Len(frames') /\ SameContext(frames'[f], s) /\ Alike(frames'[f], s)
             /\ MemoryIsTrue'
  BY <1>1, <1>2 DEF MemoryIsTrue
<1>3. ASSUME f = Len(frames) + 1, frames' = Append(frames, s), NEW monitors, Remembers(s, f, monitors)
      PROVE  /\ frames' \in Seq(Screens) /\ Len(frames) =< Len(frames')
             /\ \A i \in 1 .. Len(frames) : frames'[i] = frames[i]
             /\ f \in 1 .. Len(frames') /\ SameContext(frames'[f], s) /\ Alike(frames'[f], s)
             /\ MemoryIsTrue'
  <2>1. /\ frames' \in Seq(Screens) /\ Len(frames') = Len(frames) + 1 /\ frames'[Len(frames) + 1] = s
        /\ \A i \in 1 .. Len(frames) : frames'[i] = frames[i]
    BY <1>1, <1>3
  <2>2. f \in 1 .. Len(frames') /\ frames'[f] = s /\ Len(frames) =< Len(frames')
    BY <2>1, <1>1, <1>3
  <2>3. SameContext(s, s) /\ Alike(s, s)
    BY DEF SameContext, Alike
  <2>4. MemoryIsTrue'
    BY <2>1, <2>2, <1>1, <1>3, RememberedIsTrue
  <2> QED
    BY <2>1, <2>2, <2>3, <2>4
<1>4. CASE CapturesText(trigger, s, f)
  <2>1. CASE /\ \E rapid \in BOOLEAN : Reusable(trigger, s, rapid)
             /\ f = remembered.window[s.window] /\ UNCHANGED <<frames, remembered>>
    <3>1. /\ s.window \in DOMAIN remembered.window /\ SameContext(frames[f], s)
          /\ frames[f] = s \/ Alike(frames[f], s)
      BY <2>1 DEF Reusable
    <3>2. Alike(s, s)
      BY DEF Alike
    <3>3. f \in 1 .. Len(frames)
      BY <2>1, <3>1, <1>1 DEF MemoryIsTrue
    <3> QED
      BY <2>1, <3>1, <3>2, <3>3, <1>2
  <2>2. CASE /\ f = Len(frames) + 1 /\ frames' = Append(frames, s) /\ Remembers(s, f, {})
    BY <2>2, <1>3
  <2> QED
    BY <2>1, <2>2, <1>4 DEF CapturesText
<1>5. CASE CapturesImage(trigger, s, f)
  <2>1. PICK m \in Monitors :
          \/ /\ ReusableImage(trigger, s, m, TRUE) /\ f = remembered.monitor[m]
             /\ UNCHANGED <<frames, remembered>>
          \/ /\ f = Len(frames) + 1 /\ frames' = Append(frames, s)
             /\ \E monitors \in {{}, {m}} : Remembers(s, f, monitors)
    BY <1>5 DEF CapturesImage
  <2>2. CASE /\ ReusableImage(trigger, s, m, TRUE) /\ f = remembered.monitor[m]
             /\ UNCHANGED <<frames, remembered>>
    <3>1. m \in DOMAIN remembered.monitor /\ frames[f] = s
      BY <2>2 DEF ReusableImage
    <3>2. SameContext(s, s) /\ Alike(s, s)
      BY DEF SameContext, Alike
    <3>3. f \in 1 .. Len(frames)
      BY <2>2, <3>1, <1>1 DEF MemoryIsTrue
    <3> QED
      BY <2>2, <3>1, <3>2, <3>3, <1>2
  <2>3. CASE /\ f = Len(frames) + 1 /\ frames' = Append(frames, s)
             /\ \E monitors \in {{}, {m}} : Remembers(s, f, monitors)
    BY <2>3, <1>3
  <2> QED
    BY <2>1, <2>2, <2>3
<1> QED
  BY <1>4, <1>5

(* More frames, and screens seen by what was on its way: what was true       *)
(* remains so.                                                              *)
LEMMA TruthGrows ==
  ASSUME TruthInv, Len(frames') \in Nat, Len(frames) =< Len(frames'),
         \A i \in 1 .. Len(frames) : frames'[i] = frames[i],
         \A e \in EventIds : e \notin LaneIds => seen'[e] = seen[e],
         UNCHANGED <<stored, link, waiting>>
  PROVE  /\ \A f, e : e \in EventIds /\ Truthful(f, e) => Truthful(f, e)'
         /\ WaitingIsTrue' /\ LinksAreTrue' /\ (mailbox' = mailbox => MailIsTrue')
<1>1. EventShape /\ OneWay /\ Len(frames) \in Nat
  BY DEF TruthInv, EventShape
<1>2. ASSUME NEW f, NEW e \in EventIds, Truthful(f, e) PROVE Truthful(f, e)'
  <2>1. seen[e] # Unseen
    BY <1>2, UnseenIsNoScreen DEF Truthful
  <2>2. seen'[e] = seen[e]
    BY <2>1, <1>1 DEF OneWay, OnWay
  <2>3. f \in 1 .. Len(frames') /\ frames'[f] = frames[f]
    BY <1>1, <1>2 DEF Truthful
  <2> QED
    BY <2>2, <2>3, <1>2 DEF Truthful
<1>3. WaitingIsTrue'
  <2>1. PICK table : table = waiting.frame
    OBVIOUS
  <2>2. \A e \in DOMAIN table : Truthful(table[e], e)'
    BY <2>1, <1>2 DEF TruthInv, WaitingIsTrue
  <2> QED
    BY <2>1, <2>2 DEF TruthInv, WaitingIsTrue
<1>4. LinksAreTrue'
  <2>1. PICK table : table = link
    OBVIOUS
  <2>2. \A e \in EventIds : table[e] # 0 => e \in stored' /\ Truthful(table[e], e)'
    BY <2>1, <1>2 DEF TruthInv, LinksAreTrue
  <2> QED
    BY <2>1, <2>2 DEF LinksAreTrue
<1>5. ASSUME mailbox' = mailbox PROVE MailIsTrue'
  <2>1. \A m \in ToSet(mailbox) : m.ids \subseteq EventIds
    BY <1>1, SetOfSeq DEF EventShape, Mails
  <2>2. \A m \in ToSet(mailbox) :
          IF m.end = "event" THEN m.ids \subseteq stored' ELSE \A e \in m.ids : Truthful(m.frame, e)'
    BY <2>1, <1>2 DEF TruthInv, MailIsTrue
  <2> QED
    BY <2>2, <1>5 DEF MailIsTrue
<1> QED
  BY <1>2, <1>3, <1>4, <1>5

(* The ids of a capture have seen their screen and are on their way no more. *)
LEMMA TakenAreDone ==
  ASSUME TruthInv, NEW s, NEW f, Takes("idle", s, f), Ready,
         UNCHANGED <<kindOf, recorder, bus, stored>>
  PROVE  /\ OneWay' /\ lane' \in Lanes /\ LaneIds' = {}
         /\ \A e \in EventIds : seen'[e] = IF e \in LaneIds THEN s ELSE seen[e]
         /\ OnWay' = OnWay \ LaneIds
<1>1. EventShape /\ OneWay /\ lane \in Lanes
  BY DEF TruthInv, EventShape
<1>2. /\ lane' = [lane EXCEPT !.pc = "idle", !.ids = {}, !.trailing = {}]
      /\ \A e \in EventIds : seen'[e] = IF e \in LaneIds THEN s ELSE seen[e]
  BY DEF Takes, LaneIds
<1>3. lane' \in Lanes /\ LaneIds' = {} /\ ~Ready'
  BY <1>1, <1>2 DEF Lanes, LaneIds, Ready
<1>4. Held' = Held /\ BusIds' = BusIds /\ Heard' = Heard /\ InBatch' = InBatch
  BY DEF Held, BusIds, Heard, InBatch
<1>5. OnWay' = OnWay \ LaneIds
  BY <1>1, <1>3, <1>4 DEF OnWay, OneWay
<1>6. LaneIds \subseteq Heard
  BY <1>1 DEF OneWay, OnWay
<1>7. \A e \in EventIds : seen'[e] # Unseen => e \in Heard' /\ e \notin OnWay'
  BY <1>1, <1>2, <1>4, <1>5, <1>6 DEF OneWay
<1>8. OneWay'
  BY <1>1, <1>3, <1>4, <1>5, <1>7 DEF OneWay
<1> QED
  BY <1>2, <1>3, <1>5, <1>8

LEMMA CapturesShow ==
  ASSUME TruthInv, Captures
  PROVE  /\ TruthInv' /\ Ready
         /\ \E s \in Screens, f \in Nat :
              /\ Takes("idle", s, f)
              /\ ToSet(mailbox') \subseteq ToSet(mailbox) \cup {Taken(f, lane.ids)}
              /\ slips' = 0 => slips = 0 /\ ToSet(mailbox') = ToSet(mailbox) \cup {Taken(f, lane.ids)}
<1>1. EventShape /\ mailbox \in Seq(Mails) /\ slips \in Nat /\ Ready /\ lane \in Lanes /\ recorder \in Recorders
      /\ Len(mailbox) \in Nat /\ Len(frames) \in Nat
  BY DEF TruthInv, EventShape, Captures, Ready
<1>2. PICK s \in Screens : \E f \in 1 .. Len(frames) + 1 :
       /\ CapturesText(lane.trigger, s, f) \/ CapturesImage(lane.trigger, s, f)
       /\ Takes("idle", s, f)
       /\ mailbox' = Posted(<<Taken(f, lane.ids)>>)
       /\ slips' = IF Len(mailbox) >= MailSize THEN slips + 1 ELSE slips
  BY DEF Captures
<1>3. PICK f \in 1 .. Len(frames) + 1 :
       /\ CapturesText(lane.trigger, s, f) \/ CapturesImage(lane.trigger, s, f)
       /\ Takes("idle", s, f)
       /\ mailbox' = Posted(<<Taken(f, lane.ids)>>)
       /\ slips' = IF Len(mailbox) >= MailSize THEN slips + 1 ELSE slips
  BY <1>2
<1>4. UNCHANGED <<recording, kindOf, recorder, bus, stored, link, waiting>>
  BY DEF Captures
<1>5. /\ frames' \in Seq(Screens) /\ Len(frames) =< Len(frames') /\ Len(frames') \in Nat
      /\ \A i \in 1 .. Len(frames) : frames'[i] = frames[i]
      /\ f \in 1 .. Len(frames') /\ SameContext(frames'[f], s) /\ Alike(frames'[f], s)
      /\ MemoryIsTrue'
  <2>1. /\ frames' \in Seq(Screens) /\ Len(frames) =< Len(frames')
        /\ \A i \in 1 .. Len(frames) : frames'[i] = frames[i]
        /\ f \in 1 .. Len(frames') /\ SameContext(frames'[f], s) /\ Alike(frames'[f], s)
        /\ MemoryIsTrue'
    BY <1>3, CaptureShows
  <2>2. Len(frames') \in Nat
    BY <2>1
  <2> QED
    BY <2>1, <2>2
<1>6. /\ OneWay' /\ lane' \in Lanes
      /\ \A e \in EventIds : seen'[e] = IF e \in LaneIds THEN s ELSE seen[e]
  BY <1>1, <1>3, <1>4, TakenAreDone
<1>7. PICK message \in Mails : message = Taken(f, lane.ids) /\ message.end = "frame"
                              /\ message.frame = f /\ message.ids = lane.ids
  <2>1. f \in Nat /\ lane.ids \subseteq EventIds
    BY <1>1 DEF Lanes
  <2>2. Taken(f, lane.ids) \in Mails
    BY <2>1 DEF Taken, Mails
  <2> QED
    BY <2>2 DEF Taken
<1>8. PICK t \in Seq(Mails) : t = <<message>> /\ ToSet(t) = {message} /\ Len(t) = 1
  <2>1. <<message>> \in Seq(Mails) /\ ToSet(<<message>>) = {message}
    BY SingleSet
  <2>2. Len(<<message>>) = 1
    OBVIOUS
  <2> QED
    BY <2>1, <2>2, Zenon
<1>9. /\ mailbox' \in Seq(Mails) /\ ToSet(mailbox') \subseteq ToSet(mailbox) \cup {message}
      /\ Len(mailbox) + 1 =< MailSize => ToSet(mailbox') = ToSet(mailbox) \cup {message}
  BY <1>1, <1>3, <1>7, <1>8, PostedSet
<1>10. slips' \in Nat /\ (slips' = 0 => slips = 0 /\ Len(mailbox) + 1 =< MailSize)
  BY <1>1, <1>3, Sizes
<1>11. /\ \A g, e : e \in EventIds /\ Truthful(g, e) => Truthful(g, e)'
       /\ WaitingIsTrue' /\ LinksAreTrue'
  BY <1>4, <1>5, <1>6, TruthGrows
<1>12. MailIsTrue'
  <2>1. \A m \in ToSet(mailbox) : m.ids \subseteq EventIds
    <3>1. ToSet(mailbox) \subseteq Mails
      BY <1>1, SetOfSeq
    <3> QED
      BY <3>1 DEF Mails
  <2>2. \A m \in ToSet(mailbox) :
          IF m.end = "event" THEN m.ids \subseteq stored' ELSE \A e \in m.ids : Truthful(m.frame, e)'
    BY <2>1, <1>4, <1>11 DEF TruthInv, MailIsTrue
  <2>3. \A e \in message.ids : Truthful(message.frame, e)'
    <3>1. \A e \in lane.ids : e \in EventIds /\ seen'[e] = s
      BY <1>1, <1>6 DEF Lanes, LaneIds
    <3> QED
      BY <3>1, <1>5, <1>7 DEF Truthful
  <2>4. \A m \in ToSet(mailbox') :
          IF m.end = "event" THEN m.ids \subseteq stored' ELSE \A e \in m.ids : Truthful(m.frame, e)'
    BY <2>2, <2>3, <1>7, <1>9
  <2> QED
    BY <2>4 DEF MailIsTrue
<1>13. EventShape'
  BY <1>1, <1>4, <1>5, <1>6, <1>9, <1>10 DEF EventShape
<1>14. TruthInv'
  BY <1>5, <1>6, <1>11, <1>12, <1>13 DEF TruthInv
<1>15. /\ f \in Nat /\ Takes("idle", s, f)
       /\ ToSet(mailbox') \subseteq ToSet(mailbox) \cup {Taken(f, lane.ids)}
       /\ slips' = 0 => slips = 0 /\ ToSet(mailbox') = ToSet(mailbox) \cup {Taken(f, lane.ids)}
  BY <1>3, <1>7, <1>9, <1>10
<1> QED
  BY <1>1, <1>14, <1>15, Zenon

LEMMA CaptureFailsHolds ==
  ASSUME TruthInv, CaptureFails
  PROVE  TruthInv' /\ Ready /\ Takes("idle", Failed, 0)
<1>1. EventShape /\ Ready /\ Takes("idle", Failed, 0) /\ Len(frames) \in Nat
  BY DEF TruthInv, EventShape, CaptureFails, Ready
<1>2. UNCHANGED <<recording, kindOf, recorder, bus, frames, remembered, stored,
                 link, mailbox, waiting, slips>>
  BY DEF CaptureFails
<1>3. /\ OneWay' /\ lane' \in Lanes
      /\ \A e \in EventIds : seen'[e] = IF e \in LaneIds THEN Failed ELSE seen[e]
  BY <1>1, <1>2, TakenAreDone
<1>4. WaitingIsTrue' /\ LinksAreTrue' /\ MailIsTrue'
  BY <1>1, <1>2, <1>3, TruthGrows
<1>5. MemoryIsTrue' /\ EventShape'
  BY <1>1, <1>2, <1>3 DEF TruthInv, MemoryIsTrue, EventShape
<1> QED
  BY <1>1, <1>3, <1>4, <1>5 DEF TruthInv

LEMMA HeartbeatHolds ==
  ASSUME TruthInv, Heartbeat
  PROVE  TruthInv' /\ OnWay' \subseteq OnWay
<1>1. EventShape /\ OneWay /\ lane \in Lanes
  BY DEF TruthInv, EventShape
<1>2. PICK s \in Screens : \E f \in 1 .. Len(frames) + 1 : CapturesText("heartbeat", s, f)
  BY DEF Heartbeat
<1>3. PICK f : CapturesText("heartbeat", s, f)
  BY <1>2
<1>4. /\ lane' = [lane EXCEPT !.active = FALSE]
      /\ UNCHANGED <<recording, kindOf, recorder, bus, seen, stored, link, mailbox, waiting, slips>>
  BY DEF Heartbeat
<1>5. /\ frames' \in Seq(Screens) /\ Len(frames) =< Len(frames')
      /\ \A i \in 1 .. Len(frames) : frames'[i] = frames[i]
      /\ MemoryIsTrue'
  BY <1>3, CaptureShows
<1>6. lane' \in Lanes /\ LaneIds' = LaneIds /\ Ready' = Ready
  BY <1>1, <1>4 DEF Lanes, LaneIds, Ready
<1>7. OneWay' /\ OnWay' \subseteq OnWay
  BY <1>1, <1>4, <1>6, WayRests
<1>8. WaitingIsTrue' /\ LinksAreTrue' /\ MailIsTrue'
  <2>1. Len(frames') \in Nat
    BY <1>5
  <2> QED
    BY <2>1, <1>4, <1>5, TruthGrows
<1>9. EventShape'
  BY <1>1, <1>4, <1>5, <1>6 DEF EventShape
<1> QED
  BY <1>5, <1>7, <1>8, <1>9 DEF TruthInv

-----------------------------------------------------------------------------
(* The linker. *)

(* What a message of the linker's channel does, by its end. *)
LEMMA LinksShow ==
  ASSUME TruthInv, Links
  PROVE  \E m \in Mails, paired \in SUBSET EventIds :
           /\ paired \subseteq m.ids
           /\ ToSet(mailbox) = {m} \cup ToSet(mailbox') /\ mailbox' \in Seq(Mails)
           /\ recording.stage # "off"
           /\ UNCHANGED <<recording, kindOf, recorder, bus, lane, frames, remembered, seen, stored, slips>>
           /\ \A e \in EventIds :
                link'[e] = IF e \notin paired \/ link[e] # 0 THEN link[e]
                           ELSE IF m.end = "event" THEN waiting.frame[e] ELSE m.frame
           /\ m.end = "event" =>
                /\ paired = m.ids \cap DOMAIN waiting.frame
                /\ waiting'.event = waiting.event \cup (m.ids \ paired)
                /\ DOMAIN waiting'.frame = (DOMAIN waiting.frame) \ paired
                /\ \A e \in DOMAIN waiting'.frame : waiting'.frame[e] = waiting.frame[e]
           /\ m.end # "event" =>
                /\ paired = m.ids \cap waiting.event
                /\ waiting'.event = waiting.event \ paired
                /\ DOMAIN waiting'.frame = (DOMAIN waiting.frame) \cup (m.ids \ paired)
                /\ \A e \in DOMAIN waiting'.frame :
                     waiting'.frame[e] = IF e \in m.ids \ paired THEN m.frame ELSE waiting.frame[e]
<1>1. mailbox \in Seq(Mails) /\ mailbox # <<>> /\ recording.stage # "off"
  BY DEF TruthInv, EventShape, Links
<1>2. PICK m \in Mails : m = Head(mailbox) /\ Tail(mailbox) \in Seq(Mails)
                         /\ ToSet(mailbox) = {m} \cup ToSet(Tail(mailbox))
  BY <1>1, TailSet
<1>3. PICK paired \in SUBSET EventIds :
        paired \subseteq m.ids /\ paired = IF m.end = "event" THEN m.ids \cap DOMAIN waiting.frame ELSE m.ids \cap waiting.event
  BY DEF Mails
<1>4. PICK alone : alone = m.ids \ paired
  OBVIOUS
<1>5. /\ mailbox' = Tail(mailbox)
      /\ link' = [e \in EventIds |->
                    IF e \notin paired \/ link[e] # 0 THEN link[e]
                    ELSE IF m.end = "event" THEN waiting.frame[e] ELSE m.frame]
      /\ waiting' =
           IF m.end = "event"
           THEN [event |-> waiting.event \cup alone,
                 frame |-> [e \in (DOMAIN waiting.frame) \ paired |-> waiting.frame[e]]]
           ELSE [event |-> waiting.event \ paired,
                 frame |-> [e \in DOMAIN waiting.frame \cup alone |->
                              IF e \in alone THEN m.frame ELSE waiting.frame[e]]]
      /\ UNCHANGED <<recording, kindOf, recorder, bus, lane, frames, remembered, seen, stored, slips>>
  BY <1>2, <1>3, <1>4 DEF Links
<1>6. \A e \in EventIds :
        link'[e] = IF e \notin paired \/ link[e] # 0 THEN link[e]
                   ELSE IF m.end = "event" THEN waiting.frame[e] ELSE m.frame
  BY <1>5
<1>7. ASSUME m.end = "event"
      PROVE  /\ paired = m.ids \cap DOMAIN waiting.frame
             /\ waiting'.event = waiting.event \cup (m.ids \ paired)
             /\ DOMAIN waiting'.frame = (DOMAIN waiting.frame) \ paired
             /\ \A e \in DOMAIN waiting'.frame : waiting'.frame[e] = waiting.frame[e]
  BY <1>3, <1>4, <1>5, <1>7
<1>8. ASSUME m.end # "event"
      PROVE  /\ paired = m.ids \cap waiting.event
             /\ waiting'.event = waiting.event \ paired
             /\ DOMAIN waiting'.frame = (DOMAIN waiting.frame) \cup (m.ids \ paired)
             /\ \A e \in DOMAIN waiting'.frame :
                  waiting'.frame[e] = IF e \in m.ids \ paired THEN m.frame ELSE waiting.frame[e]
  BY <1>3, <1>4, <1>5, <1>8
<1>9. ToSet(mailbox) = {m} \cup ToSet(mailbox') /\ mailbox' \in Seq(Mails)
  BY <1>2, <1>5
<1>10. /\ paired \subseteq m.ids
       /\ ToSet(mailbox) = {m} \cup ToSet(mailbox') /\ mailbox' \in Seq(Mails)
       /\ recording.stage # "off"
       /\ UNCHANGED <<recording, kindOf, recorder, bus, lane, frames, remembered, seen, stored, slips>>
       /\ \A e \in EventIds :
            link'[e] = IF e \notin paired \/ link[e] # 0 THEN link[e]
                       ELSE IF m.end = "event" THEN waiting.frame[e] ELSE m.frame
       /\ m.end = "event" =>
            /\ paired = m.ids \cap DOMAIN waiting.frame
            /\ waiting'.event = waiting.event \cup (m.ids \ paired)
            /\ DOMAIN waiting'.frame = (DOMAIN waiting.frame) \ paired
            /\ \A e \in DOMAIN waiting'.frame : waiting'.frame[e] = waiting.frame[e]
       /\ m.end # "event" =>
            /\ paired = m.ids \cap waiting.event
            /\ waiting'.event = waiting.event \ paired
            /\ DOMAIN waiting'.frame = (DOMAIN waiting.frame) \cup (m.ids \ paired)
            /\ \A e \in DOMAIN waiting'.frame :
                 waiting'.frame[e] = IF e \in m.ids \ paired THEN m.frame ELSE waiting.frame[e]
  BY <1>1, <1>3, <1>5, <1>6, <1>7, <1>8, <1>9
<1> QED
  BY <1>10, Zenon

LEMMA LinksHolds ==
  ASSUME TruthInv, Links
  PROVE  TruthInv'
<1>1. PICK m \in Mails, paired \in SUBSET EventIds :
           /\ paired \subseteq m.ids
           /\ ToSet(mailbox) = {m} \cup ToSet(mailbox') /\ mailbox' \in Seq(Mails)
           /\ UNCHANGED <<recording, kindOf, recorder, bus, lane, frames, remembered, seen, stored, slips>>
           /\ \A e \in EventIds :
                link'[e] = IF e \notin paired \/ link[e] # 0 THEN link[e]
                           ELSE IF m.end = "event" THEN waiting.frame[e] ELSE m.frame
           /\ m.end = "event" =>
                /\ paired = m.ids \cap DOMAIN waiting.frame
                /\ waiting'.event = waiting.event \cup (m.ids \ paired)
                /\ DOMAIN waiting'.frame = (DOMAIN waiting.frame) \ paired
                /\ \A e \in DOMAIN waiting'.frame : waiting'.frame[e] = waiting.frame[e]
           /\ m.end # "event" =>
                /\ paired = m.ids \cap waiting.event
                /\ waiting'.event = waiting.event \ paired
                /\ DOMAIN waiting'.frame = (DOMAIN waiting.frame) \cup (m.ids \ paired)
                /\ \A e \in DOMAIN waiting'.frame :
                     waiting'.frame[e] = IF e \in m.ids \ paired THEN m.frame ELSE waiting.frame[e]
  BY LinksShow
<1>2. /\ EventShape /\ OneWay /\ MailIsTrue /\ WaitingIsTrue /\ LinksAreTrue /\ MemoryIsTrue
      /\ m.ids \subseteq EventIds
  BY DEF TruthInv, Mails
<1>3. IF m.end = "event" THEN m.ids \subseteq stored ELSE \A e \in m.ids : Truthful(m.frame, e)
  BY <1>1, <1>2 DEF MailIsTrue
<1>4. /\ \A f, e : Truthful(f, e) => Truthful(f, e)'
      /\ MemoryIsTrue'
  BY <1>1, TruthHolds
<1>5. EventShape'
  BY <1>1, <1>2 DEF EventShape
<1>6. OneWay'
  <2>1. LaneIds' = LaneIds /\ Ready' = Ready
    BY <1>1 DEF LaneIds, Ready
  <2> QED
    BY <2>1, <1>1, <1>2, WayRests
<1>7. MailIsTrue'
  <2>1. \A x \in ToSet(mailbox') :
          IF x.end = "event" THEN x.ids \subseteq stored' ELSE \A e \in x.ids : Truthful(x.frame, e)'
    BY <1>1, <1>2, <1>4 DEF MailIsTrue
  <2> QED
    BY <2>1 DEF MailIsTrue
<1>8. PICK table : table = waiting.frame
  OBVIOUS
<1>9. /\ waiting.event \subseteq stored /\ DOMAIN table \subseteq EventIds
      /\ \A e \in DOMAIN table : Truthful(table[e], e)'
  BY <1>2, <1>4, <1>8 DEF WaitingIsTrue
<1>10. CASE m.end = "event"
  <2>1. WaitingIsTrue'
    <3>1. waiting'.event \subseteq stored' /\ DOMAIN waiting'.frame \subseteq EventIds
      BY <1>1, <1>3, <1>8, <1>9, <1>10
    <3>2. \A e \in DOMAIN waiting'.frame : e \in DOMAIN table /\ waiting'.frame[e] = table[e]
      BY <1>1, <1>8, <1>10
    <3>3. \A e \in DOMAIN waiting'.frame : Truthful(waiting.frame[e], e)'
      BY <3>2, <1>9 DEF Truthful
    <3> QED
      BY <3>1, <3>3 DEF WaitingIsTrue
  <2>2. ASSUME NEW e \in EventIds, link'[e] # 0
        PROVE  e \in stored' /\ Truthful(link[e], e)'
    <3>1. CASE e \in paired /\ link[e] = 0
      <4>1. e \in DOMAIN table /\ link'[e] = table[e] /\ e \in stored'
        BY <3>1, <1>1, <1>3, <1>8, <1>10
      <4> QED
        BY <4>1, <1>9 DEF Truthful
    <3>2. CASE ~(e \in paired /\ link[e] = 0)
      <4>1. PICK f : f = link[e]
        OBVIOUS
      <4>2. link'[e] = f
        BY <3>2, <4>1, <1>1
      <4>3. e \in stored' /\ Truthful(f, e)'
        BY <2>2, <4>1, <4>2, <1>1, <1>2, <1>4 DEF LinksAreTrue
      <4> QED
        BY <4>2, <4>3 DEF Truthful
    <3> QED
      BY <3>1, <3>2
  <2>3. LinksAreTrue'
    BY <2>2 DEF LinksAreTrue
  <2> QED
    BY <2>1, <2>3, <1>4, <1>5, <1>6, <1>7 DEF TruthInv
<1>11. CASE m.end # "event"
  <2>1. \A e \in m.ids : Truthful(m.frame, e)'
    BY <1>3, <1>4, <1>11
  <2>2. WaitingIsTrue'
    <3>1. waiting'.event \subseteq stored' /\ DOMAIN waiting'.frame \subseteq EventIds
      BY <1>1, <1>2, <1>8, <1>9, <1>11
    <3>2. ASSUME NEW e \in DOMAIN waiting'.frame PROVE Truthful(waiting.frame[e], e)'
      <4>1. CASE e \in m.ids \ paired
        <5>1. waiting'.frame[e] = m.frame
          BY <4>1, <1>1, <1>11
        <5> QED
          BY <4>1, <5>1, <2>1 DEF Truthful
      <4>2. CASE e \notin m.ids \ paired
        <5>1. e \in DOMAIN table /\ waiting'.frame[e] = table[e]
          BY <3>2, <4>2, <1>1, <1>8, <1>11
        <5> QED
          BY <5>1, <1>9 DEF Truthful
      <4> QED
        BY <4>1, <4>2
    <3>3. \A e \in DOMAIN waiting'.frame : Truthful(waiting.frame[e], e)'
      BY <3>2
    <3> QED
      BY <3>1, <3>3 DEF WaitingIsTrue
  <2>3. ASSUME NEW e \in EventIds, link'[e] # 0
        PROVE  e \in stored' /\ Truthful(link[e], e)'
    <3>1. CASE e \in paired /\ link[e] = 0
      <4>1. e \in m.ids /\ link'[e] = m.frame /\ e \in stored'
        BY <3>1, <1>1, <1>9, <1>11
      <4> QED
        BY <4>1, <2>1 DEF Truthful
    <3>2. CASE ~(e \in paired /\ link[e] = 0)
      <4>1. PICK f : f = link[e]
        OBVIOUS
      <4>2. link'[e] = f
        BY <3>2, <4>1, <1>1
      <4>3. e \in stored' /\ Truthful(f, e)'
        BY <2>3, <4>1, <4>2, <1>1, <1>2, <1>4 DEF LinksAreTrue
      <4> QED
        BY <4>2, <4>3 DEF Truthful
    <3> QED
      BY <3>1, <3>2
  <2>4. LinksAreTrue'
    BY <2>3 DEF LinksAreTrue
  <2> QED
    BY <2>2, <2>4, <1>4, <1>5, <1>6, <1>7 DEF TruthInv
<1> QED
  BY <1>10, <1>11

LEMMA ExpiresHolds ==
  ASSUME TruthInv, Expires
  PROVE  TruthInv'
<1>1. PICK e \in waiting.event \cup DOMAIN waiting.frame :
       waiting' = [event |-> waiting.event \ {e},
                   frame |-> [x \in (DOMAIN waiting.frame) \ {e} |-> waiting.frame[x]]]
  BY DEF Expires
<1>2. /\ UNCHANGED <<recording, kindOf, recorder, bus, lane, frames, remembered, seen, stored,
                     link, mailbox>>
      /\ slips' = slips + 1
  BY DEF Expires, Slip
<1>3. EventShape'
  BY <1>2 DEF TruthInv, EventShape
<1>4. OneWay'
  <2>1. LaneIds' = LaneIds /\ Ready' = Ready /\ OneWay
    BY <1>2 DEF LaneIds, Ready, TruthInv
  <2> QED
    BY <2>1, <1>2, WayRests
<1>5. /\ \A f, x : Truthful(f, x) => Truthful(f, x)'
      /\ MailIsTrue' /\ LinksAreTrue' /\ MemoryIsTrue'
  BY <1>2, TruthHolds
<1>6. WaitingIsTrue'
  <2>1. PICK table : table = waiting.frame
    OBVIOUS
  <2>2. \A x \in DOMAIN table : Truthful(table[x], x)'
    BY <2>1, <1>5 DEF TruthInv, WaitingIsTrue
  <2>3. /\ DOMAIN waiting'.frame \subseteq DOMAIN table /\ waiting'.event \subseteq waiting.event
        /\ \A x \in DOMAIN waiting'.frame : waiting'.frame[x] = table[x]
    BY <2>1, <1>1
  <2>4. \A x \in DOMAIN waiting'.frame : Truthful(waiting.frame[x], x)'
    BY <2>2, <2>3 DEF Truthful
  <2>5. waiting'.event \subseteq stored' /\ DOMAIN waiting'.frame \subseteq EventIds
    BY <2>1, <2>3, <1>2 DEF TruthInv, WaitingIsTrue
  <2> QED
    BY <2>4, <2>5 DEF WaitingIsTrue
<1> QED
  BY <1>3, <1>4, <1>5, <1>6 DEF TruthInv

-----------------------------------------------------------------------------
(* The session. *)

(* Parts of the session end, and what they held is forgotten. *)
LEMMA PartsEnd ==
  ASSUME TruthInv, UNCHANGED <<kindOf, seen, stored, link, mailbox, slips>>,
         recorder' \in {recorder, Quiet}, bus' \in {bus, <<>>}, lane' \in {lane, Idle},
         waiting' \in {waiting, Nobody}, remembered' \in {remembered, Fresh},
         frames' = frames
  PROVE  TruthInv' /\ OnWay' \subseteq OnWay
<1>1. EventShape /\ OneWay /\ recorder \in Recorders /\ lane \in Lanes /\ bus \in Seq(Messages)
  BY DEF TruthInv, EventShape
<1>2. /\ recorder' \in Recorders /\ Held' \subseteq Held /\ InBatch' \subseteq InBatch
      /\ ToSet(recorder.typing)' \in {ToSet(recorder.typing), {}}
      /\ ToSet(recorder.scrolling)' \in {ToSet(recorder.scrolling), {}}
  <2>1. CASE recorder' = recorder
    BY <2>1, <1>1 DEF Held, InBatch
  <2>2. CASE recorder' = Quiet
    <3>1. Quiet \in Recorders /\ Quiet.batch = <<>> /\ Quiet.typing = <<>> /\ Quiet.scrolling = <<>>
      BY DEF Quiet, Recorders
    <3> QED
      BY <2>2, <3>1, EmptySet DEF Held, InBatch
  <2> QED
    BY <2>1, <2>2
<1>3. bus' \in Seq(Messages) /\ BusIds' \subseteq BusIds
  <2>1. CASE bus' = bus
    BY <2>1, <1>1 DEF BusIds
  <2>2. CASE bus' = <<>>
    BY <2>2, EmptySet DEF BusIds
  <2> QED
    BY <2>1, <2>2
<1>4. lane' \in Lanes /\ LaneIds' \subseteq LaneIds /\ (Ready' => Ready)
  <2>1. CASE lane' = lane
    BY <2>1, <1>1 DEF LaneIds, Ready
  <2>2. CASE lane' = Idle
    BY <2>2 DEF Idle, Lanes, LaneIds, Ready, Triggers
  <2> QED
    BY <2>1, <2>2
<1>5. OneWay' /\ OnWay' \subseteq OnWay
  <2>1. Held' \cap (BusIds' \cup LaneIds') = {} /\ (Ready' => BusIds' \cap LaneIds' = {})
    BY <1>1, <1>2, <1>3, <1>4 DEF OneWay
  <2>2. BusIds' \cup LaneIds' \subseteq OnWay /\ stored' \cup InBatch' \subseteq stored \cup InBatch
    BY <1>2, <1>3, <1>4 DEF OnWay
  <2> QED
    BY <2>1, <2>2, <1>1, <1>2, WayMoves
<1>6. EventShape'
  BY <1>1, <1>2, <1>3, <1>4 DEF EventShape
<1>7. MailIsTrue' /\ LinksAreTrue'
  BY TruthHolds
<1>8. WaitingIsTrue'
  <2>1. CASE waiting' = waiting
    BY <2>1, TruthHolds
  <2>2. CASE waiting' = Nobody
    BY <2>2 DEF Nobody, WaitingIsTrue
  <2> QED
    BY <2>1, <2>2
<1>9. MemoryIsTrue'
  <2>1. CASE remembered' = remembered
    BY <2>1, TruthHolds
  <2>2. CASE remembered' = Fresh
    BY <2>2 DEF Fresh, MemoryIsTrue
  <2> QED
    BY <2>1, <2>2
<1> QED
  BY <1>5, <1>6, <1>7, <1>8, <1>9 DEF TruthInv

LEMMA RecorderEndsHolds ==
  ASSUME TruthInv, RecorderEnds
  PROVE  /\ TruthInv' /\ OnWay' \subseteq OnWay /\ recorder' = Quiet /\ stored \subseteq stored' /\ stored' \subseteq stored \cup InBatch
         /\ slips' = 0 => slips = 0 /\ ToSet(mailbox) \subseteq ToSet(mailbox')
                         /\ \A x \in stored' \ stored : Persisted(x) \in ToSet(mailbox')
<1>1. EventShape /\ OneWay /\ recorder.batch \in Seq(EventIds)
  BY ShapeFacts DEF TruthInv
<1>2. UNCHANGED <<kindOf, bus, lane, frames, remembered, seen, link, waiting>> /\ recorder' = Quiet
  BY DEF RecorderEnds
<1>3. /\ mailbox' \in Seq(Mails) /\ slips' \in Nat /\ MailIsTrue'
      /\ stored \subseteq stored' /\ stored' \subseteq stored \cup InBatch
      /\ slips' = 0 => slips = 0 /\ ToSet(mailbox) \subseteq ToSet(mailbox')
                      /\ \A x \in stored' \ stored : Persisted(x) \in ToSet(mailbox')
  <2>1. CASE Written(recorder.batch)
    BY <2>1, <1>1, <1>2, WrittenHolds DEF InBatch
  <2>2. CASE NotWritten
    BY <2>2, <1>1, <1>2, NotWrittenHolds DEF EventShape
  <2> QED
    BY <2>1, <2>2 DEF RecorderEnds
<1>4. Quiet \in Recorders /\ Held' = {} /\ InBatch' = {} /\ ToSet(recorder.typing)' = {}
      /\ ToSet(recorder.scrolling)' = {}
  <2>1. Quiet \in Recorders /\ Quiet.batch = <<>> /\ Quiet.typing = <<>> /\ Quiet.scrolling = <<>>
    BY DEF Quiet, Recorders
  <2> QED
    BY <2>1, <1>2, EmptySet DEF Held, InBatch
<1>5. OneWay' /\ OnWay' \subseteq OnWay
  <2>1. LaneIds' = LaneIds /\ Ready' = Ready /\ BusIds' = BusIds
    BY <1>2 DEF LaneIds, Ready, BusIds
  <2>2. BusIds' \cup LaneIds' \subseteq OnWay /\ (Ready' => BusIds' \cap LaneIds' = {})
    BY <2>1, <1>1 DEF OnWay, OneWay
  <2>3. stored' \cup InBatch' \subseteq stored \cup InBatch
    BY <1>3, <1>4
  <2> QED
    BY <2>2, <2>3, <1>1, <1>2, <1>4, WayMoves
<1>6. EventShape'
  BY <1>1, <1>2, <1>3, <1>4 DEF EventShape
<1>7. WaitingIsTrue' /\ LinksAreTrue' /\ MemoryIsTrue'
  BY <1>2, <1>3, TruthHolds
<1> QED
  BY <1>2, <1>3, <1>5, <1>6, <1>7 DEF TruthInv

LEMMA LaneAbortedHolds ==
  ASSUME TruthInv, LaneAborted
  PROVE  TruthInv'
<1>1. EventShape /\ OneWay /\ frames \in Seq(Screens) /\ Len(frames) \in Nat
  BY DEF TruthInv, EventShape
<1>2. /\ UNCHANGED <<kindOf, recorder, remembered, seen, stored, link, mailbox, waiting>>
      /\ lane' = Idle /\ bus' = <<>> /\ slips' = slips + 1
  BY DEF LaneAborted, Slip
<1>3. /\ frames' \in Seq(Screens) /\ Len(frames') \in Nat /\ Len(frames) =< Len(frames')
      /\ \A i \in 1 .. Len(frames) : frames'[i] = frames[i]
  <2>1. CASE UNCHANGED frames
    BY <2>1, <1>1
  <2>2. CASE \E s \in Screens : frames' = Append(frames, s)
    BY <2>2, <1>1
  <2> QED
    BY <2>1, <2>2 DEF LaneAborted
<1>4. lane' \in Lanes /\ LaneIds' = {} /\ ~Ready' /\ BusIds' = {}
  BY <1>2, EmptySet DEF Idle, Lanes, LaneIds, Ready, Triggers, BusIds
<1>5. OneWay'
  <2>1. Held' = Held /\ InBatch' = InBatch
    BY <1>2 DEF Held, InBatch
  <2> QED
    BY <2>1, <1>1, <1>2, <1>4, WayMoves
<1>6. EventShape'
  BY <1>1, <1>2, <1>3, <1>4 DEF EventShape
<1>7. WaitingIsTrue' /\ LinksAreTrue' /\ MailIsTrue'
  BY <1>2, <1>3, TruthGrows
<1>8. MemoryIsTrue'
  BY <1>1, <1>2, <1>3 DEF TruthInv, MemoryIsTrue
<1> QED
  BY <1>5, <1>6, <1>7, <1>8 DEF TruthInv

LEMMA TruthInitHolds == EventInit => TruthInv
<1> SUFFICES ASSUME EventInit PROVE TruthInv
  OBVIOUS
<1>1. EventShape
  <2>1. kindOf \in Seq(Kinds) /\ Len(kindOf) =< MaxEvents
    BY Sizes DEF EventInit
  <2>2. recorder \in Recorders
    BY DEF EventInit, Quiet, Recorders
  <2>3. lane \in Lanes
    BY DEF EventInit, Idle, Lanes, Triggers
  <2> QED
    BY <2>1, <2>2, <2>3 DEF EventInit, EventShape
<1>2. OnWay = {} /\ InBatch = {} /\ Held = {} /\ BusIds = {} /\ LaneIds = {} /\ ~Ready
  BY EmptySet DEF EventInit, Quiet, Idle, OnWay, InBatch, Held, BusIds, LaneIds, Ready
<1>3. OneWay
  <2>1. ToSet(recorder.typing) = {} /\ stored = {} /\ \A e \in EventIds : seen[e] = Unseen
    BY EmptySet DEF EventInit, Quiet
  <2> QED
    BY <1>2, <2>1 DEF OneWay
<1>4. MailIsTrue
  BY EmptySet DEF EventInit, MailIsTrue
<1>5. WaitingIsTrue /\ LinksAreTrue /\ MemoryIsTrue
  BY DEF EventInit, Nobody, Fresh, WaitingIsTrue, LinksAreTrue, MemoryIsTrue
<1> QED
  BY <1>1, <1>3, <1>4, <1>5 DEF TruthInv

LEMMA TruthStep == TruthInv /\ [EventNext]_eventVars => TruthInv'
<1> SUFFICES ASSUME TruthInv, [EventNext]_eventVars PROVE TruthInv'
  OBVIOUS
<1>1. CASE StopSession \/ LaneEnds \/ LinkerEnds \/ StartSession \/ UNCHANGED eventVars
  BY <1>1, PartsEnd DEF StopSession, LaneEnds, LinkerEnds, StartSession, eventVars
<1>2. CASE \E kind \in Kinds : Hear(kind)
  BY <1>2, HearHolds
<1>3. CASE TypingPause \/ Tick
  BY <1>3, TypingPauseHolds, TickHolds
<1>4. CASE Wakes \/ Collects \/ CollectsMore
  BY <1>4, WakesHolds, JoinedHolds DEF Collects, CollectsMore
<1>5. CASE Captures \/ CaptureFails \/ KeepsDistance \/ Heartbeat
  BY <1>5, CapturesShow, CaptureFailsHolds, KeepsDistanceHolds, HeartbeatHolds
<1>6. CASE Links \/ Expires \/ RecorderEnds \/ LaneAborted
  BY <1>6, LinksHolds, ExpiresHolds, RecorderEndsHolds, LaneAbortedHolds
<1> QED
  BY <1>1, <1>2, <1>3, <1>4, <1>5, <1>6 DEF EventNext, RecorderStep, LaneStep, StopStep

(* Whatever is heard, lost and shared: a link tells the truth (linker.rs,    *)
(* coordinator.rs).                                                         *)
THEOREM NoLinkLies == EventSpec => []LinksTellTheTruth
<1>1. TruthInv => LinksTellTheTruth
  BY DEF TruthInv, LinksAreTrue, Truthful, LinksTellTheTruth
<1> QED
  BY <1>1, TruthInitHolds, TruthStep, PTL DEF EventSpec
-----------------------------------------------------------------------------
(* That the ends meet.  Only the steps of a scroll trail behind a message;   *)
(* an id waits with one of its ends; parts of the session that ended hold    *)
(* nothing; and while nothing was lost, an end that is not yet part of a     *)
(* link is in the channel or waits.                                         *)
Scrolls == {e \in Heard : kindOf[e] = "scroll"}

Trail ==
  /\ ToSet(recorder.scrolling) \cup lane.trailing \subseteq Scrolls
  /\ \A m \in ToSet(bus) : ToSet(m.more) \subseteq Scrolls

Apart == waiting.event \cap DOMAIN waiting.frame = {}

Stages ==
  /\ recording \in [stage : {"on", "recorder", "lane", "linker", "off"}, count : Nat]
  /\ recording.stage \in {"linker", "off"} => recorder = Quiet /\ bus = <<>> /\ lane = Idle
  /\ recording.stage = "lane" => recorder = Quiet
  /\ recording.stage = "off" => mailbox = <<>> /\ waiting = Nobody

Mailed(end, e) == \E m \in ToSet(mailbox) : m.end = end /\ e \in m.ids

EventEnd(e) ==
  e \in stored /\ link[e] = 0 =>
    Mailed("event", e) \/ e \in waiting.event \/ (seen[e] \notin Screens /\ e \notin OnWay)

FrameEnd(e) ==
  seen[e] \in Screens /\ link[e] = 0 =>
    Mailed("frame", e) \/ e \in DOMAIN waiting.frame \/ e \notin stored \cup InBatch

Meet == slips = 0 => \A e \in Heard \ Scrolls : EventEnd(e) /\ FrameEnd(e)

MeetInv == TruthInv /\ Trail /\ Apart /\ Stages /\ Meet

(* The parts of the session. *)
LEMMA StagesStep ==
  ASSUME Stages, Apart, [EventNext]_eventVars
  PROVE  Stages'
<1>1. CASE StopSession \/ LaneEnds \/ LaneAborted \/ LinkerEnds \/ StartSession \/ RecorderEnds
  <2>1. CASE StopSession
    BY <2>1 DEF StopSession, StagesTo, Stages
  <2>2. CASE LaneEnds
    BY <2>2 DEF LaneEnds, StagesTo, Stages
  <2>3. CASE LaneAborted
    BY <2>3 DEF LaneAborted, StagesTo, Stages
  <2>4. CASE LinkerEnds
    BY <2>4 DEF LinkerEnds, StagesTo, Stages
  <2>5. CASE StartSession
    BY <2>5 DEF StartSession, Stages
  <2>6. CASE RecorderEnds
    BY <2>6 DEF RecorderEnds, StagesTo, Stages
  <2> QED
    BY <1>1, <2>1, <2>2, <2>3, <2>4, <2>5, <2>6
<1>2. ASSUME recording' = recording, recording.stage \in {"on", "recorder"}
      PROVE  Stages'
  BY <1>2 DEF Stages
<1>3. CASE \E kind \in Kinds : Hear(kind)
  BY <1>2, <1>3 DEF Hear
<1>4. CASE TypingPause \/ Tick
  BY <1>2, <1>4 DEF TypingPause, Tick
<1>5. CASE Wakes \/ Heartbeat
  BY <1>5 DEF Wakes, Heartbeat, Stages
<1>6. ASSUME lane.pc # "idle", UNCHANGED <<recording, recorder>> PROVE Stages'
  BY <1>6 DEF Stages, Idle
<1>7. CASE Collects \/ CollectsMore \/ KeepsDistance
  BY <1>6, <1>7 DEF Collects, CollectsMore, Joined, KeepsDistance
<1>8. CASE Captures \/ CaptureFails
  BY <1>6, <1>8 DEF Captures, CaptureFails
<1>9. CASE Links
  BY <1>9 DEF Links, Stages
<1>10. CASE Expires
  <2>1. waiting # Nobody
    BY <1>10 DEF Expires, Nobody
  <2> QED
    BY <2>1, <1>10 DEF Expires, Stages
<1>11. CASE UNCHANGED eventVars
  BY <1>11 DEF eventVars, Stages
<1> QED
  BY <1>1, <1>3, <1>4, <1>5, <1>7, <1>8, <1>9, <1>10, <1>11 DEF EventNext, RecorderStep, LaneStep, StopStep

(* An id waits with one end. *)
LEMMA ApartStep ==
  ASSUME TruthInv, Apart, [EventNext]_eventVars
  PROVE  Apart'
<1>1. CASE UNCHANGED waiting
  BY <1>1 DEF Apart
<1>2. CASE waiting' = Nobody
  BY <1>2 DEF Apart, Nobody
<1>3. CASE Expires
  BY <1>3 DEF Expires, Apart
<1>4. CASE Links
  <2>1. PICK m \in Mails, paired \in SUBSET EventIds :
           /\ m.end = "event" =>
                /\ paired = m.ids \cap DOMAIN waiting.frame
                /\ waiting'.event = waiting.event \cup (m.ids \ paired)
                /\ DOMAIN waiting'.frame = (DOMAIN waiting.frame) \ paired
           /\ m.end # "event" =>
                /\ paired = m.ids \cap waiting.event
                /\ waiting'.event = waiting.event \ paired
                /\ DOMAIN waiting'.frame = (DOMAIN waiting.frame) \cup (m.ids \ paired)
    BY <1>4, LinksShow
  <2> QED
    BY <2>1 DEF Apart
<1>6. CASE TypingPause \/ Tick \/ Wakes \/ Collects \/ CollectsMore \/ KeepsDistance \/ Heartbeat
  BY <1>1, <1>6 DEF TypingPause, Tick, Wakes, Collects, CollectsMore, Joined, KeepsDistance, Heartbeat
<1>7. CASE Captures \/ CaptureFails \/ StopSession \/ RecorderEnds \/ LaneEnds \/ LaneAborted
           \/ StartSession \/ UNCHANGED eventVars
  BY <1>1, <1>7 DEF Captures, CaptureFails, StopSession, RecorderEnds, LaneEnds, LaneAborted,
                    StartSession, eventVars
<1>8. CASE LinkerEnds
  BY <1>2, <1>8 DEF LinkerEnds
<1>9. ASSUME NEW kind \in Kinds, Hear(kind) PROVE Apart'
  BY <1>1, <1>9 DEF Hear
<1> QED
  BY <1>3, <1>4, <1>6, <1>7, <1>8, <1>9 DEF EventNext, RecorderStep, LaneStep, StopStep

(* Scrolls stay scrolls. *)
LEMMA ScrollsGrow ==
  ASSUME TruthInv, [EventNext]_eventVars
  PROVE  Scrolls \subseteq Scrolls' /\ (kindOf' = kindOf => Scrolls' = Scrolls /\ Heard' = Heard)
<1>1. ASSUME kindOf' = kindOf PROVE Scrolls' = Scrolls /\ Heard' = Heard
  BY <1>1 DEF Scrolls, Heard
<1>2. ASSUME NEW kind \in Kinds, Hear(kind) PROVE Scrolls \subseteq Scrolls'
  <2>1. PICK e : e = Len(kindOf) + 1
    OBVIOUS
  <2>2. Heard' = Heard \cup {e} /\ \A x \in Heard : kindOf'[x] = kindOf[x]
    BY <1>2, <2>1, HearShows
  <2> QED
    BY <2>2 DEF Scrolls
<1>3. (\E kind \in Kinds : Hear(kind)) \/ kindOf' = kindOf
  BY DEF EventNext, RecorderStep, LaneStep, StopStep, TypingPause, Tick, Wakes, Collects,
         CollectsMore, Joined, KeepsDistance, Heartbeat, Captures, CaptureFails, Links, Expires,
         StopSession, RecorderEnds, LaneEnds, LaneAborted, LinkerEnds, StartSession, eventVars
<1> QED
  BY <1>1, <1>2, <1>3

(* What trails behind a message is a scroll. *)
LEMMA TrailStep ==
  ASSUME TruthInv, Trail, [EventNext]_eventVars
  PROVE  Trail'
<1>1. Scrolls \subseteq Scrolls'
  BY ScrollsGrow
<1>2. EventShape /\ bus \in Seq(Messages) /\ lane \in Lanes /\ recorder \in Recorders
  BY DEF TruthInv, EventShape
<1>3. ASSUME recorder'.scrolling \in {recorder.scrolling, <<>>},
             lane'.trailing \in {lane.trailing, {}},
             \A m \in ToSet(bus') : m \in ToSet(bus) \/ ToSet(m.more) \subseteq Scrolls
      PROVE  Trail'
  <2>1. ToSet(recorder'.scrolling) \subseteq Scrolls /\ lane'.trailing \subseteq Scrolls
    BY <1>3, EmptySet DEF Trail
  <2> QED
    BY <2>1, <1>1, <1>3 DEF Trail
<1>4. ASSUME NEW kind \in Kinds, Hear(kind) PROVE Trail'
  <2>1. PICK e : e = Len(kindOf) + 1
    OBVIOUS
  <2>2. /\ Heard' = Heard \cup {e} /\ kindOf'[e] = kind /\ lane' = lane
        /\ ToSet(recorder.scrolling)' = ToSet(recorder.scrolling) \cup (IF kind = "scroll" THEN {e} ELSE {})
        /\ \A m \in ToSet(bus') : m \in ToSet(bus) \/ m.more = <<>>
    BY <1>4, <2>1, HearShows
  <2>3. kind = "scroll" => e \in Scrolls'
    BY <2>2 DEF Scrolls
  <2>4. ToSet(recorder'.scrolling) \subseteq Scrolls'
    BY <1>1, <2>2, <2>3 DEF Trail
  <2>5. \A m \in ToSet(bus') : ToSet(m.more) \subseteq Scrolls'
    BY <1>1, <2>2, EmptySet DEF Trail
  <2> QED
    BY <1>1, <2>2, <2>4, <2>5 DEF Trail
<1>5. CASE TypingPause
  <2>1. \A m \in ToSet(bus') : m \in ToSet(bus) \/ ToSet(m.more) \subseteq Scrolls
    BY <1>5, TypingPauseHolds, EmptySet
  <2>2. recorder'.scrolling = recorder.scrolling /\ lane' = lane
    BY <1>2, <1>5 DEF TypingPause, Recorders
  <2> QED
    BY <2>1, <2>2, <1>3
<1>6. CASE Tick
  <2>1. /\ recorder'.scrolling \in {recorder.scrolling, <<>>}
        /\ \A m \in ToSet(bus') : m \in ToSet(bus) \/ ToSet(m.more) \subseteq ToSet(recorder.scrolling)
    BY <1>6, TickShows
  <2>2. lane' = lane
    BY <1>6 DEF Tick
  <2> QED
    BY <2>1, <2>2, <1>3 DEF Trail
<1>7. CASE Wakes
  <2>1. /\ Head(bus) \in ToSet(bus) /\ ToSet(Tail(bus)) \subseteq ToSet(bus)
    BY <1>2, <1>7, TailSet DEF Wakes
  <2>2. /\ lane'.trailing = ToSet(Head(bus).more) /\ bus' = Tail(bus) /\ recorder' = recorder
    BY <1>7 DEF Wakes
  <2> QED
    BY <1>1, <2>1, <2>2 DEF Trail
<1>8. CASE Collects \/ CollectsMore
  <2>1. /\ lane'.trailing = lane.trailing \cup MoreIds(bus) /\ bus' = <<>> /\ recorder' = recorder
    BY <1>2, <1>8 DEF Collects, CollectsMore, Joined, Lanes
  <2>2. MoreIds(bus) = UNION {ToSet(m.more) : m \in ToSet(bus)}
    BY DEF MoreIds, ToSet
  <2> QED
    BY <1>1, <2>1, <2>2, EmptySet DEF Trail
<1>9. CASE KeepsDistance \/ Heartbeat
  BY <1>2, <1>3, <1>9 DEF KeepsDistance, LaneGoes, Heartbeat, Lanes
<1>10. CASE Captures \/ CaptureFails
  <2>1. lane'.trailing = {}
    BY <1>2, <1>10 DEF Captures, CaptureFails, Takes, Lanes
  <2> QED
    BY <2>1, <1>3, <1>10 DEF Captures, CaptureFails
<1>11. CASE Links \/ Expires \/ StopSession \/ LinkerEnds \/ StartSession \/ UNCHANGED eventVars
  BY <1>3, <1>11 DEF Links, Expires, StopSession, LinkerEnds, StartSession, eventVars
<1>12. CASE RecorderEnds \/ LaneEnds \/ LaneAborted
  BY <1>3, <1>12, EmptySet DEF RecorderEnds, LaneEnds, LaneAborted, Quiet, Idle
<1> QED
  BY <1>4, <1>5, <1>6, <1>7, <1>8, <1>9, <1>10, <1>11, <1>12
  DEF EventNext, RecorderStep, LaneStep, StopStep

-----------------------------------------------------------------------------
(* Nothing is seen or linked, and what is new is told to the linker. *)
LEMMA MeetRests ==
  ASSUME TruthInv, Meet, UNCHANGED <<seen, link, waiting>>,
         \A x \in Heard' \ Scrolls' : x \in Heard \ Scrolls \/ (x \notin Heard /\ seen[x] \notin Screens),
         \A x \in Heard : x \in OnWay' => x \in OnWay,
         \A x \in Heard : x \in stored' \cup InBatch' => x \in stored \cup InBatch,
         slips' = 0 => slips = 0 /\ ToSet(mailbox) \subseteq ToSet(mailbox')
                       /\ \A x \in stored' \ stored : Persisted(x) \in ToSet(mailbox')
  PROVE  Meet'
<1> SUFFICES ASSUME slips' = 0, NEW e \in Heard' \ Scrolls'
             PROVE  EventEnd(e)' /\ FrameEnd(e)'
  BY DEF Meet
<1>1. \A end, x : Mailed(end, x) => Mailed(end, x)'
  BY DEF Mailed
<1>2. CASE e \in stored' \ stored
  <2>1. Mailed("event", e)'
    BY <1>2 DEF Persisted, Mailed
  <2>2. EventEnd(e)'
    BY <2>1 DEF EventEnd
  <2>3. ASSUME seen'[e] \in Screens, link'[e] = 0
        PROVE  Mailed("frame", e)' \/ e \in DOMAIN waiting'.frame \/ e \notin stored' \cup InBatch'
    <3>1. e \in Heard \ Scrolls
      BY <2>3
    <3>2. FrameEnd(e)
      BY <3>1 DEF Meet
    <3> QED
      BY <2>3, <3>1, <3>2, <1>1 DEF FrameEnd
  <2> QED
    BY <2>2, <2>3 DEF FrameEnd
<1>3. CASE e \notin stored' \ stored
  <2>1. CASE e \in Heard \ Scrolls
    <3>1. EventEnd(e) /\ FrameEnd(e)
      BY <2>1 DEF Meet
    <3>2. EventEnd(e)'
      BY <1>1, <1>3, <2>1, <3>1 DEF EventEnd
    <3>3. FrameEnd(e)'
      BY <1>1, <2>1, <3>1 DEF FrameEnd
    <3> QED
      BY <3>2, <3>3
  <2>2. CASE e \notin Heard /\ seen[e] \notin Screens
    <3>1. e \notin stored /\ e \notin stored'
      BY <1>3, <2>2 DEF TruthInv, OneWay
    <3> QED
      BY <2>2, <3>1 DEF EventEnd, FrameEnd
  <2> QED
    BY <2>1, <2>2
<1> QED
  BY <1>2, <1>3

(* The capture brings the frame, or none. *)
LEMMA MeetCaptures ==
  ASSUME TruthInv, Trail, Meet, Captures \/ CaptureFails
  PROVE  Meet'
<1>1. PICK s \in Screens \cup {Failed}, f \in Nat :
        /\ Takes("idle", s, f) /\ Ready
        /\ slips' = 0 => slips = 0 /\ ToSet(mailbox) \subseteq ToSet(mailbox')
                         /\ (s \in Screens => Taken(f, lane.ids) \in ToSet(mailbox'))
  <2>1. CASE Captures
    <3>1. PICK s \in Screens, f \in Nat :
            /\ Takes("idle", s, f) /\ Ready
            /\ slips' = 0 => slips = 0 /\ ToSet(mailbox') = ToSet(mailbox) \cup {Taken(f, lane.ids)}
      BY <2>1, CapturesShow
    <3> QED
      BY <3>1
  <2>2. CASE CaptureFails
    <3>1. Takes("idle", Failed, 0) /\ Ready /\ slips' = slips /\ mailbox' = mailbox
      BY <2>2, CaptureFailsHolds DEF CaptureFails
    <3> QED
      BY <3>1, UnseenIsNoScreen
  <2> QED
    BY <2>1, <2>2
<1>2. UNCHANGED <<kindOf, recorder, bus, stored, link, waiting>>
  BY DEF Captures, CaptureFails
<1>3. /\ \A e \in EventIds : seen'[e] = IF e \in LaneIds THEN s ELSE seen[e]
      /\ OnWay' = OnWay \ LaneIds
  BY <1>1, <1>2, TakenAreDone
<1>4. Heard' = Heard /\ Scrolls' = Scrolls /\ InBatch' = InBatch /\ Heard \subseteq EventIds
  BY <1>2, ShapeFacts DEF Heard, Scrolls, InBatch, TruthInv
<1> SUFFICES ASSUME slips' = 0, NEW e \in Heard \ Scrolls
             PROVE  EventEnd(e)' /\ FrameEnd(e)'
  BY <1>4 DEF Meet
<1>5. EventEnd(e) /\ FrameEnd(e) /\ e \in EventIds
  BY <1>1, <1>4 DEF Meet
<1>6. \A end, x : Mailed(end, x) => Mailed(end, x)'
  BY <1>1 DEF Mailed
<1>7. CASE e \in LaneIds
  <2>1. e \in lane.ids /\ e \in OnWay
    BY <1>7 DEF LaneIds, Trail, OnWay
  <2>2. EventEnd(e)'
    BY <1>2, <1>5, <1>6, <2>1 DEF EventEnd
  <2>3. seen'[e] = s
    BY <1>3, <1>5, <1>7
  <2>4. s \in Screens => Mailed("frame", e)'
    BY <1>1, <2>1 DEF Taken, Mailed
  <2>5. FrameEnd(e)'
    BY <2>3, <2>4 DEF FrameEnd
  <2> QED
    BY <2>2, <2>5
<1>8. CASE e \notin LaneIds
  <2>1. seen'[e] = seen[e] /\ (e \in OnWay' => e \in OnWay)
    BY <1>3, <1>5, <1>8
  <2>2. EventEnd(e)'
    BY <1>2, <1>5, <1>6, <2>1 DEF EventEnd
  <2>3. FrameEnd(e)'
    BY <1>2, <1>4, <1>5, <1>6, <2>1 DEF FrameEnd
  <2> QED
    BY <2>2, <2>3
<1> QED
  BY <1>7, <1>8

(* The linker: of a message what is paired is linked, and the rest waits. *)
LEMMA MeetLinks ==
  ASSUME TruthInv, Meet, Links
  PROVE  Meet'
<1>1. PICK m \in Mails, paired \in SUBSET EventIds :
           /\ paired \subseteq m.ids
           /\ ToSet(mailbox) = {m} \cup ToSet(mailbox') /\ mailbox' \in Seq(Mails)
           /\ UNCHANGED <<recording, kindOf, recorder, bus, lane, frames, remembered, seen, stored, slips>>
           /\ \A e \in EventIds :
                link'[e] = IF e \notin paired \/ link[e] # 0 THEN link[e]
                           ELSE IF m.end = "event" THEN waiting.frame[e] ELSE m.frame
           /\ m.end = "event" =>
                /\ paired = m.ids \cap DOMAIN waiting.frame
                /\ waiting'.event = waiting.event \cup (m.ids \ paired)
                /\ DOMAIN waiting'.frame = (DOMAIN waiting.frame) \ paired
           /\ m.end # "event" =>
                /\ paired = m.ids \cap waiting.event
                /\ waiting'.event = waiting.event \ paired
                /\ DOMAIN waiting'.frame = (DOMAIN waiting.frame) \cup (m.ids \ paired)
  BY LinksShow
<1>2. IF m.end = "event" THEN m.ids \subseteq stored ELSE \A e \in m.ids : Truthful(m.frame, e)
  BY <1>1 DEF TruthInv, MailIsTrue
<1>3. \A e \in paired : link'[e] # 0
  <2> SUFFICES ASSUME NEW e \in paired, link'[e] = 0 PROVE FALSE
    OBVIOUS
  <2>1. CASE m.end = "event"
    <3>1. Truthful(waiting.frame[e], e) /\ link'[e] = waiting.frame[e]
      BY <2>1, <1>1 DEF TruthInv, WaitingIsTrue
    <3> QED
      BY <3>1 DEF Truthful
  <2>2. CASE m.end # "event"
    <3>1. Truthful(m.frame, e) /\ link'[e] = m.frame
      BY <2>2, <1>1, <1>2
    <3> QED
      BY <3>1 DEF Truthful
  <2> QED
    BY <2>1, <2>2
<1>4. Heard' = Heard /\ Scrolls' = Scrolls /\ InBatch' = InBatch /\ OnWay' = OnWay /\ Heard \subseteq EventIds
  BY <1>1, ShapeFacts DEF Heard, Scrolls, InBatch, OnWay, Held, BusIds, LaneIds, TruthInv
<1> SUFFICES ASSUME slips' = 0, NEW e \in Heard \ Scrolls, link'[e] = 0
             PROVE  EventEnd(e)' /\ FrameEnd(e)'
  BY <1>4 DEF Meet, EventEnd, FrameEnd
<1>5. EventEnd(e) /\ FrameEnd(e) /\ e \notin paired /\ link[e] = 0
  BY <1>1, <1>3, <1>4 DEF Meet
<1>6. \A end : Mailed(end, e) => Mailed(end, e)' \/ (m.end = end /\ e \in m.ids \ paired)
  BY <1>1, <1>5 DEF Mailed
<1>7. EventEnd(e)'
  <2>1. Mailed("event", e) => Mailed("event", e)' \/ e \in waiting'.event
    BY <1>1, <1>6
  <2>2. e \in waiting.event => e \in waiting'.event
    BY <1>1, <1>5
  <2> QED
    BY <2>1, <2>2, <1>1, <1>4, <1>5 DEF EventEnd
<1>8. FrameEnd(e)'
  <2>1. Mailed("frame", e) => Mailed("frame", e)' \/ e \in DOMAIN waiting'.frame
    BY <1>1, <1>6
  <2>2. e \in DOMAIN waiting.frame => e \in DOMAIN waiting'.frame
    BY <1>1, <1>5
  <2> QED
    BY <2>1, <2>2, <1>1, <1>4, <1>5 DEF FrameEnd
<1> QED
  BY <1>7, <1>8

(* The linker ends when nothing waits for an end that is to come. *)
LEMMA MeetLinkerEnds ==
  ASSUME MeetInv, LinkerEnds
  PROVE  Meet'
<1>1. /\ mailbox = <<>> /\ recorder = Quiet /\ bus = <<>> /\ lane = Idle /\ waiting' = Nobody
      /\ UNCHANGED <<kindOf, recorder, bus, lane, seen, stored, link, mailbox, slips>>
  BY DEF LinkerEnds, MeetInv, Stages
<1>2. OnWay' = {} /\ InBatch' = {} /\ \A end, e : ~Mailed(end, e)
  BY <1>1, EmptySet DEF OnWay, InBatch, Held, BusIds, LaneIds, Quiet, Idle, Mailed
<1>3. Heard' = Heard /\ Scrolls' = Scrolls
  BY <1>1 DEF Heard, Scrolls
<1> SUFFICES ASSUME slips' = 0, NEW e \in Heard \ Scrolls, link'[e] = 0
             PROVE  EventEnd(e)' /\ FrameEnd(e)'
  BY <1>3 DEF Meet, EventEnd, FrameEnd
<1>4. EventEnd(e) /\ FrameEnd(e)
  BY <1>1 DEF Meet, MeetInv
<1>5. e \in stored => seen[e] \notin Screens
  BY <1>1, <1>2, <1>4 DEF EventEnd, FrameEnd, MeetInv, Apart
<1> QED
  BY <1>1, <1>2, <1>5 DEF EventEnd, FrameEnd

LEMMA MeetStep == MeetInv /\ [EventNext]_eventVars => MeetInv'
<1> SUFFICES ASSUME MeetInv, [EventNext]_eventVars PROVE MeetInv'
  OBVIOUS
<1>1. TruthInv /\ Trail /\ Apart /\ Stages /\ Meet /\ slips \in Nat
  BY DEF MeetInv, TruthInv, EventShape
<1>2. TruthInv' /\ Trail' /\ Apart' /\ Stages'
  BY <1>1, TruthStep, TrailStep, ApartStep, StagesStep
<1> SUFFICES Meet'
  BY <1>2 DEF MeetInv
<1>3. ASSUME UNCHANGED <<kindOf, seen, link, waiting>>, OnWay' \subseteq OnWay,
             stored' \cup InBatch' \subseteq stored \cup InBatch,
             slips' = 0 => slips = 0 /\ ToSet(mailbox) \subseteq ToSet(mailbox')
                           /\ \A x \in stored' \ stored : Persisted(x) \in ToSet(mailbox')
      PROVE  Meet'
  <2>1. Heard' = Heard /\ Scrolls' = Scrolls
    BY <1>3 DEF Heard, Scrolls
  <2> QED
    BY <2>1, <1>1, <1>3, MeetRests
<1>4. ASSUME UNCHANGED <<kindOf, seen, stored, link, mailbox, waiting, slips>>, OnWay' \subseteq OnWay,
             InBatch' \subseteq InBatch
      PROVE  Meet'
  BY <1>3, <1>4
<1>5. ASSUME NEW kind \in Kinds, Hear(kind) PROVE Meet'
  <2>1. PICK e : e = Len(kindOf) + 1
    OBVIOUS
  <2>2. /\ e \in EventIds /\ e \notin Heard /\ e \notin stored \cup InBatch /\ Heard' = Heard \cup {e}
        /\ kindOf'[e] = kind /\ \A x \in Heard : kindOf'[x] = kindOf[x]
        /\ ToSet(recorder.typing)' = ToSet(recorder.typing) \cup (IF kind = "key" THEN {e} ELSE {})
        /\ ToSet(recorder.scrolling)' = ToSet(recorder.scrolling) \cup (IF kind = "scroll" THEN {e} ELSE {})
        /\ BusIds' \subseteq BusIds \cup (IF kind \in {"click", "focus"} THEN {e} ELSE {})
        /\ UNCHANGED <<recording, lane, frames, remembered, seen, link, waiting>>
        /\ stored' \cup InBatch' \subseteq stored \cup InBatch \cup {e}
        /\ slips' = 0 => slips = 0 /\ ToSet(mailbox) \subseteq ToSet(mailbox')
                         /\ \A x \in stored' \ stored : Persisted(x) \in ToSet(mailbox')
    BY <1>1, <1>5, <2>1, HearShows
  <2>3. OnWay' \subseteq OnWay \cup {e}
    BY <2>2 DEF OnWay, Held, LaneIds
  <2>4. seen[e] = Unseen
    BY <1>1, <2>2 DEF TruthInv, OneWay
  <2>5. \A x \in Heard' \ Scrolls' : x \in Heard \ Scrolls \/ (x \notin Heard /\ seen[x] \notin Screens)
    BY <2>2, <2>4, UnseenIsNoScreen DEF Scrolls
  <2> QED
    BY <2>2, <2>3, <2>5, <1>1, MeetRests
<1>6. CASE TypingPause
  <2>1. OnWay' \subseteq OnWay
    BY <1>1, <1>6, TypingPauseHolds
  <2>2. InBatch' = InBatch
    BY <1>1, <1>6 DEF TypingPause, InBatch, TruthInv, EventShape, Recorders
  <2> QED
    BY <2>1, <2>2, <1>4, <1>6 DEF TypingPause
<1>7. CASE Tick
  <2>1. OnWay' \subseteq OnWay
    BY <1>1, <1>7, TickHolds
  <2>2. /\ InBatch' \subseteq InBatch /\ stored' \subseteq stored \cup InBatch
        /\ slips' = 0 => slips = 0 /\ ToSet(mailbox) \subseteq ToSet(mailbox')
                         /\ \A x \in stored' \ stored : Persisted(x) \in ToSet(mailbox')
    BY <1>1, <1>7, TickShows
  <2> QED
    BY <2>1, <2>2, <1>3, <1>7 DEF Tick
<1>8. CASE Wakes
  BY <1>1, <1>4, <1>8, WakesHolds DEF Wakes, InBatch
<1>9. CASE Collects \/ CollectsMore
  <2>1. OnWay' \subseteq OnWay
    BY <1>1, <1>9, JoinedHolds DEF Collects, CollectsMore
  <2> QED
    BY <2>1, <1>4, <1>9 DEF Collects, CollectsMore, Joined, InBatch
<1>10. CASE KeepsDistance
  BY <1>1, <1>4, <1>10, KeepsDistanceHolds DEF KeepsDistance, InBatch
<1>11. CASE Heartbeat
  BY <1>1, <1>4, <1>11, HeartbeatHolds DEF Heartbeat, InBatch
<1>12. CASE Captures \/ CaptureFails
  BY <1>1, <1>12, MeetCaptures
<1>13. CASE Links
  BY <1>1, <1>13, MeetLinks
<1>14. CASE Expires \/ LaneAborted
  <2>1. slips' # 0
    BY <1>1, <1>14 DEF Expires, LaneAborted, Slip
  <2> QED
    BY <2>1 DEF Meet
<1>15. CASE LinkerEnds
  BY <1>15, MeetLinkerEnds
<1>16. CASE StopSession \/ LaneEnds \/ StartSession \/ UNCHANGED eventVars
  <2>1. OnWay' \subseteq OnWay
    BY <1>1, <1>16, PartsEnd DEF StopSession, LaneEnds, StartSession, eventVars
  <2> QED
    BY <2>1, <1>4, <1>16 DEF StopSession, LaneEnds, StartSession, eventVars, InBatch
<1>17. CASE RecorderEnds
  <2>1. /\ OnWay' \subseteq OnWay /\ recorder' = Quiet /\ stored' \subseteq stored \cup InBatch
        /\ slips' = 0 => slips = 0 /\ ToSet(mailbox) \subseteq ToSet(mailbox')
                         /\ \A x \in stored' \ stored : Persisted(x) \in ToSet(mailbox')
    BY <1>1, <1>17, RecorderEndsHolds
  <2>2. InBatch' = {}
    BY <2>1, EmptySet DEF InBatch, Quiet
  <2> QED
    BY <2>1, <2>2, <1>3, <1>17 DEF RecorderEnds
<1> QED
  BY <1>5, <1>6, <1>7, <1>8, <1>9, <1>10, <1>11, <1>12, <1>13, <1>14, <1>15, <1>16, <1>17
  DEF EventNext, RecorderStep, LaneStep, StopStep

LEMMA MeetInitHolds == EventInit => MeetInv
<1> SUFFICES ASSUME EventInit PROVE MeetInv
  OBVIOUS
<1>1. TruthInv
  BY TruthInitHolds
<1>2. kindOf = <<>> /\ Heard = {}
  BY DEF EventInit, Heard
<1>3. Trail
  BY EmptySet DEF EventInit, Quiet, Idle, Trail
<1>4. Apart /\ Stages
  BY DEF EventInit, Nobody, Apart, Stages
<1>5. Meet
  BY <1>2 DEF Meet
<1> QED
  BY <1>1, <1>3, <1>4, <1>5 DEF MeetInv

(* However the ends come, also while the session stops: as long as nothing   *)
(* was lost, a written and captured event has its frame or has it coming     *)
(* (linker.rs: run_linker; capture_session.rs: stop).                        *)
THEOREM EndsMeet == EventSpec => []BothEndsMeet
<1>1. MeetInv => BothEndsMeet
  <2> SUFFICES ASSUME MeetInv, NEW e \in stored, slips = 0, seen[e] \in Screens, link[e] = 0,
                      kindOf[e] # "scroll"
               PROVE  \E i \in DOMAIN mailbox : e \in mailbox[i].ids
    BY DEF BothEndsMeet
  <2>1. e \in Heard \ Scrolls /\ EventEnd(e) /\ FrameEnd(e)
    BY DEF MeetInv, TruthInv, OneWay, Meet, Scrolls
  <2>2. \E end : Mailed(end, e)
    BY <2>1 DEF EventEnd, FrameEnd, MeetInv, Apart
  <2> QED
    BY <2>2 DEF Mailed, ToSet
<1> QED
  BY <1>1, MeetInitHolds, MeetStep, PTL DEF EventSpec
=============================================================================
