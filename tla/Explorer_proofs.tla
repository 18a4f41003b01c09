--------------------------- MODULE Explorer_proofs ---------------------------
(***************************************************************************)
(* Theorems about ExplorerBatches, for every value of its constants.       *)
(***************************************************************************)
EXTENDS ExplorerBatches, Collections, FiniteSetTheorems

LEMMA ExplorerBounds ==
  /\ BatchLimit \in Nat \ {0} /\ PageLimit \in Nat /\ BatchLimit =< PageLimit /\ Lag \in Nat
  /\ MaxRows \in Nat /\ MaxFaults \in Nat /\ MaxWipes \in Nat
BY LimitsAssumption

-----------------------------------------------------------------------------
(* The captured rows: no two have the same time, and all times are bounded. *)
CaptureRow == [source : Sources, time : Nat, text : Texts, amid : BOOLEAN]

Stored == 1 .. Len(rows)

CaptureTyped ==
  /\ rows \in Seq(CaptureRow) /\ live \subseteq Stored
  /\ doomed \subseteq live /\ (doomed # {} => doomed = live)
  /\ \A i, j \in Stored : rows[i].time = rows[j].time => i = j
  /\ \E m \in Nat : \A i \in Stored : rows[i].time =< m

LEMMA RowIs ==
  ASSUME CaptureTyped
  PROVE  /\ Len(rows) \in Nat /\ DOMAIN rows = Stored
         /\ \A i \in Stored : /\ i \in Nat /\ rows[i] \in CaptureRow /\ rows[i].source \in Sources
                              /\ rows[i].time \in Nat /\ rows[i].text \in Texts
<1>1. Len(rows) \in Nat /\ DOMAIN rows = 1 .. Len(rows) /\ \A i \in 1 .. Len(rows) : rows[i] \in CaptureRow
  BY DEF CaptureTyped
<1> QED
  BY <1>1 DEF Stored, CaptureRow

LEMMA StoredFinite ==
  ASSUME CaptureTyped, NEW S \in SUBSET Stored
  PROVE  IsFiniteSet(S) /\ Cardinality(S) \in Nat
<1>1. IsFiniteSet(Stored)
  BY RowIs, FS_Interval DEF Stored
<1> QED
  BY <1>1, FS_Subset, FS_CardinalityType

(* The latest of some rows. *)
LEMMA LatestIs ==
  ASSUME CaptureTyped, NEW S \in SUBSET Stored, S # {}
  PROVE  LatestRow(S) \in S /\ \A j \in S : rows[j].time =< rows[LatestRow(S)].time
<1>1. PICK m \in Nat : \A i \in Stored : rows[i].time =< m
  BY DEF CaptureTyped
<1>2. PICK times \in SUBSET (0 .. m) : times = {rows[i].time : i \in S} /\ times # {}
  <2>1. \A i \in S : rows[i].time \in 0 .. m
    BY <1>1, RowIs
  <2>2. {rows[i].time : i \in S} \in SUBSET (0 .. m)
    BY <2>1
  <2>3. {rows[i].time : i \in S} # {}
    OBVIOUS
  <2> QED
    BY <2>2, <2>3
<1>3. Max(times) \in times /\ \A t \in times : t =< Max(times)
  BY <1>2, MaxIs
<1>4. PICK i \in S : rows[i].time = Max(times)
  BY <1>2, <1>3
<1>5. \A j \in S : rows[j].time =< rows[i].time
  BY <1>2, <1>3, <1>4
<1> QED
  BY <1>5 DEF LatestRow

-----------------------------------------------------------------------------
(* Cuts of the rows of each source, and the cursors a window leads to. *)
Cuts == [Sources -> Nat]
Within(c) == \A s \in Sources : c[s] =< Len(rows)

LEMMA LastIs ==
  ASSUME CaptureTyped, NEW W \in SUBSET Stored, NEW c \in Cuts, Within(c)
  PROVE  /\ LastOf(W, c) \in Cuts /\ Within(LastOf(W, c))
         /\ \A s \in Sources :
              /\ c[s] =< LastOf(W, c)[s] /\ \A i \in OfSource(W, s) : i =< LastOf(W, c)[s]
              /\ LastOf(W, c)[s] = c[s] \/ LastOf(W, c)[s] \in OfSource(W, s)
<1>1. ASSUME NEW s \in Sources
      PROVE  /\ LastOf(W, c)[s] \in 0 .. Len(rows)
             /\ c[s] =< LastOf(W, c)[s] /\ \A i \in OfSource(W, s) : i =< LastOf(W, c)[s]
             /\ LastOf(W, c)[s] = c[s] \/ LastOf(W, c)[s] \in OfSource(W, s)
  <2>1. PICK ids : ids = OfSource(W, s) \cup {c[s]}
    OBVIOUS
  <2>2. OfSource(W, s) \subseteq Stored /\ c[s] \in 0 .. Len(rows) /\ Len(rows) \in Nat
    BY RowIs DEF OfSource, Cuts, Within
  <2>3. ids \in SUBSET (0 .. Len(rows)) /\ ids # {}
    BY <2>1, <2>2 DEF Stored
  <2>4. Max(ids) \in ids /\ \A k \in ids : k =< Max(ids)
    BY <2>2, <2>3, MaxIs
  <2>5. LastOf(W, c)[s] = Max(ids)
    BY <2>1 DEF LastOf
  <2> QED
    BY <2>1, <2>3, <2>4, <2>5
<1>2. LastOf(W, c) \in Cuts
  <2>1. LastOf(W, c) = [s \in Sources |-> LastOf(W, c)[s]]
    BY DEF LastOf
  <2>2. \A s \in Sources : LastOf(W, c)[s] \in Nat
    BY <1>1, RowIs
  <2> QED
    BY <2>1, <2>2 DEF Cuts
<1>3. Within(LastOf(W, c))
  BY <1>1, RowIs DEF Within
<1> QED
  BY <1>1, <1>2, <1>3

-----------------------------------------------------------------------------
(* A page holds the rows next to the cursor, up to its limit. *)
After(s, c) == {i \in OfSource(live, s) : i > c[s]}

LEMMA AfterIs ==
  ASSUME CaptureTyped, NEW s \in Sources, NEW c
  PROVE  /\ After(s, c) \subseteq Stored /\ Page(s, c) \subseteq After(s, c)
         /\ \A i \in After(s, c) : i \in live /\ rows[i].source = s /\ i > c[s]
BY DEF CaptureTyped, After, Page, FirstIds, OfSource

LEMMA PageIsLow ==
  ASSUME CaptureTyped, NEW s \in Sources, NEW c, NEW i \in Page(s, c), NEW k \in After(s, c), k =< i
  PROVE  k \in Page(s, c)
<1>1. PICK S \in SUBSET Stored : S = After(s, c) /\ i \in S /\ k \in S
  BY AfterIs
<1>2. Page(s, c) = {j \in S : Cardinality({h \in S : h < j}) < PageLimit}
  BY <1>1 DEF Page, FirstIds, After
<1>3. PICK low \in SUBSET Stored, high \in SUBSET Stored : low = {h \in S : h < k} /\ high = {h \in S : h < i}
  BY <1>1
<1>4. low \subseteq high
  BY <1>1, <1>3, RowIs
<1>5. Cardinality(low) =< Cardinality(high) /\ Cardinality(low) \in Nat /\ Cardinality(high) \in Nat
  BY <1>4, StoredFinite, FS_Subset
<1>6. Cardinality(high) < PageLimit
  BY <1>2, <1>3
<1> QED
  BY <1>1, <1>2, <1>3, <1>5, <1>6, ExplorerBounds

LEMMA PageIsFull ==
  ASSUME CaptureTyped, NEW s \in Sources, NEW c, NEW j \in After(s, c), j \notin Page(s, c)
  PROVE  \E T \in SUBSET Page(s, c) : Cardinality(T) >= PageLimit /\ \A k \in T : k < j
<1>1. PICK S \in SUBSET Stored : S = After(s, c) /\ j \in S
  BY AfterIs
<1>2. Page(s, c) = {i \in S : Cardinality({h \in S : h < i}) < PageLimit}
  BY <1>1 DEF Page, FirstIds, After
<1>3. PICK rest \in SUBSET Nat : rest = S \ Page(s, c) /\ rest # {}
  BY <1>1, RowIs
<1>4. PICK x \in rest : \A y \in rest : x =< y
  BY <1>3, LeastExists
<1>5. PICK T \in SUBSET Stored : T = {h \in S : h < x}
  BY <1>1
<1>6. T \subseteq Page(s, c)
  <2> SUFFICES ASSUME NEW k \in T, k \notin Page(s, c) PROVE FALSE
    OBVIOUS
  <2>1. k \in rest /\ k < x /\ k \in Nat /\ x \in Nat
    BY <1>3, <1>5
  <2> QED
    BY <1>4, <2>1
<1>7. ~(Cardinality(T) < PageLimit) /\ Cardinality(T) \in Nat
  BY <1>2, <1>3, <1>5, StoredFinite
<1>8. x =< j /\ x \in Nat /\ j \in Nat
  BY <1>1, <1>3, <1>4
<1>9. \A k \in T : k < j
  BY <1>1, <1>5, <1>8, RowIs
<1> QED
  BY <1>6, <1>7, <1>9, ExplorerBounds

(* A window holds the earliest rows of the pages, up to its limit. *)
LEMMA WindowIsEarly ==
  ASSUME CaptureTyped, NEW P \in SUBSET Stored, NEW i \in Merged(P, BatchLimit)
  PROVE  \A T \in SUBSET P :
           (\A k \in T : rows[k].time < rows[i].time) => Cardinality(T) < BatchLimit
<1>1. PICK early \in SUBSET Stored : early = {k \in P : rows[k].time < rows[i].time}
  OBVIOUS
<1>2. Cardinality(early) < BatchLimit
  BY <1>1 DEF Merged, Earliest
<1>3. ASSUME NEW T \in SUBSET P, \A k \in T : rows[k].time < rows[i].time
      PROVE  Cardinality(T) < BatchLimit
  <2>1. T \subseteq early /\ T \in SUBSET Stored
    BY <1>1, <1>3
  <2>2. Cardinality(T) =< Cardinality(early) /\ Cardinality(T) \in Nat /\ Cardinality(early) \in Nat
    BY <2>1, StoredFinite, FS_Subset
  <2> QED
    BY <1>2, <2>2, ExplorerBounds
<1> QED
  BY <1>3

LEMMA WindowComesFirst ==
  ASSUME CaptureTyped, NEW P \in SUBSET Stored, NEW i \in Merged(P, BatchLimit),
         NEW j \in P, j \notin Merged(P, BatchLimit)
  PROVE  rows[i].time < rows[j].time
<1>1. PICK early \in SUBSET Stored : early = {k \in P : rows[k].time < rows[j].time} /\ early \subseteq P
  OBVIOUS
<1>2. ~(Cardinality(early) < BatchLimit)
  BY <1>1 DEF Merged, Earliest
<1>3. PICK k \in early : ~(rows[k].time < rows[i].time)
  BY <1>1, <1>2, WindowIsEarly
<1>4. i \in Stored /\ j \in Stored /\ k \in Stored
  BY <1>1 DEF Merged, Earliest
<1> QED
  BY <1>1, <1>3, <1>4, RowIs

(* No row is left out of what was read of a source before one that is in it. *)
Closed(s, c, P) == \A z \in OfSource(P, s) : \A i \in After(s, c) : i =< z => i \in P

(* What the cursors of a window pass is in the window or was overtaken. *)
LEMMA PassedIsSeen ==
  ASSUME CaptureTyped, NEW c \in Cuts, Within(c), NEW P \in SUBSET Stored,
         \A s \in Sources : Closed(s, c, P),
         NEW i \in live, i > c[rows[i].source],
         i =< LastOf(Merged(P, BatchLimit), c)[rows[i].source]
  PROVE  i \in Merged(P, BatchLimit) \/ Overtaken(i)
<1>1. i \in Stored /\ rows[i].source \in Sources
  BY RowIs DEF CaptureTyped
<1>2. PICK s \in Sources : s = rows[i].source
  BY <1>1
<1>3. PICK W \in SUBSET P : W = Merged(P, BatchLimit)
  BY DEF Merged, Earliest
<1>4. PICK z \in Nat : z = LastOf(W, c)[s] /\ (z = c[s] \/ z \in OfSource(W, s))
  BY <1>3, LastIs DEF Cuts
<1>5. c[s] \in Nat /\ i \in Nat /\ i > c[s] /\ i =< z
  BY <1>1, <1>2, <1>3, <1>4, RowIs DEF Cuts
<1>6. z \in W /\ rows[z].source = s /\ z \in OfSource(P, s)
  BY <1>3, <1>4, <1>5 DEF OfSource
<1>7. i \in After(s, c)
  BY <1>2, <1>5 DEF After, OfSource
<1>8. i \in P
  BY <1>5, <1>6, <1>7 DEF Closed
<1>9. CASE i \notin W
  <2>1. rows[z].time < rows[i].time
    BY <1>3, <1>6, <1>8, <1>9, WindowComesFirst
  <2>2. z > i /\ z \in Stored
    BY <1>3, <1>5, <1>6, <1>9
  <2>3. z \in DOMAIN rows
    BY <2>2, RowIs
  <2> QED
    BY <1>2, <1>6, <2>1, <2>2, <2>3 DEF Overtaken
<1> QED
  BY <1>3, <1>9
-----------------------------------------------------------------------------
(* A cut passes no row before an earlier one of the other source, of those  *)
(* that the cursors have not passed by now.                                 *)
Ahead(c, j) == j > c[rows[j].source] /\ j > cursor[rows[j].source] /\ ~Overtakes(j) /\ ~rows[j].amid

CutAt(c) ==
  \A i, j \in live \ doomed :
    i =< c[rows[i].source] /\ ~Overtaken(i) /\ Ahead(c, j) /\ j < i
    => rows[i].time < rows[j].time

Fit(c) == c \in Cuts /\ Within(c) /\ CutAt(c)

(* A cursor that was read: the rows up to it are behind the cursor now.      *)
Taken(s, n) ==
  n =< Len(rows) /\ \A i \in live \ doomed : rows[i].source = s /\ i =< n => i =< cursor[s]

Begun(c) == \A s \in Sources : Taken(s, c[s])

(* The page is full of rows before j. *)
FullBelow(s, P, j) ==
  \E T \in SUBSET (OfSource(P, s) \cap live) : Cardinality(T) >= PageLimit /\ \A k \in T : k < j

Missed(s, c, P, j) == j \in After(s, c) \ doomed /\ ~rows[j].amid /\ j \notin P

(* The page of frames was read; those stored from now on are marked.         *)
FramesRead(c, F) ==
  /\ F \subseteq Stored /\ OfSource(F, Event) = {} /\ Closed(Frame, c, F)
  /\ \A j : Missed(Frame, c, F, j) => FullBelow(Frame, F, j)

(* Both pages were read; whatever is stored from now on comes after both.    *)
PagesRead(c, P) ==
  /\ P \subseteq Stored
  /\ \A s \in Sources :
       /\ Closed(s, c, P)
       /\ \A j : Missed(s, c, P, j) => FullBelow(s, P, j) \/ \A k \in P : k < j

(* The cursors a window leads to are such a cut again, if those it starts   *)
(* at are passed by now.                                                    *)
LEMMA WindowCuts ==
  ASSUME CaptureTyped, Fit(cursor), NEW c \in Cuts, Begun(c), NEW P, PagesRead(c, P)
  PROVE  Fit(LastOf(Merged(P, BatchLimit), c))
<1>1. P \in SUBSET Stored /\ \A s \in Sources : Closed(s, c, P)
  BY DEF PagesRead
<1>2. PICK W \in SUBSET P : W = Merged(P, BatchLimit)
  BY DEF Merged, Earliest
<1>3. PICK d : d = LastOf(W, c)
  OBVIOUS
<1>4. Within(c)
  BY DEF Begun, Taken, Within
<1>5. /\ d \in Cuts /\ Within(d)
      /\ \A s \in Sources : c[s] =< d[s] /\ \A i \in OfSource(W, s) : i =< d[s]
  BY <1>1, <1>2, <1>3, <1>4, LastIs
<1>6. SUFFICES ASSUME NEW i \in live \ doomed, NEW j \in live \ doomed,
                      i =< d[rows[i].source], ~Overtaken(i), Ahead(d, j), j < i
               PROVE  rows[i].time < rows[j].time
  BY <1>2, <1>3, <1>5 DEF Fit, CutAt
<1>7. PICK s \in Sources, t \in Sources : s = rows[i].source /\ t = rows[j].source
  BY RowIs DEF CaptureTyped
<1>8. /\ i \in Nat /\ j \in Nat /\ c[s] \in Nat /\ c[t] \in Nat /\ d[s] \in Nat /\ d[t] \in Nat
      /\ i \in Stored /\ j \in Stored /\ rows[i].time \in Nat /\ rows[j].time \in Nat
  BY <1>5, <1>7, RowIs DEF Cuts, CaptureTyped
<1>9. /\ j > c[t] /\ j > d[t] /\ i =< d[s] /\ c[t] =< d[t]
      /\ ~Overtakes(j) /\ ~rows[j].amid /\ j > cursor[t]
  BY <1>5, <1>6, <1>7, <1>8 DEF Ahead
<1>10. CASE i =< c[s]
  <2>1. i =< cursor[s]
    BY <1>7, <1>10 DEF Begun, Taken
  <2>2. Ahead(cursor, j)
    BY <1>7, <1>9 DEF Ahead
  <2> QED
    BY <1>6, <1>7, <2>1, <2>2 DEF Fit, CutAt
<1>11. CASE ~(i =< c[s])
  <2>1. i \in W
    BY <1>1, <1>2, <1>3, <1>4, <1>6, <1>7, <1>8, <1>9, <1>11, PassedIsSeen
  <2>2. j \notin W
    BY <1>5, <1>7, <1>8, <1>9 DEF OfSource
  <2>3. CASE j \in P
    BY <1>1, <1>2, <2>1, <2>2, <2>3, WindowComesFirst
  <2>4. CASE j \notin P
    <3>1. Missed(t, c, P, j)
      BY <1>6, <1>7, <1>9, <2>4 DEF Missed, After, OfSource
    <3>2. ~\A k \in P : k < j
      BY <1>2, <1>6, <1>8, <2>1
    <3>3. PICK T \in SUBSET P : /\ T \subseteq OfSource(P, t) /\ Cardinality(T) >= PageLimit
                                /\ \A k \in T : k < j
      <4>1. FullBelow(t, P, j)
        BY <3>1, <3>2 DEF PagesRead
      <4>2. PICK T \in SUBSET (OfSource(P, t) \cap live) :
              Cardinality(T) >= PageLimit /\ \A k \in T : k < j
        BY <4>1 DEF FullBelow
      <4>3. T \in SUBSET P /\ T \subseteq OfSource(P, t)
        BY <4>2 DEF OfSource
      <4> QED
        BY <4>2, <4>3
    <3>4. \A k \in T : rows[k].source = t /\ k \in DOMAIN rows /\ rows[k].time \in Nat
      BY <1>1, <3>3, RowIs DEF OfSource
    <3>5. \A k \in T : rows[k].time < rows[j].time
      <4>1. \A k \in T : ~(rows[k].time > rows[j].time)
        BY <1>7, <1>9, <3>3, <3>4 DEF Overtakes
      <4>2. \A k \in T : k # j /\ rows[k].time # rows[j].time
        BY <1>1, <1>8, <3>3, RowIs DEF CaptureTyped
      <4> QED
        BY <1>8, <3>4, <4>1, <4>2
    <3>6. ~(Cardinality(T) < BatchLimit)
      BY <1>1, <3>3, StoredFinite, ExplorerBounds
    <3>7. PICK k \in T : ~(rows[k].time < rows[i].time)
      BY <1>1, <1>2, <2>1, <3>6, WindowIsEarly
    <3> QED
      BY <1>8, <3>4, <3>5, <3>7
  <2> QED
    BY <2>3, <2>4
<1> QED
  BY <1>8, <1>10, <1>11
-----------------------------------------------------------------------------
(* A page as it is read. *)
LEMMA PageIs ==
  ASSUME CaptureTyped, NEW s \in Sources, NEW c
  PROVE  /\ Page(s, c) \subseteq Stored /\ Page(s, c) \subseteq live
         /\ \A i \in Page(s, c) : rows[i].source = s
         /\ Closed(s, c, Page(s, c))
         /\ \A j \in After(s, c) : j \notin Page(s, c) => FullBelow(s, Page(s, c), j)
<1>1. /\ Page(s, c) \subseteq Stored /\ Page(s, c) \subseteq live
      /\ \A i \in Page(s, c) : rows[i].source = s
  BY AfterIs
<1>2. Closed(s, c, Page(s, c))
  BY PageIsLow DEF Closed, OfSource
<1>3. Page(s, c) \subseteq OfSource(Page(s, c), s) \cap live
  BY <1>1 DEF OfSource
<1>4. \A j \in After(s, c) : j \notin Page(s, c) => FullBelow(s, Page(s, c), j)
  BY <1>3, PageIsFull DEF FullBelow
<1> QED
  BY <1>1, <1>2, <1>4

LEMMA MoreIsFull ==
  ASSUME NEW s \in Sources, NEW P, NEW Q, NEW j, FullBelow(s, P, j), P \cap live \subseteq Q
  PROVE  FullBelow(s, Q, j)
<1>1. OfSource(P, s) \cap live \subseteq OfSource(Q, s) \cap live
  BY DEF OfSource
<1> QED
  BY <1>1 DEF FullBelow

(* The frames that are still there, and the events as they are read. *)
LEMMA BothAreRead ==
  ASSUME CaptureTyped, NEW c, NEW F, FramesRead(c, F), NEW found \in Resolved(F)
  PROVE  PagesRead(c, found \cup Page(Event, c))
<1>1. PICK E \in SUBSET Stored : /\ E = Page(Event, c) /\ \A i \in E : rows[i].source = Event
                                 /\ Closed(Event, c, E) /\ E \cap live \subseteq E
                                 /\ \A j \in After(Event, c) : j \notin E => FullBelow(Event, E, j)
  BY PageIs DEF Sources
<1>2. found \subseteq F /\ F \cap live \subseteq found
  BY DEF Resolved
<1>3. PICK P \in SUBSET Stored : P = found \cup E
  BY <1>1, <1>2 DEF FramesRead
<1>4. Frame # Event /\ \A i \in found : rows[i].source # Event
  BY <1>2, LimitsAssumption DEF FramesRead, OfSource
<1>5. \A s \in Sources : Closed(s, c, P)
  <2>1. Closed(Frame, c, P)
    <3> SUFFICES ASSUME NEW z \in OfSource(P, Frame), NEW i \in After(Frame, c), i =< z PROVE i \in P
      BY DEF Closed
    <3>1. z \in OfSource(F, Frame)
      BY <1>1, <1>2, <1>3, <1>4 DEF OfSource
    <3>2. i \in F /\ i \in live
      BY <3>1 DEF FramesRead, Closed, After, OfSource
    <3> QED
      BY <1>2, <1>3, <3>2
  <2>2. Closed(Event, c, P)
    BY <1>1, <1>3, <1>4 DEF Closed, OfSource
  <2> QED
    BY <2>1, <2>2 DEF Sources
<1>6. \A j : Missed(Frame, c, P, j) => FullBelow(Frame, P, j)
  <2> SUFFICES ASSUME NEW j, Missed(Frame, c, P, j) PROVE FullBelow(Frame, P, j)
    OBVIOUS
  <2>1. Missed(Frame, c, F, j)
    BY <1>2, <1>3 DEF Missed, After, OfSource
  <2>2. FullBelow(Frame, F, j) /\ F \cap live \subseteq P
    BY <1>2, <1>3, <2>1 DEF FramesRead
  <2> QED
    BY <2>2, MoreIsFull DEF Sources
<1>7. \A j : Missed(Event, c, P, j) => FullBelow(Event, P, j)
  <2> SUFFICES ASSUME NEW j, Missed(Event, c, P, j) PROVE FullBelow(Event, P, j)
    OBVIOUS
  <2>1. FullBelow(Event, E, j) /\ E \cap live \subseteq P
    BY <1>1, <1>3 DEF Missed
  <2> QED
    BY <2>1, MoreIsFull DEF Sources
<1> QED
  BY <1>1, <1>3, <1>5, <1>6, <1>7 DEF PagesRead, Sources

(* Rows that are gone are left out. *)
LEMMA GoneAreLeftOut ==
  ASSUME CaptureTyped, NEW c, NEW P, PagesRead(c, P), NEW Q \in SUBSET P, P \cap live \subseteq Q
  PROVE  PagesRead(c, Q)
<1>1. Q \subseteq Stored
  BY DEF PagesRead
<1>2. ASSUME NEW s \in Sources PROVE Closed(s, c, Q)
  BY DEF PagesRead, Closed, After, OfSource
<1>3. ASSUME NEW s \in Sources, NEW j, Missed(s, c, Q, j)
      PROVE  FullBelow(s, Q, j) \/ \A k \in Q : k < j
  <2>1. Missed(s, c, P, j)
    BY <1>3 DEF Missed, After, OfSource
  <2>2. FullBelow(s, P, j) \/ \A k \in P : k < j
    BY <2>1 DEF PagesRead
  <2> QED
    BY <2>2, MoreIsFull
<1> QED
  BY <1>1, <1>2, <1>3 DEF PagesRead

(* What is let through by the compaction: every text of a window is let     *)
(* through, or is the text that was let through last.                       *)
Showing(S, text) == \E j \in S : rows[j].text = text

LEMMA CompactionKeeps ==
  ASSUME CaptureTyped, NEW W \in SUBSET Stored, NEW state
  PROVE  /\ Kept(W, state) \subseteq W
         /\ \A i \in W : Showing(Kept(W, state), rows[i].text)
                         \/ (state # NoRow /\ rows[i].text = rows[state].text)
         /\ Folded(W, state) = state \/ Folded(W, state) \in Kept(W, state)
<1>1. Kept(W, state) \subseteq W
  BY DEF Kept
<1>2. ASSUME NEW i \in W
      PROVE  Showing(Kept(W, state), rows[i].text) \/ (state # NoRow /\ rows[i].text = rows[state].text)
  <2>1. PICK same \in SUBSET W : same = {j \in W : rows[j].text = rows[i].text} /\ same # {}
    OBVIOUS
  <2>2. PICK times \in SUBSET Nat : times = {rows[j].time : j \in same} /\ times # {}
    <3>1. \A j \in same : rows[j].time \in Nat
      BY RowIs
    <3>2. {rows[j].time : j \in same} \in SUBSET Nat
      BY <3>1
    <3>3. {rows[j].time : j \in same} # {}
      BY <2>1
    <3> QED
      BY <3>2, <3>3
  <2>3. PICK first \in times : \A t \in times : first =< t
    BY <2>2, LeastExists
  <2>4. PICK e \in same : rows[e].time = first
    BY <2>2, <2>3
  <2>5. rows[e].text = rows[i].text /\ e \in W
    BY <2>1, <2>4
  <2>6. CASE rows[e].text \notin TextBefore(W, state, e)
    <3>1. e \in Kept(W, state)
      BY <2>5, <2>6 DEF Kept
    <3> QED
      BY <2>5, <3>1 DEF Showing
  <2>7. CASE rows[e].text \in TextBefore(W, state, e) /\ Before(W, e) # {}
    <3>1. PICK earlier \in SUBSET Stored : earlier = Before(W, e) /\ earlier # {}
      BY <2>7 DEF Before
    <3>2. PICK k \in earlier : k = LatestRow(earlier)
      BY <3>1, LatestIs
    <3>3. rows[e].text = rows[k].text
      BY <2>7, <3>1, <3>2 DEF TextBefore
    <3>4. k \in W /\ rows[k].time < rows[e].time /\ rows[k].time \in Nat /\ rows[e].time \in Nat
      BY <2>5, <3>1, <3>2, RowIs DEF Before
    <3>5. rows[k].time \in times
      BY <2>1, <2>2, <2>5, <3>3, <3>4
    <3> QED
      BY <2>3, <2>4, <3>4, <3>5
  <2>8. CASE rows[e].text \in TextBefore(W, state, e) /\ Before(W, e) = {}
    BY <2>5, <2>8 DEF TextBefore
  <2> QED
    BY <2>6, <2>7, <2>8
<1>3. Folded(W, state) = state \/ Folded(W, state) \in Kept(W, state)
  <2>1. PICK kept \in SUBSET Stored : kept = Kept(W, state)
    BY <1>1
  <2> QED
    BY <2>1, LatestIs DEF Folded
<1> QED
  BY <1>1, <1>2, <1>3

-----------------------------------------------------------------------------
(* The types of the tables and of a tick's locals. *)
Batches  == [prior : Cuts, last : Cuts]
Packets  == [rows : SUBSET Nat, context : Contexts]
Statuses == {"pending", "running", "accepted", "rejected"}

Locals == [start : Cuts, window : SUBSET Nat, prior : Cuts, batch : Batches \cup {NoBatch},
           packet : Packets \cup {NoPacket}, state : Nat \cup {NoRow},
           resume : BOOLEAN, repair : BOOLEAN]

Naming  == {"compact", "lookup", "find", "insert"}
Running == {"claim", "infer", "apply", "commit", "record_error", "record_invalid",
            "release", "reject", "error"}
Reading == {"frames", "events", "cut", "prior"}
Points  == {"idle", "window", "event_cursor", "checkpoint"} \cup Reading \cup Naming \cup Running

JobsTyped ==
  /\ jobs = [b \in BatchIds |-> jobs[b]] /\ BatchIds \subseteq Batches
  /\ \A b \in BatchIds : /\ jobs[b] \in [packet : Packets, status : Statuses]
                         /\ Within(b.last) /\ jobs[b].packet.rows \subseteq Stored

TypesFit ==
  /\ CaptureTyped /\ Fit(cursor) /\ compaction \in Nat \cup {NoRow} /\ JobsTyped
  /\ pc \in [Ticks -> Points] /\ local \in [Ticks -> Locals]

(* What a tick at p with the locals l may move the cursors to is a cut. *)
TickCut(p, l) ==
  /\ p = "event_cursor" => Taken(Frame, l.start[Frame])
  /\ p \in Reading => Begun(l.start)
  /\ p = "events" => FramesRead(l.start, l.window)
  /\ p = "cut" => PagesRead(l.start, l.window)
  /\ p = "prior" => l.window \subseteq Stored /\ Fit(LastOf(l.window, l.start))
  /\ p \in Naming \cup Running \cup {"checkpoint"} =>
       l.batch \in Batches /\ (~l.resume => Fit(l.batch.last))
  /\ p \in {"idle", "window", "event_cursor", "compact", "find", "insert", "checkpoint"} \cup Reading
       => ~l.resume
  /\ p = "compact" => l.window \subseteq Stored
  /\ p \in {"lookup", "find", "insert"} /\ ~l.resume =>
       l.packet \in Packets /\ l.packet.rows \subseteq Stored

-----------------------------------------------------------------------------
(* What the rows that the cursors pass owe to the jobs.  All of this holds  *)
(* while everything is deleted at rest only.                                *)
Good(text) == Offered(text) \/ Shadowed(text)

Beyond(c, i) == c[rows[i].source] < i
UpTo(c, i)   == i =< c[rows[i].source]
Crossed(i, b) == Beyond(b.prior, i) /\ UpTo(b.last, i) /\ ~Overtaken(i)
Reached(c) == \A s \in Sources : c[s] =< cursor[s]

(* The text of a compaction state is good, or of a row the batch consumes. *)
StateIsGood(state) == state # NoRow => state \in Stored /\ Good(rows[state].text)
StateIsSound(state, b) ==
  state # NoRow => /\ state \in Stored
                   /\ Good(rows[state].text) \/ (state \in live /\ UpTo(b.last, state))

TextsFit ==
  /\ \A i \in live : Behind(i) /\ ~Overtaken(i) => Good(rows[i].text)
  /\ \A b \in BatchIds : \A i \in live : Crossed(i, b) => Good(rows[i].text)
  /\ StateIsGood(compaction)

WindowHolds(l) ==
  /\ l.window \subseteq live
  /\ \A i \in live : Beyond(l.start, i) /\ UpTo(LastOf(l.window, l.start), i) /\ ~Overtaken(i)
                     => i \in l.window
BatchHolds(l) ==
  /\ l.window \subseteq live /\ \A i \in l.window : UpTo(l.batch.last, i)
  /\ \A i \in live : Crossed(i, l.batch) => i \in l.window
PacketHolds(l) ==
  \A i \in live : Crossed(i, l.batch) => Showing(l.packet.rows, rows[i].text) \/ Good(rows[i].text)
BatchIsGood(l) ==
  StateIsGood(l.state) /\ \A i \in live : Crossed(i, l.batch) => Good(rows[i].text)

TickText(p, l) ==
  ~l.resume =>
    /\ p = "event_cursor" => l.start[Frame] =< cursor[Frame]
    /\ p \in Reading => Reached(l.start)
    /\ p \in {"events", "cut"} => l.window \subseteq live
    /\ p = "prior" => /\ WindowHolds(l)
                      /\ l.start[Frame] =< l.prior[Frame] /\ l.prior[Frame] =< cursor[Frame]
    /\ p \in Naming \cup Running \cup {"checkpoint"} => Reached(l.batch.prior)
    /\ p = "compact" => BatchHolds(l)
    /\ p \in {"lookup", "find", "insert"} => PacketHolds(l)
    /\ p \in {"lookup", "find", "insert"} \cup Running => StateIsSound(l.state, l.batch)
    /\ p \in Running => l.batch \in BatchIds
    /\ p = "checkpoint" => BatchIsGood(l)

TickFit(p, l) == TickCut(p, l) /\ (WipeAtRest => TickText(p, l))

Inv == /\ TypesFit /\ (WipeAtRest => TextsFit)
       /\ \A w \in Ticks : TickFit(pc[w], local[w])

-----------------------------------------------------------------------------
(* A step of a tick that leaves the captured rows alone. *)
JobsGrow == \A b \in BatchIds : b \in BatchIds' /\ jobs'[b].packet = jobs[b].packet

Onward ==
  /\ UNCHANGED captureVars /\ JobsGrow
  /\ cursor' \in Cuts /\ \A s \in Sources : cursor[s] =< cursor'[s]

Moves(w, p, l) == pc' = [pc EXCEPT ![w] = p] /\ local' = [local EXCEPT ![w] = l]

LEMMA FreshFits == Fresh \in Locals /\ ~Fresh.resume /\ TickFit("idle", Fresh)
<1>1. [s \in Sources |-> 0] \in Cuts
  BY DEF Cuts
<1>2. Fresh \in Locals
  BY <1>1 DEF Fresh, Locals
<1>3. ~Fresh.resume
  BY DEF Fresh
<1>4. TickFit("idle", Fresh)
  BY <1>3 DEF TickFit, TickCut, TickText, Reading, Naming, Running
<1> QED
  BY <1>2, <1>3, <1>4

LEMMA CutStays ==
  ASSUME CaptureTyped, UNCHANGED captureVars, cursor \in Cuts, cursor' \in Cuts,
         \A s \in Sources : cursor[s] =< cursor'[s]
  PROVE  /\ Stored' = Stored /\ CaptureTyped' /\ \A c : Fit(c) => Fit(c)'
         /\ \A i : Overtaken(i)' = Overtaken(i)
<1>1. Stored' = Stored /\ CaptureTyped' /\ \A i : Overtaken(i)' = Overtaken(i)
  BY DEF captureVars, Stored, CaptureTyped, Overtaken
<1>2. ASSUME NEW c, Fit(c) PROVE Fit(c)'
  <2>1. UNCHANGED <<rows, live, doomed>> /\ \A i : Overtakes(i)' = Overtakes(i)
    BY DEF captureVars, Overtakes
  <2>2. \A j \in live : Ahead(c, j)' => Ahead(c, j)
    <3> SUFFICES ASSUME NEW j \in live, j > cursor'[rows[j].source]
                 PROVE  j > cursor[rows[j].source]
      BY <2>1 DEF Ahead
    <3>1. j \in Nat /\ rows[j].source \in Sources
      BY RowIs DEF CaptureTyped
    <3>2. /\ cursor[rows[j].source] \in Nat /\ cursor'[rows[j].source] \in Nat
          /\ cursor[rows[j].source] =< cursor'[rows[j].source]
      BY <3>1 DEF Cuts
    <3> QED
      BY <3>1, <3>2
  <2> QED
    BY <1>1, <1>2, <2>1, <2>2 DEF Fit, Within, CutAt
<1> QED
  BY <1>1, <1>2

LEMMA GoodStays ==
  ASSUME TypesFit, Onward, NEW text, Good(text)
  PROVE  Good(text)'
<1>1. UNCHANGED rows /\ \A b \in BatchIds : b \in BatchIds' /\ jobs'[b].packet = jobs[b].packet
  BY DEF Onward, JobsGrow, captureVars
<1>2. CASE Offered(text)
  <2>1. PICK b \in BatchIds : \E j \in jobs[b].packet.rows : rows[j].text = text
    BY <1>2 DEF Offered
  <2> QED
    BY <1>1, <2>1 DEF Offered, Good
<1>3. CASE Shadowed(text)
  <2>1. Shadowed(text)'
    BY <1>1, <1>3 DEF Shadowed, Overtaken
  <2> QED
    BY <2>1 DEF Good
<1> QED
  BY <1>2, <1>3 DEF Good

LEMMA CutOfTickStays ==
  ASSUME TypesFit, Onward, NEW p, NEW l, TickCut(p, l)
  PROVE  TickCut(p, l)'
<1>1. CaptureTyped /\ UNCHANGED captureVars /\ UNCHANGED rows
  BY DEF TypesFit, Onward, captureVars
<1>2. Stored' = Stored /\ \A c : Fit(c) => Fit(c)'
  BY <1>1, CutStays DEF TypesFit, Fit, Onward
<1>3. PICK d : d = LastOf(l.window, l.start)
  OBVIOUS
<1>4. LastOf(l.window, l.start)' = d
  BY <1>1, <1>3 DEF LastOf, OfSource
<1>5. Fit(d) => Fit(LastOf(l.window, l.start))'
  BY <1>2, <1>4 DEF Fit, CutAt, Within
<1>6. Fit(l.batch.last) => Fit(l.batch.last)'
  BY <1>2
<1>7. ASSUME NEW s \in Sources, NEW n, Taken(s, n) PROVE Taken(s, n)'
  <2>1. cursor[s] \in Nat /\ cursor'[s] \in Nat /\ cursor[s] =< cursor'[s]
    BY DEF TypesFit, Fit, Cuts, Onward
  <2>2. \A i \in live : i \in Nat
    BY <1>1, RowIs DEF CaptureTyped
  <2>3. UNCHANGED <<rows, live, doomed>>
    BY <1>1 DEF captureVars
  <2> QED
    BY <1>7, <2>1, <2>2, <2>3 DEF Taken
<1>8. p = "event_cursor" => Taken(Frame, l.start[Frame])'
  BY <1>7 DEF TickCut, Sources
<1>9. p \in Reading => Begun(l.start)'
  BY <1>7 DEF TickCut, Begun
<1>10. /\ FramesRead(l.start, l.window) => FramesRead(l.start, l.window)'
       /\ PagesRead(l.start, l.window) => PagesRead(l.start, l.window)'
  <2>1. UNCHANGED <<rows, live, doomed>>
    BY <1>1 DEF captureVars
  <2> QED
    BY <1>2, <2>1 DEF FramesRead, PagesRead, Closed, Missed, FullBelow, After, OfSource
<1> QED
  BY <1>2, <1>3, <1>5, <1>6, <1>8, <1>9, <1>10 DEF TickCut, Reading

LEMMA TextOfTickStays ==
  ASSUME TypesFit, Onward, NEW p, NEW l \in Locals, TickCut(p, l), TickText(p, l)
  PROVE  TickText(p, l)'
<1>1. CaptureTyped /\ UNCHANGED <<rows, live>> /\ Stored' = Stored /\ \A i : Overtaken(i)' = Overtaken(i)
  BY CutStays DEF TypesFit, Fit, Onward, captureVars
<1>2. \A text : Good(text) => Good(text)'
  BY GoodStays
<1>3. /\ \A c, i : Beyond(c, i)' = Beyond(c, i)
      /\ \A c, i : UpTo(c, i)' = UpTo(c, i)
  BY <1>1 DEF Beyond, UpTo
<1>4. \A i, b : Crossed(i, b)' = Crossed(i, b)
  BY <1>1, <1>3 DEF Crossed
<1>5. \A c \in Cuts : Reached(c) => Reached(c)'
  <2>1. \A s \in Sources : cursor[s] \in Nat /\ cursor'[s] \in Nat /\ cursor[s] =< cursor'[s]
    BY DEF TypesFit, Fit, Cuts, Onward
  <2> QED
    BY <2>1 DEF Reached, Cuts
<1>6. \A state : StateIsGood(state) => StateIsGood(state)'
  BY <1>1, <1>2 DEF StateIsGood
<1>7. \A state, b : StateIsSound(state, b) => StateIsSound(state, b)'
  BY <1>1, <1>2, <1>3 DEF StateIsSound
<1>8. \A S, text : Showing(S, text)' = Showing(S, text)
  BY <1>1 DEF Showing
<1>9. LastOf(l.window, l.start)' = LastOf(l.window, l.start)
  BY <1>1 DEF LastOf, OfSource
<1> SUFFICES ASSUME ~l.resume
             PROVE  TickText(p, l)'
  BY DEF TickText
<1>10. l.start \in Cuts /\ l.prior \in Cuts /\ (p \in Naming \cup Running \cup {"checkpoint"} => l.batch.prior \in Cuts)
  BY DEF Locals, TickCut, Batches
<1>11. /\ p = "prior" => WindowHolds(l)'
       /\ p \in {"events", "cut"} => l.window \subseteq live'
       /\ p \in Reading => Reached(l.start)'
  BY <1>1, <1>3, <1>5, <1>9, <1>10 DEF WindowHolds, TickText
<1>18. \A n \in Nat : n =< cursor[Frame] => n =< cursor'[Frame]
  <2>1. cursor[Frame] \in Nat /\ cursor'[Frame] \in Nat /\ cursor[Frame] =< cursor'[Frame]
    BY DEF TypesFit, Fit, Cuts, Onward, Sources
  <2> QED
    BY <2>1
<1>19. /\ p = "event_cursor" => l.start[Frame] =< cursor'[Frame]
       /\ p = "prior" => l.start[Frame] =< l.prior[Frame] /\ l.prior[Frame] =< cursor'[Frame]
  BY <1>10, <1>18 DEF TickText, Cuts, Sources
<1>12. p \in Naming \cup Running \cup {"checkpoint"} => Reached(l.batch.prior)'
  BY <1>5, <1>10 DEF TickText
<1>13. p = "compact" => BatchHolds(l)'
  BY <1>1, <1>3, <1>4 DEF BatchHolds, TickText
<1>14. p \in {"lookup", "find", "insert"} => PacketHolds(l)'
  BY <1>1, <1>2, <1>4, <1>8 DEF PacketHolds, TickText
<1>15. p \in {"lookup", "find", "insert"} \cup Running => StateIsSound(l.state, l.batch)'
  BY <1>7 DEF TickText
<1>16. p \in Running => l.batch \in BatchIds'
  BY DEF TickText, Onward, JobsGrow
<1>17. p = "checkpoint" => BatchIsGood(l)'
  BY <1>1, <1>2, <1>4, <1>6 DEF BatchIsGood, TickText
<1> QED
  BY <1>11, <1>12, <1>13, <1>14, <1>15, <1>16, <1>17, <1>19 DEF TickText

(* One tick moves; the others know what they knew. *)
LEMMA TickMoves ==
  ASSUME Inv, Onward, NEW w \in Ticks, NEW p \in Points, NEW l \in Locals, Moves(w, p, l),
         Fit(cursor)', (compaction \in Nat \cup {NoRow})', JobsTyped',
         WipeAtRest => TextsFit', TickFit(p, l)'
  PROVE  Inv'
<1>1. pc' = [pc EXCEPT ![w] = p] /\ local' = [local EXCEPT ![w] = l] /\ TypesFit
  BY DEF Inv, Moves
<1>2. pc' \in [Ticks -> Points] /\ local' \in [Ticks -> Locals]
  BY <1>1 DEF TypesFit
<1>3. CaptureTyped'
  BY <1>1, CutStays DEF TypesFit, Fit, Onward
<1>4. TypesFit'
  BY <1>2, <1>3 DEF TypesFit
<1>5. ASSUME NEW v \in Ticks
      PROVE  TickFit(pc[v], local[v])'
  <2>1. PICK q \in Points, k \in Locals : q = pc'[v] /\ k = local'[v]
    BY <1>2
  <2>2. TickFit(q, k)'
    <3>1. CASE v = w
      <4>1. q = p /\ k = l
        BY <1>1, <2>1, <3>1 DEF TypesFit
      <4> QED
        BY <4>1
    <3>2. CASE v # w
      <4>1. q = pc[v] /\ k = local[v]
        BY <1>1, <2>1, <3>2 DEF TypesFit
      <4>2. TickFit(q, k)
        BY <4>1 DEF Inv
      <4>3. TickCut(q, k)'
        BY <1>1, <4>2, CutOfTickStays DEF TickFit
      <4>4. ASSUME WipeAtRest PROVE TickText(q, k)'
        BY <1>1, <4>2, <4>4, TextOfTickStays DEF TickFit
      <4> QED
        BY <4>3, <4>4 DEF TickFit
    <3> QED
      BY <3>1, <3>2
  <2> QED
    BY <2>1, <2>2 DEF TickFit, TickCut, TickText, WindowHolds, BatchHolds, PacketHolds, BatchIsGood
<1> QED
  BY <1>4, <1>5 DEF Inv

(* Neither the captured rows nor the tables change. *)
LEMMA SameStore ==
  ASSUME TypesFit, UNCHANGED <<captureVars, storeVars>>
  PROVE  /\ Onward /\ CaptureTyped' /\ Fit(cursor)' /\ JobsTyped' /\ (compaction \in Nat \cup {NoRow})'
         /\ (TextsFit => TextsFit')
<1>1. UNCHANGED <<rows, live, doomed, cursor, compaction, jobs>> /\ UNCHANGED captureVars
  BY DEF captureVars, storeVars
<1>2. Onward
  <2>1. cursor \in [Sources -> Nat]
    BY DEF TypesFit, Fit, Cuts
  <2> QED
    BY <1>1, <2>1 DEF Onward, JobsGrow, Cuts, BatchIds
<1>3. CaptureTyped'
  BY <1>1, <1>2, CutStays DEF TypesFit, Fit, Onward
<1>4. Fit(cursor)'
  BY <1>1 DEF TypesFit, Fit, Within, CutAt, Ahead, Overtaken, Overtakes
<1>5. JobsTyped'
  BY <1>1 DEF TypesFit, JobsTyped, Within, Stored, BatchIds
<1>6. TextsFit => TextsFit'
  <2>1. \A text : Good(text)' = Good(text)
    BY <1>1 DEF Good, Offered, Shadowed, Overtaken, BatchIds
  <2>2. \A i, b : Crossed(i, b)' = Crossed(i, b)
    BY <1>1 DEF Crossed, Beyond, UpTo, Overtaken
  <2>3. StateIsGood(compaction)' = StateIsGood(compaction)
    BY <1>1, <2>1 DEF StateIsGood, Stored
  <2>4. \A i : Behind(i)' = Behind(i) /\ Overtaken(i)' = Overtaken(i)
    BY <1>1 DEF Behind, Overtaken
  <2> QED
    BY <1>1, <2>1, <2>2, <2>3, <2>4 DEF TextsFit, BatchIds
<1> QED
  BY <1>1, <1>2, <1>3, <1>4, <1>5, <1>6 DEF TypesFit

(* One tick moves, and nothing but its own locals changes. *)
LEMMA QuietMove ==
  ASSUME Inv, UNCHANGED <<captureVars, storeVars>>, NEW w \in Ticks,
         NEW p \in Points, NEW l \in Locals, Moves(w, p, l), TickFit(p, l)
  PROVE  Inv'
<1>1. TypesFit /\ Onward
  BY SameStore DEF Inv
<1>2. TickCut(p, l)' /\ (WipeAtRest => TickText(p, l)')
  BY <1>1, CutOfTickStays, TextOfTickStays DEF TickFit
<1>3. /\ Fit(cursor)' /\ JobsTyped' /\ (compaction \in Nat \cup {NoRow})'
      /\ WipeAtRest => TextsFit'
  BY <1>1, SameStore DEF Inv
<1> QED
  BY <1>1, <1>2, <1>3, TickMoves DEF TickFit

LEMMA Leaving ==
  ASSUME Inv, UNCHANGED <<captureVars, storeVars>>, NEW w \in Ticks, Leave(w)
  PROVE  Inv'
<1>1. Moves(w, "idle", Fresh)
  BY DEF Leave, GoesTo, Moves
<1> QED
  BY <1>1, FreshFits, QuietMove DEF Points

LEMMA KeepsLocals ==
  ASSUME Inv, NEW w \in Ticks, NEW p \in Points, GoesTo(w, p), UNCHANGED local
  PROVE  Moves(w, p, local[w])
BY DEF Inv, TypesFit, GoesTo, Moves

-----------------------------------------------------------------------------
(* The steps of a tick, up to the name of its batch. *)
LEMMA StartTickFits ==
  ASSUME Inv, NEW w \in Ticks, StartTick(w)
  PROVE  Inv'
<1>1. PICK l0 \in Locals : l0 = local[w] /\ TickFit(pc[w], l0)
  BY DEF Inv, TypesFit
<1>2. UNCHANGED <<captureVars, storeVars>> /\ pc[w] = "idle"
  BY DEF StartTick
<1>3. CASE \E b \in Unfinished : /\ local' = [local EXCEPT ![w].batch = b, ![w].resume = TRUE]
                                 /\ GoesTo(w, "lookup")
  <2>1. PICK b \in Unfinished : /\ local' = [local EXCEPT ![w].batch = b, ![w].resume = TRUE]
                                /\ GoesTo(w, "lookup")
    BY <1>3
  <2>2. b \in Batches
    BY DEF Unfinished, Inv, TypesFit, JobsTyped
  <2>3. PICK l \in Locals : l = [l0 EXCEPT !.batch = b, !.resume = TRUE] /\ l.batch = b /\ l.resume
    <3>1. /\ [l0 EXCEPT !.batch = b, !.resume = TRUE] \in Locals
          /\ [l0 EXCEPT !.batch = b, !.resume = TRUE].batch = b
          /\ [l0 EXCEPT !.batch = b, !.resume = TRUE].resume
      BY <2>2 DEF Locals
    <3> QED
      BY <3>1
  <2>4. Moves(w, "lookup", l)
    BY <1>1, <2>1, <2>3 DEF Moves, GoesTo, Inv, TypesFit
  <2>5. TickFit("lookup", l)
    BY <2>2, <2>3 DEF TickFit, TickCut, TickText, Reading, Naming, Running
  <2> QED
    BY <1>2, <2>4, <2>5, QuietMove DEF Points, Naming
<1>4. CASE GoesTo(w, "window") /\ UNCHANGED local
  <2>1. Moves(w, "window", l0)
    BY <1>1, <1>4, KeepsLocals DEF Points
  <2>2. TickFit("window", l0)
    BY <1>1, <1>2 DEF TickFit, TickCut, TickText, Reading, Naming, Running
  <2> QED
    BY <1>2, <2>1, <2>2, QuietMove DEF Points
<1> QED
  BY <1>3, <1>4 DEF StartTick

LEMMA WithStart ==
  ASSUME NEW l0 \in Locals, NEW c \in Cuts
  PROVE  \E l \in Locals : l = [l0 EXCEPT !.start = c] /\ l.start = c /\ l.resume = l0.resume
<1>1. /\ [l0 EXCEPT !.start = c] \in Locals
      /\ [l0 EXCEPT !.start = c].start = c
      /\ [l0 EXCEPT !.start = c].resume = l0.resume
  BY DEF Locals
<1> QED
  BY <1>1

LEMMA WithWindow ==
  ASSUME NEW l0 \in Locals, NEW S \in SUBSET Nat
  PROVE  \E l \in Locals : /\ l = [l0 EXCEPT !["window"] = S] /\ l.window = S
                           /\ l.start = l0.start /\ l.resume = l0.resume
<1>1. /\ [l0 EXCEPT !["window"] = S] \in Locals
      /\ [l0 EXCEPT !["window"] = S].window = S
      /\ [l0 EXCEPT !["window"] = S].start = l0.start
      /\ [l0 EXCEPT !["window"] = S].resume = l0.resume
  BY DEF Locals
<1> QED
  BY <1>1

LEMMA ReadFrameCursorFits ==
  ASSUME Inv, NEW w \in Ticks, ReadFrameCursor(w)
  PROVE  Inv'
<1>1. PICK l0 \in Locals : l0 = local[w] /\ TickFit(pc[w], l0)
  BY DEF Inv, TypesFit
<1>2. UNCHANGED <<captureVars, storeVars>> /\ pc[w] = "window"
  BY DEF ReadFrameCursor
<1>3. PICK n \in Nat : n = cursor[Frame] /\ n =< Len(rows)
  BY DEF Inv, TypesFit, Fit, Cuts, Within, Sources
<1>4. PICK c \in Cuts : c = [l0.start EXCEPT ![Frame] = n] /\ c[Frame] = n
  <2>1. l0.start \in Cuts /\ Frame \in Sources
    BY DEF Locals, Sources
  <2>2. [l0.start EXCEPT ![Frame] = n] \in Cuts /\ [l0.start EXCEPT ![Frame] = n][Frame] = n
    BY <2>1 DEF Cuts
  <2> QED
    BY <2>2
<1>5. PICK l \in Locals : l = [l0 EXCEPT !.start = c] /\ l.start = c /\ l.resume = l0.resume
  BY WithStart
<1>6. Moves(w, "event_cursor", l)
  BY <1>1, <1>3, <1>4, <1>5 DEF ReadFrameCursor, Moves, GoesTo, Inv, TypesFit, Locals, Cuts
<1>7. Taken(Frame, n)
  BY <1>3 DEF Taken
<1>8. ~l.resume
  BY <1>1, <1>2, <1>5 DEF TickFit, TickCut
<1>9. TickFit("event_cursor", l)
  BY <1>3, <1>4, <1>5, <1>7, <1>8 DEF TickFit, TickCut, TickText, Reading, Naming, Running
<1> QED
  BY <1>2, <1>6, <1>9, QuietMove DEF Points

LEMMA ReadEventCursorFits ==
  ASSUME Inv, NEW w \in Ticks, ReadEventCursor(w)
  PROVE  Inv'
<1>1. PICK l0 \in Locals : l0 = local[w] /\ TickFit(pc[w], l0)
  BY DEF Inv, TypesFit
<1>2. UNCHANGED <<captureVars, storeVars>> /\ pc[w] = "event_cursor"
  BY DEF ReadEventCursor
<1>3. PICK n \in Nat : n = cursor[Event] /\ n =< Len(rows)
  BY DEF Inv, TypesFit, Fit, Cuts, Within, Sources
<1>4. PICK c \in Cuts : c = [l0.start EXCEPT ![Event] = n] /\ c[Event] = n /\ c[Frame] = l0.start[Frame]
  <2>1. l0.start \in Cuts /\ Frame \in Sources /\ Event \in Sources /\ Frame # Event
    BY LimitsAssumption DEF Locals, Sources
  <2>2. /\ [l0.start EXCEPT ![Event] = n] \in Cuts /\ [l0.start EXCEPT ![Event] = n][Event] = n
        /\ [l0.start EXCEPT ![Event] = n][Frame] = l0.start[Frame]
    BY <2>1 DEF Cuts
  <2> QED
    BY <2>2
<1>5. PICK l \in Locals : l = [l0 EXCEPT !.start = c] /\ l.start = c /\ l.resume = l0.resume
  BY WithStart
<1>6. Moves(w, "frames", l)
  BY <1>1, <1>3, <1>4, <1>5 DEF ReadEventCursor, Moves, GoesTo, Inv, TypesFit, Locals, Cuts
<1>7. Begun(c)
  <2>1. Taken(Frame, c[Frame])
    BY <1>1, <1>2, <1>4 DEF TickFit, TickCut
  <2>2. Taken(Event, c[Event])
    BY <1>3, <1>4 DEF Taken
  <2> QED
    BY <2>1, <2>2 DEF Begun, Sources
<1>8. ~l.resume
  BY <1>1, <1>2, <1>5 DEF TickFit, TickCut
<1>9. TickCut("frames", l)
  BY <1>5, <1>7, <1>8 DEF TickCut, Reading, Naming, Running
<1>10. ASSUME WipeAtRest PROVE TickText("frames", l)
  <2>1. c[Frame] =< cursor[Frame]
    BY <1>1, <1>2, <1>4, <1>5, <1>8, <1>10 DEF TickFit, TickText
  <2>2. Reached(c)
    BY <1>3, <1>4, <2>1 DEF Reached, Sources
  <2> QED
    BY <1>5, <2>2 DEF TickText, Reading, Naming, Running
<1> QED
  BY <1>2, <1>6, <1>9, <1>10, QuietMove DEF Points, Reading, TickFit

LEMMA ReadFramesFits ==
  ASSUME Inv, NEW w \in Ticks, ReadFrames(w)
  PROVE  Inv'
<1>1. PICK l0 \in Locals : l0 = local[w] /\ TickFit(pc[w], l0)
  BY DEF Inv, TypesFit
<1>2. UNCHANGED <<captureVars, storeVars>> /\ pc[w] = "frames" /\ CaptureTyped
  BY DEF ReadFrames, Inv, TypesFit
<1>3. PICK c \in Cuts : c = l0.start /\ Begun(c) /\ ~l0.resume
  BY <1>1, <1>2 DEF TickFit, TickCut, Reading, Locals
<1>4. PICK F \in SUBSET Stored :
        /\ F = Page(Frame, c) /\ F \subseteq live /\ \A i \in F : rows[i].source = Frame
        /\ Closed(Frame, c, F)
        /\ \A j \in After(Frame, c) : j \notin F => FullBelow(Frame, F, j)
  BY <1>2, PageIs DEF Sources
<1>5. PICK l \in Locals : /\ l = [l0 EXCEPT !["window"] = F] /\ l.window = F
                          /\ l.start = c /\ l.resume = l0.resume
  <2>1. F \in SUBSET Nat
    BY <1>2, RowIs
  <2> QED
    BY <1>3, <2>1, WithWindow
<1>6. Moves(w, "events", l)
  BY <1>1, <1>3, <1>4, <1>5 DEF ReadFrames, Set, Moves, GoesTo, Inv, TypesFit
<1>7. FramesRead(c, F)
  <2>1. OfSource(F, Event) = {}
    BY <1>4, LimitsAssumption DEF OfSource
  <2> QED
    BY <1>4, <2>1 DEF FramesRead, Missed
<1>8. TickCut("events", l)
  BY <1>3, <1>5, <1>7 DEF TickCut, Reading, Naming, Running
<1>9. ASSUME WipeAtRest PROVE TickText("events", l)
  <2>1. Reached(c)
    BY <1>1, <1>2, <1>3, <1>9 DEF TickFit, TickText, Reading
  <2> QED
    BY <1>4, <1>5, <2>1 DEF TickText, Reading, Naming, Running
<1> QED
  BY <1>2, <1>6, <1>8, <1>9, QuietMove DEF Points, Reading, TickFit

LEMMA ReadEventsFits ==
  ASSUME Inv, NEW w \in Ticks, ReadEvents(w)
  PROVE  Inv'
<1>1. PICK l0 \in Locals : l0 = local[w] /\ TickFit(pc[w], l0)
  BY DEF Inv, TypesFit
<1>2. UNCHANGED <<captureVars, storeVars>> /\ pc[w] = "events" /\ CaptureTyped
  BY DEF ReadEvents, Inv, TypesFit
<1>3. PICK c \in Cuts : c = l0.start /\ Begun(c) /\ ~l0.resume /\ FramesRead(c, l0.window)
  BY <1>1, <1>2 DEF TickFit, TickCut, Reading, Locals
<1>4. PICK found \in Resolved(l0.window) : Set(w, "window", found \cup Page(Event, c))
  BY <1>1, <1>3 DEF ReadEvents
<1>5. PICK P \in SUBSET Stored : P = found \cup Page(Event, c) /\ PagesRead(c, P)
  <2>1. PagesRead(c, found \cup Page(Event, c))
    BY <1>2, <1>3, <1>4, BothAreRead
  <2>2. found \cup Page(Event, c) \subseteq Stored
    BY <2>1 DEF PagesRead
  <2> QED
    BY <2>1, <2>2
<1>6. PICK l \in Locals : /\ l = [l0 EXCEPT !["window"] = P] /\ l.window = P
                          /\ l.start = c /\ l.resume = l0.resume
  <2>1. P \in SUBSET Nat
    BY <1>2, RowIs
  <2> QED
    BY <1>3, <2>1, WithWindow
<1>7. Moves(w, "cut", l)
  BY <1>1, <1>4, <1>5, <1>6 DEF ReadEvents, Set, Moves, GoesTo, Inv, TypesFit
<1>8. TickCut("cut", l)
  BY <1>3, <1>5, <1>6 DEF TickCut, Reading, Naming, Running
<1>9. ASSUME WipeAtRest PROVE TickText("cut", l)
  <2>1. Reached(c) /\ l0.window \subseteq live
    BY <1>1, <1>2, <1>3, <1>9 DEF TickFit, TickText, Reading
  <2>2. found \subseteq live /\ Page(Event, c) \subseteq live
    BY <1>2, <2>1, PageIs DEF Resolved, Sources
  <2> QED
    BY <1>5, <1>6, <2>1, <2>2 DEF TickText, Reading, Naming, Running
<1> QED
  BY <1>2, <1>7, <1>8, <1>9, QuietMove DEF Points, Reading, TickFit

LEMMA CutWindowFits ==
  ASSUME Inv, NEW w \in Ticks, CutWindow(w)
  PROVE  Inv'
<1>1. PICK l0 \in Locals : l0 = local[w] /\ TickFit(pc[w], l0)
  BY DEF Inv, TypesFit
<1>2. UNCHANGED <<captureVars, storeVars>> /\ pc[w] = "cut" /\ CaptureTyped /\ Fit(cursor)
  BY DEF CutWindow, Inv, TypesFit
<1>3. PICK c \in Cuts : c = l0.start /\ Begun(c) /\ ~l0.resume /\ PagesRead(c, l0.window)
  BY <1>1, <1>2 DEF TickFit, TickCut, Reading, Locals
<1>4. PICK found \in Resolved(OfSource(l0.window, Event)) :
        local' = [local EXCEPT
          ![w].window = Merged(OfSource(l0.window, Frame) \cup found, BatchLimit),
          ![w].prior[Frame] = cursor[Frame]]
  BY <1>1 DEF CutWindow
<1>5. PICK P \in SUBSET Stored : P = OfSource(l0.window, Frame) \cup found /\ PagesRead(c, P) /\ P \subseteq l0.window
  <2>1. l0.window \subseteq Stored
    BY <1>3 DEF PagesRead
  <2>2. \A i \in l0.window : rows[i].source \in Sources
    BY <1>2, <2>1, RowIs
  <2>3. PICK P : P = OfSource(l0.window, Frame) \cup found
    OBVIOUS
  <2>4. P \in SUBSET l0.window /\ l0.window \cap live \subseteq P
    BY <2>2, <2>3 DEF OfSource, Resolved, Sources
  <2> QED
    BY <1>2, <1>3, <2>1, <2>3, <2>4, GoneAreLeftOut
<1>6. PICK W \in SUBSET P : W = Merged(P, BatchLimit)
  BY DEF Merged, Earliest
<1>7. PICK prior \in Cuts : prior = [l0.prior EXCEPT ![Frame] = cursor[Frame]] /\ prior[Frame] = cursor[Frame]
  <2>1. cursor[Frame] \in Nat /\ l0.prior \in Cuts /\ Frame \in Sources
    BY <1>2 DEF Fit, Cuts, Sources, Locals
  <2>2. /\ [l0.prior EXCEPT ![Frame] = cursor[Frame]] \in Cuts
        /\ [l0.prior EXCEPT ![Frame] = cursor[Frame]][Frame] = cursor[Frame]
    BY <2>1 DEF Cuts
  <2> QED
    BY <2>2
<1>8. PICK l \in Locals : /\ l = [l0 EXCEPT !.window = W, !.prior = prior] /\ l.window = W
                          /\ l.start = c /\ l.prior = prior /\ l.resume = l0.resume
  <2>1. W \in SUBSET Nat
    BY <1>2, RowIs
  <2>2. /\ [l0 EXCEPT !.window = W, !.prior = prior] \in Locals
        /\ [l0 EXCEPT !.window = W, !.prior = prior].window = W
        /\ [l0 EXCEPT !.window = W, !.prior = prior].start = l0.start
        /\ [l0 EXCEPT !.window = W, !.prior = prior].prior = prior
        /\ [l0 EXCEPT !.window = W, !.prior = prior].resume = l0.resume
    BY <2>1 DEF Locals
  <2> QED
    BY <1>3, <2>2
<1>9. Moves(w, "prior", l)
  <2>1. local' = [local EXCEPT ![w].window = W, ![w].prior[Frame] = cursor[Frame]]
    BY <1>4, <1>5, <1>6
  <2>2. local'= [local EXCEPT ![w] = l]
    BY <1>1, <1>7, <1>8, <2>1 DEF Inv, TypesFit, Locals
  <2> QED
    BY <2>2 DEF CutWindow, Moves, GoesTo
<1>10. Fit(LastOf(W, c))
  BY <1>2, <1>3, <1>5, <1>6, WindowCuts
<1>11. TickCut("prior", l)
  BY <1>3, <1>6, <1>8, <1>10 DEF TickCut, Reading, Naming, Running
<1>12. ASSUME WipeAtRest PROVE TickText("prior", l)
  <2>1. Reached(c) /\ l0.window \subseteq live
    BY <1>1, <1>2, <1>3, <1>12 DEF TickFit, TickText, Reading
  <2>2. \A i \in live : Beyond(c, i) /\ UpTo(LastOf(W, c), i) /\ ~Overtaken(i) => i \in W
    <3> SUFFICES ASSUME NEW i \in live, Beyond(c, i), UpTo(LastOf(W, c), i), ~Overtaken(i)
                 PROVE  i \in W
      OBVIOUS
    <3>1. i \in Nat /\ c[rows[i].source] \in Nat
      BY <1>2, RowIs DEF CaptureTyped, Cuts
    <3>2. i > c[rows[i].source] /\ i =< LastOf(Merged(P, BatchLimit), c)[rows[i].source]
      BY <1>6, <3>1 DEF Beyond, UpTo
    <3>3. Within(c) /\ \A s \in Sources : Closed(s, c, P)
      BY <1>3, <1>5 DEF Begun, Taken, Within, PagesRead
    <3> QED
      BY <1>2, <1>6, <3>2, <3>3, PassedIsSeen
  <2>3. WindowHolds(l)
    BY <1>5, <1>6, <1>8, <2>1, <2>2 DEF WindowHolds
  <2>4. c[Frame] =< cursor[Frame] /\ cursor[Frame] \in Nat
    BY <1>2, <2>1 DEF Reached, Sources, Fit, Cuts
  <2> QED
    BY <1>7, <1>8, <2>1, <2>3, <2>4 DEF TickText, Reading, Naming, Running
<1> QED
  BY <1>2, <1>9, <1>11, <1>12, QuietMove DEF Points, Reading, TickFit

LEMMA ReadPriorFits ==
  ASSUME Inv, NEW w \in Ticks, ReadPrior(w)
  PROVE  Inv'
<1>1. PICK l0 \in Locals : l0 = local[w] /\ TickFit(pc[w], l0)
  BY DEF Inv, TypesFit
<1>2. UNCHANGED <<captureVars, storeVars>> /\ pc[w] = "prior" /\ cursor \in Cuts
  BY DEF ReadPrior, Inv, TypesFit, Fit
<1>3. PICK last \in Cuts : last = LastOf(l0.window, l0.start) /\ Fit(last)
  BY <1>1, <1>2 DEF TickFit, TickCut, Fit
<1>4. PICK prior \in Cuts : /\ prior = [l0.prior EXCEPT ![Event] = cursor[Event]]
                            /\ prior[Event] = cursor[Event] /\ prior[Frame] = l0.prior[Frame]
  <2>1. /\ cursor[Event] \in Nat /\ l0.prior \in Cuts
        /\ Event \in Sources /\ Frame \in Sources /\ Frame # Event
    BY <1>2, LimitsAssumption DEF Cuts, Sources, Locals
  <2>2. /\ [l0.prior EXCEPT ![Event] = cursor[Event]] \in Cuts
        /\ [l0.prior EXCEPT ![Event] = cursor[Event]][Event] = cursor[Event]
        /\ [l0.prior EXCEPT ![Event] = cursor[Event]][Frame] = l0.prior[Frame]
    BY <2>1 DEF Cuts
  <2> QED
    BY <2>2
<1>5. CASE Leave(w)
  BY <1>2, <1>5, Leaving
<1>6. CASE Set(w, "batch", [prior |-> prior, last |-> last]) /\ GoesTo(w, "compact")
  <2>1. PICK b \in Batches : b = [prior |-> prior, last |-> last] /\ b.prior = prior /\ b.last = last
    <3>1. /\ [prior |-> prior, last |-> last] \in Batches
          /\ [prior |-> prior, last |-> last].prior = prior
          /\ [prior |-> prior, last |-> last].last = last
      BY DEF Batches
    <3> QED
      BY <3>1
  <2>2. PICK l \in Locals : /\ l = [l0 EXCEPT !["batch"] = b] /\ l.batch = b
                            /\ l.window = l0.window /\ l.resume = l0.resume
    <3>1. /\ [l0 EXCEPT !["batch"] = b] \in Locals /\ [l0 EXCEPT !["batch"] = b].batch = b
          /\ [l0 EXCEPT !["batch"] = b].window = l0.window
          /\ [l0 EXCEPT !["batch"] = b].resume = l0.resume
      BY DEF Locals
    <3> QED
      BY <3>1
  <2>3. Moves(w, "compact", l)
    BY <1>1, <1>6, <2>1, <2>2 DEF Set, Moves, GoesTo, Inv, TypesFit
  <2>4. ~l.resume /\ ~l0.resume /\ l.window \subseteq Stored /\ Within(l0.start)
    BY <1>1, <1>2, <2>2 DEF TickFit, TickCut, Reading, Begun, Taken, Within
  <2>5. TickCut("compact", l)
    BY <1>3, <2>1, <2>2, <2>4 DEF TickCut, Reading, Naming, Running
  <2>6. ASSUME WipeAtRest PROVE TickText("compact", l)
    <3>1. /\ WindowHolds(l0) /\ Reached(l0.start)
          /\ l0.start[Frame] =< l0.prior[Frame] /\ l0.prior[Frame] =< cursor[Frame]
      BY <1>1, <1>2, <2>4, <2>6 DEF TickFit, TickText, Reading
    <3>2. PICK start \in Cuts, W \in SUBSET Stored : /\ start = l0.start /\ W = l0.window /\ W = l.window
                                                     /\ Within(start) /\ last = LastOf(W, start)
      BY <1>3, <2>2, <2>4 DEF Locals
    <3>3. \A s \in Sources : /\ start[s] =< prior[s] /\ prior[s] =< cursor[s]
                             /\ start[s] \in Nat /\ prior[s] \in Nat
      <4>1. start[Event] =< cursor[Event] /\ cursor[Event] \in Nat
        BY <1>2, <3>1, <3>2 DEF Reached, Sources, Cuts
      <4> QED
        BY <1>4, <3>1, <3>2, <4>1 DEF Sources, Cuts
    <3>4. \A i \in live : Crossed(i, b) => i \in W
      <4>1. \A i \in live : i \in Nat /\ rows[i].source \in Sources
        BY RowIs DEF Inv, TypesFit, CaptureTyped
      <4>2. \A i \in live : Beyond(b.prior, i) => Beyond(start, i)
        BY <2>1, <3>3, <4>1 DEF Beyond
      <4> QED
        BY <2>1, <3>1, <3>2, <4>2 DEF Crossed, WindowHolds
    <3>5. \A i \in W : UpTo(last, i)
      <4>1. CaptureTyped /\ \A i \in W : rows[i].source \in Sources /\ i \in OfSource(W, rows[i].source)
        BY RowIs DEF Inv, TypesFit, OfSource
      <4> QED
        BY <3>2, <4>1, LastIs DEF UpTo
    <3>6. W \subseteq live
      BY <3>1, <3>2 DEF WindowHolds
    <3>7. Reached(b.prior)
      BY <2>1, <3>3 DEF Reached
    <3>8. BatchHolds(l)
      BY <2>1, <2>2, <3>2, <3>4, <3>5, <3>6 DEF BatchHolds
    <3> QED
      BY <2>2, <3>7, <3>8 DEF TickText, Reading, Running
  <2> QED
    BY <1>2, <2>3, <2>5, <2>6, QuietMove DEF Points, Naming, TickFit
<1> QED
  BY <1>1, <1>3, <1>4, <1>5, <1>6 DEF ReadPrior

LEMMA CompactFits ==
  ASSUME Inv, NEW w \in Ticks, Compact(w)
  PROVE  Inv'
<1>1. PICK l0 \in Locals : l0 = local[w] /\ TickFit(pc[w], l0)
  BY DEF Inv, TypesFit
<1>2. UNCHANGED <<captureVars, storeVars>> /\ pc[w] = "compact"
  BY DEF Compact
<1>3. PICK W \in SUBSET Stored, b \in Batches : W = l0.window /\ b = l0.batch /\ Fit(b.last) /\ ~l0.resume
  BY <1>1, <1>2 DEF TickFit, TickCut, Naming
<1>4. PICK state : state = Folded(W, compaction)
  OBVIOUS
<1>5. PICK kept \in SUBSET W : kept = Kept(W, compaction)
  BY <1>3, CompactionKeeps DEF Inv, TypesFit
<1>6. CaptureTyped /\ compaction \in Nat \cup {NoRow} /\ kept \in SUBSET Nat /\ kept \subseteq Stored
  BY <1>3, <1>5, RowIs DEF Inv, TypesFit
<1>7. /\ \A i \in W : Showing(kept, rows[i].text)
                      \/ (compaction # NoRow /\ rows[i].text = rows[compaction].text)
      /\ state = compaction \/ (state \in kept /\ kept # {})
      /\ kept = {} => state = compaction
  <2>1. \A i \in W : Showing(Kept(W, compaction), rows[i].text)
                   \/ (compaction # NoRow /\ rows[i].text = rows[compaction].text)
    BY <1>6, CompactionKeeps
  <2>2. Folded(W, compaction) = compaction \/ Folded(W, compaction) \in Kept(W, compaction)
    BY <1>6, CompactionKeeps
  <2>3. kept = {} => state = compaction
    BY <1>4, <1>5 DEF Folded
  <2>4. state = compaction \/ (state \in kept /\ kept # {})
    BY <1>4, <1>5, <2>2
  <2> QED
    BY <1>5, <2>1, <2>3, <2>4
<1>8. PICK c \in Contexts, p \in {"checkpoint", "lookup"} :
        /\ local' = [local EXCEPT ![w] = [Fresh EXCEPT !.batch = b, !.packet = [rows |-> kept, context |-> c],
                                                       !.state = state]]
        /\ GoesTo(w, p) /\ (p = "checkpoint" <=> kept = {})
  <2>1. PICK c \in Contexts :
        local' = [local EXCEPT ![w] = [Fresh EXCEPT !.batch = b, !.packet = [rows |-> kept, context |-> c],
                                                       !.state = state]]
    BY <1>1, <1>3, <1>4, <1>5 DEF Compact
  <2>2. GoesTo(w, IF kept = {} THEN "checkpoint" ELSE "lookup")
    BY <1>1, <1>3, <1>4, <1>5 DEF Compact
  <2> QED
    BY <2>1, <2>2
<1>9. PICK packet \in Packets : packet = [rows |-> kept, context |-> c] /\ packet.rows = kept
  <2>1. /\ [rows |-> kept, context |-> c] \in Packets
        /\ [rows |-> kept, context |-> c].rows = kept
    BY <1>6 DEF Packets
  <2> QED
    BY <2>1
<1>10. state \in Nat \cup {NoRow}
  BY <1>6, <1>7
<1>11. PICK l \in Locals : /\ l = [Fresh EXCEPT !.batch = b, !.packet = packet, !.state = state]
                           /\ l.batch = b /\ l.packet = packet /\ l.state = state /\ ~l.resume
  <2>1. /\ [Fresh EXCEPT !.batch = b, !.packet = packet, !.state = state] \in Locals
        /\ [Fresh EXCEPT !.batch = b, !.packet = packet, !.state = state].batch = b
        /\ [Fresh EXCEPT !.batch = b, !.packet = packet, !.state = state].packet = packet
        /\ [Fresh EXCEPT !.batch = b, !.packet = packet, !.state = state].state = state
        /\ [Fresh EXCEPT !.batch = b, !.packet = packet, !.state = state].resume = Fresh.resume
    BY <1>10, FreshFits DEF Locals
  <2> QED
    BY <2>1, FreshFits
<1>12. Moves(w, p, l)
  BY <1>8, <1>9, <1>11 DEF Moves, GoesTo
<1>13. TickCut(p, l)
  BY <1>3, <1>6, <1>8, <1>9, <1>11 DEF TickCut, Reading, Naming, Running
<1>14. ASSUME WipeAtRest PROVE TickText(p, l)
  <2>1. Reached(b.prior) /\ BatchHolds(l0)
    BY <1>1, <1>2, <1>3, <1>14 DEF TickFit, TickText, Naming
  <2>2. StateIsGood(compaction)
    BY <1>14 DEF Inv, TextsFit
  <2>3. \A i \in live : Crossed(i, b) => Showing(kept, rows[i].text) \/ Good(rows[i].text)
    BY <1>3, <1>7, <2>1, <2>2 DEF BatchHolds, StateIsGood
  <2>4. CASE p = "checkpoint"
    <3>1. \A text : ~Showing(kept, text)
      BY <1>8, <2>4 DEF Showing
    <3>2. BatchIsGood(l)
      BY <1>7, <1>8, <1>11, <2>2, <2>3, <2>4, <3>1 DEF BatchIsGood
    <3> QED
      BY <1>3, <1>11, <2>1, <2>4, <3>2 DEF TickText, Reading, Running
  <2>5. CASE p = "lookup"
    <3>1. StateIsSound(state, b)
      BY <1>3, <1>7, <2>1, <2>2 DEF StateIsSound, StateIsGood, BatchHolds
    <3>2. PacketHolds(l)
      BY <1>9, <1>11, <2>3 DEF PacketHolds
    <3> QED
      BY <1>3, <1>11, <2>1, <2>5, <3>1, <3>2 DEF TickText, Reading, Running
  <2> QED
    BY <2>4, <2>5
<1> QED
  BY <1>2, <1>8, <1>12, <1>13, <1>14, QuietMove DEF Points, Naming, TickFit

-----------------------------------------------------------------------------
(* The batch of a tick is in the table: what it crosses is good. *)
LEMMA FinishFits ==
  ASSUME Inv, NEW w \in Ticks, FinishBatch(w),
         pc[w] \in Running \/ (pc[w] = "lookup" /\ local[w].batch \in BatchIds)
  PROVE  \E p \in Points, l \in Locals : Moves(w, p, l) /\ TickFit(p, l)
<1>1. PICK l \in Locals : l = local[w] /\ TickFit(pc[w], l)
  BY DEF Inv, TypesFit
<1>2. CASE l.resume
  <2>1. Moves(w, "idle", Fresh)
    BY <1>1, <1>2 DEF FinishBatch, Leave, GoesTo, Moves
  <2> QED
    BY <2>1, FreshFits DEF Points
<1>3. CASE ~l.resume
  <2>1. Moves(w, "checkpoint", l)
    BY <1>1, <1>3, KeepsLocals DEF FinishBatch, Points
  <2>2. TickCut("checkpoint", l)
    BY <1>1, <1>3 DEF TickFit, TickCut, Reading, Naming, Running
  <2>3. ASSUME WipeAtRest PROVE TickText("checkpoint", l)
    <3>1. Reached(l.batch.prior) /\ StateIsSound(l.state, l.batch)
      BY <1>1, <1>3, <2>3 DEF TickFit, TickText, Naming
    <3>2. TextsFit /\ l.batch \in BatchIds
      BY <1>1, <1>3, <2>3 DEF Inv, TickFit, TickText
    <3>3. \A i \in live : Crossed(i, l.batch) => Good(rows[i].text)
      BY <3>2 DEF TextsFit
    <3>4. StateIsGood(l.state)
      <4> SUFFICES ASSUME l.state # NoRow PROVE l.state \in Stored /\ Good(rows[l.state].text)
        BY DEF StateIsGood
      <4>1. CASE Good(rows[l.state].text)
        BY <3>1, <4>1 DEF StateIsSound
      <4>2. CASE Overtaken(l.state)
        <5>1. l.state \in DOMAIN rows /\ l.state \in Stored
          BY <3>1, RowIs DEF StateIsSound, Inv, TypesFit
        <5> QED
          BY <4>2, <5>1 DEF Good, Shadowed
      <4>3. CASE l.state \in live /\ UpTo(l.batch.last, l.state) /\ ~Overtaken(l.state)
        <5>1. CASE Beyond(l.batch.prior, l.state)
          BY <3>1, <3>3, <4>3, <5>1 DEF Crossed, StateIsSound
        <5>2. CASE ~Beyond(l.batch.prior, l.state)
          <6>1. PICK s \in Sources : s = rows[l.state].source
            BY <4>3, RowIs DEF Inv, TypesFit, CaptureTyped
          <6>2. l.batch.prior[s] \in Nat /\ cursor[s] \in Nat /\ l.state \in Nat
            <7>1. l.batch.prior \in Cuts /\ cursor \in Cuts
              BY <2>2 DEF TickCut, Batches, Inv, TypesFit, Fit
            <7> QED
              BY <4>3, <7>1, RowIs DEF Cuts, Inv, TypesFit, CaptureTyped
          <6>3. Behind(l.state)
            BY <3>1, <5>2, <6>1, <6>2 DEF Beyond, Reached, Behind
          <6> QED
            BY <3>1, <3>2, <4>3, <6>3 DEF TextsFit, StateIsSound
        <5> QED
          BY <5>1, <5>2
      <4> QED
        BY <3>1, <4>1, <4>2, <4>3 DEF StateIsSound
    <3>5. BatchIsGood(l)
      BY <3>3, <3>4 DEF BatchIsGood
    <3> QED
      BY <3>1, <3>5 DEF TickText, Reading, Running
  <2> QED
    BY <2>1, <2>2, <2>3 DEF TickFit, Points
<1> QED
  BY <1>2, <1>3

LEMMA RunsOn ==
  ASSUME NEW p, NEW q, NEW l, p \in Running, q \in Running, TickFit(p, l)
  PROVE  TickFit(q, l)
BY DEF TickFit, TickCut, TickText, Reading, Naming, Running

(* A job changes its status and nothing else. *)
LEMMA StatusMove ==
  ASSUME Inv, NEW w \in Ticks, UNCHANGED <<captureVars, cursor, compaction>>,
         NEW status \in Statuses, SetStatus(w, status),
         NEW p \in Points, NEW l \in Locals, Moves(w, p, l), TickFit(p, l)
  PROVE  Inv'
<1>1. TypesFit /\ JobsTyped /\ UNCHANGED <<rows, live, doomed, cursor, compaction>> /\ UNCHANGED captureVars
  BY DEF Inv, TypesFit, captureVars
<1>2. /\ BatchIds' = BatchIds /\ jobs' = [b \in BatchIds' |-> jobs'[b]]
      /\ \A b \in BatchIds : /\ jobs'[b].packet = jobs[b].packet
                             /\ jobs'[b] \in [packet : Packets, status : Statuses]
  <2>1. jobs' = [jobs EXCEPT ![local[w].batch].status = status]
    BY DEF SetStatus
  <2>2. jobs = [b \in BatchIds |-> jobs[b]]
    BY <1>1 DEF JobsTyped
  <2>3. BatchIds' = BatchIds /\ jobs' = [b \in BatchIds' |-> jobs'[b]]
    BY <2>1, <2>2 DEF BatchIds
  <2>4. ASSUME NEW b \in BatchIds
        PROVE  jobs'[b].packet = jobs[b].packet /\ jobs'[b] \in [packet : Packets, status : Statuses]
    <3>1. PICK job \in [packet : Packets, status : Statuses] : job = jobs[b]
      BY <1>1 DEF JobsTyped
    <3>2. /\ [job EXCEPT !.status = status] \in [packet : Packets, status : Statuses]
          /\ [job EXCEPT !.status = status].packet = job.packet
      OBVIOUS
    <3>3. jobs'[b] = job \/ jobs'[b] = [job EXCEPT !.status = status]
      BY <2>1, <2>2, <3>1
    <3> QED
      BY <3>1, <3>2, <3>3
  <2> QED
    BY <2>3, <2>4
<1>3. cursor \in Cuts /\ \A s \in Sources : cursor[s] \in Nat
  BY <1>1 DEF TypesFit, Fit, Cuts
<1>4. Onward
  BY <1>1, <1>2, <1>3 DEF Onward, JobsGrow
<1>5. Fit(cursor)' /\ (compaction \in Nat \cup {NoRow})'
  BY <1>1 DEF TypesFit, Fit, Within, CutAt, Ahead, Overtaken, Overtakes
<1>6. JobsTyped'
  BY <1>1, <1>2 DEF JobsTyped, Within, Stored
<1>7. TextsFit => TextsFit'
  <2>1. \A text : Good(text) => Good(text)'
    BY <1>1, <1>4, GoodStays
  <2>2. \A i, b : Crossed(i, b)' = Crossed(i, b)
    BY <1>1 DEF Crossed, Beyond, UpTo, Overtaken
  <2>3. StateIsGood(compaction) => StateIsGood(compaction)'
    BY <1>1, <2>1 DEF StateIsGood, Stored
  <2>4. \A i : Behind(i)' = Behind(i) /\ Overtaken(i)' = Overtaken(i)
    BY <1>1 DEF Behind, Overtaken
  <2> QED
    BY <1>1, <1>2, <2>1, <2>2, <2>3, <2>4 DEF TextsFit
<1>8. TickCut(p, l)'
  BY <1>1, <1>4, CutOfTickStays DEF TickFit
<1>9. WipeAtRest => TickText(p, l)'
  BY <1>1, <1>4, TextOfTickStays DEF TickFit
<1> QED
  BY <1>4, <1>5, <1>6, <1>7, <1>8, <1>9, TickMoves DEF Inv, TickFit

-----------------------------------------------------------------------------
(* The steps of a tick that has a batch. *)
LEMMA LookUpFits ==
  ASSUME Inv, NEW w \in Ticks, LookUp(w)
  PROVE  Inv'
<1>1. PICK l0 \in Locals : l0 = local[w] /\ TickFit(pc[w], l0)
  BY DEF Inv, TypesFit
<1>2. UNCHANGED <<captureVars, storeVars>> /\ pc[w] = "lookup"
  BY DEF LookUp
<1>3. CASE Recoverable(l0.batch) /\ FinishBatch(w)
  <2>1. l0.batch \in BatchIds
    BY <1>3 DEF Recoverable
  <2> QED
    BY <1>1, <1>2, <1>3, <2>1, FinishFits, QuietMove
<1>4. CASE /\ l0.batch \in Unfinished
           /\ GoesTo(w, "claim") /\ Set(w, "packet", jobs[l0.batch].packet)
  <2>1. PICK packet \in Packets : packet = jobs[l0.batch].packet
    BY <1>4 DEF Unfinished, Inv, TypesFit, JobsTyped
  <2>2. PICK l \in Locals : /\ l = [l0 EXCEPT !["packet"] = packet]
                            /\ l.batch = l0.batch /\ l.resume = l0.resume /\ l.state = l0.state
    <3>1. /\ [l0 EXCEPT !["packet"] = packet] \in Locals
          /\ [l0 EXCEPT !["packet"] = packet].batch = l0.batch
          /\ [l0 EXCEPT !["packet"] = packet].resume = l0.resume
          /\ [l0 EXCEPT !["packet"] = packet].state = l0.state
      BY DEF Locals
    <3> QED
      BY <3>1
  <2>3. Moves(w, "claim", l)
    BY <1>1, <1>4, <2>1, <2>2 DEF Set, Moves, GoesTo, Inv, TypesFit
  <2>4. l0.batch \in BatchIds
    BY <1>4 DEF Unfinished
  <2>5. TickFit("claim", l)
    BY <1>1, <1>2, <2>2, <2>4 DEF TickFit, TickCut, TickText, Reading, Naming, Running
  <2> QED
    BY <1>2, <2>3, <2>5, QuietMove DEF Points, Running
<1>5. CASE Leave(w)
  BY <1>2, <1>5, Leaving
<1>6. CASE ~l0.resume /\ GoesTo(w, "find") /\ UNCHANGED local
  <2>1. Moves(w, "find", l0)
    BY <1>1, <1>6, KeepsLocals DEF Points, Naming
  <2>2. TickFit("find", l0)
    BY <1>1, <1>2, <1>6 DEF TickFit, TickCut, TickText, Reading, Naming, Running
  <2> QED
    BY <1>2, <2>1, <2>2, QuietMove DEF Points, Naming
<1> QED
  BY <1>1, <1>3, <1>4, <1>5, <1>6 DEF LookUp

LEMMA FindJobFits ==
  ASSUME Inv, NEW w \in Ticks, FindJob(w)
  PROVE  Inv'
<1>1. PICK l0 \in Locals : l0 = local[w] /\ TickFit(pc[w], l0)
  BY DEF Inv, TypesFit
<1>2. UNCHANGED <<captureVars, storeVars>> /\ pc[w] = "find" /\ UNCHANGED local
  BY DEF FindJob
<1>3. CASE l0.batch \in BatchIds /\ GoesTo(w, "claim")
  <2>1. Moves(w, "claim", l0)
    BY <1>1, <1>2, <1>3, KeepsLocals DEF Points, Running
  <2>2. TickFit("claim", l0)
    BY <1>1, <1>2, <1>3 DEF TickFit, TickCut, TickText, Reading, Naming, Running
  <2> QED
    BY <1>2, <2>1, <2>2, QuietMove DEF Points, Running
<1>4. CASE GoesTo(w, "insert")
  <2>1. Moves(w, "insert", l0)
    BY <1>1, <1>2, <1>4, KeepsLocals DEF Points, Naming
  <2>2. TickFit("insert", l0)
    BY <1>1, <1>2 DEF TickFit, TickCut, TickText, Reading, Naming, Running
  <2> QED
    BY <1>2, <2>1, <2>2, QuietMove DEF Points, Naming
<1> QED
  BY <1>1, <1>3, <1>4 DEF FindJob, HasJob

LEMMA InsertJobFits ==
  ASSUME Inv, NEW w \in Ticks, InsertJob(w)
  PROVE  Inv'
<1>1. PICK l \in Locals : l = local[w] /\ TickFit(pc[w], l)
  BY DEF Inv, TypesFit
<1>2. /\ UNCHANGED captureVars /\ UNCHANGED <<rows, live, doomed, cursor, compaction>>
      /\ pc[w] = "insert" /\ UNCHANGED local
  BY DEF InsertJob, captureVars
<1>3. PICK b \in Batches, packet \in Packets :
        /\ b = l.batch /\ packet = l.packet /\ ~l.resume /\ Fit(b.last) /\ packet.rows \subseteq Stored
  BY <1>1, <1>2 DEF TickFit, TickCut, Naming
<1>4. CASE b \in BatchIds /\ GoesTo(w, "error") /\ UNCHANGED jobs
  <2>1. Moves(w, "error", l)
    BY <1>1, <1>2, <1>4, KeepsLocals DEF Points, Running
  <2>2. TickFit("error", l)
    BY <1>1, <1>2, <1>3, <1>4 DEF TickFit, TickCut, TickText, Reading, Naming, Running
  <2>3. UNCHANGED <<captureVars, storeVars>>
    BY <1>2, <1>4 DEF storeVars
  <2> QED
    BY <2>1, <2>2, <2>3, QuietMove DEF Points, Running
<1>5. CASE /\ b \notin BatchIds /\ GoesTo(w, "claim")
           /\ jobs' = [x \in BatchIds \cup {b} |->
                         IF x = b THEN [packet |-> packet, status |-> "pending"] ELSE jobs[x]]
  <2>1. PICK job \in [packet : Packets, status : Statuses] :
          job = [packet |-> packet, status |-> "pending"] /\ job.packet = packet
    <3>1. /\ [packet |-> packet, status |-> "pending"] \in [packet : Packets, status : Statuses]
          /\ [packet |-> packet, status |-> "pending"].packet = packet
      BY DEF Statuses
    <3> QED
      BY <3>1
  <2>2. /\ BatchIds' = BatchIds \cup {b} /\ jobs' = [x \in BatchIds' |-> jobs'[x]]
        /\ jobs'[b] = job /\ \A x \in BatchIds : jobs'[x] = jobs[x]
    BY <1>5, <2>1 DEF BatchIds
  <2>3. JobsTyped /\ CaptureTyped /\ cursor \in Cuts /\ \A s \in Sources : cursor[s] \in Nat
    BY DEF Inv, TypesFit, Fit, Cuts
  <2>4. Onward
    BY <1>2, <2>2, <2>3 DEF Onward, JobsGrow
  <2>5. Fit(cursor)' /\ (compaction \in Nat \cup {NoRow})'
    BY <1>2 DEF Inv, TypesFit, Fit, Within, CutAt, Ahead, Overtaken, Overtakes
  <2>6. JobsTyped'
    BY <1>2, <1>3, <2>1, <2>2, <2>3 DEF JobsTyped, Within, Stored, Fit
  <2>7. Moves(w, "claim", l)
    BY <1>1, <1>2, <1>5, KeepsLocals DEF Points, Running
  <2>8. ASSUME WipeAtRest PROVE TextsFit' /\ TickText("claim", l)'
    <3>1. \A text : Good(text) => Good(text)'
      BY <2>4, GoodStays DEF Inv
    <3>2. \A i, x : Crossed(i, x)' = Crossed(i, x)
      BY <1>2 DEF Crossed, Beyond, UpTo, Overtaken
    <3>3. StateIsGood(compaction)' /\ TextsFit
      BY <1>2, <2>8, <3>1 DEF Inv, TextsFit, StateIsGood, Stored
    <3>4. \A i : Behind(i)' = Behind(i) /\ Overtaken(i)' = Overtaken(i)
      BY <1>2 DEF Behind, Overtaken
    <3>5. PacketHolds(l) /\ Reached(b.prior) /\ StateIsSound(l.state, b)
      BY <1>1, <1>2, <1>3, <2>8 DEF TickFit, TickText, Naming
    <3>6. \A text : Showing(packet.rows, text) => Good(text)'
      BY <1>2, <2>1, <2>2 DEF Showing, Good, Offered
    <3>7. \A i \in live : Crossed(i, b) => Good(rows[i].text)'
      BY <1>2, <1>3, <3>1, <3>5, <3>6 DEF PacketHolds
    <3>8. TextsFit'
      BY <1>2, <2>2, <3>1, <3>2, <3>3, <3>4, <3>7 DEF TextsFit
    <3>9. Reached(b.prior)' /\ StateIsSound(l.state, b)'
      BY <1>2, <3>1, <3>5 DEF Reached, StateIsSound, Stored, UpTo
    <3> QED
      BY <1>3, <2>2, <3>8, <3>9 DEF TickText, Reading, Naming, Running
  <2>9. TickCut("claim", l)'
    <3>1. TickCut("claim", l)
      BY <1>3 DEF TickCut, Reading, Naming, Running
    <3> QED
      BY <2>4, <3>1, CutOfTickStays DEF Inv
  <2> QED
    BY <2>4, <2>5, <2>6, <2>7, <2>8, <2>9, TickMoves DEF TickFit, Points, Running
<1> QED
  BY <1>1, <1>3, <1>4, <1>5 DEF InsertJob

LEMMA ClaimJobFits ==
  ASSUME Inv, NEW w \in Ticks, ClaimJob(w)
  PROVE  Inv'
<1>1. PICK l0 \in Locals : l0 = local[w] /\ TickFit(pc[w], l0)
  BY DEF Inv, TypesFit
<1>2. UNCHANGED <<captureVars, cursor, compaction>> /\ pc[w] = "claim"
  BY DEF ClaimJob
<1>3. CASE SetStatus(w, "running") /\ GoesTo(w, "infer") /\ UNCHANGED local
  <2>1. Moves(w, "infer", l0)
    BY <1>1, <1>3, KeepsLocals DEF Points, Running
  <2>2. TickFit("infer", l0)
    BY <1>1, <1>2, RunsOn DEF Running
  <2> QED
    BY <1>2, <1>3, <2>1, <2>2, StatusMove DEF Points, Running, Statuses
<1>4. CASE FinishBatch(w) /\ UNCHANGED jobs
  <2>1. UNCHANGED <<captureVars, storeVars>>
    BY <1>2, <1>4 DEF storeVars
  <2> QED
    BY <1>2, <1>4, <2>1, FinishFits, QuietMove DEF Running
<1> QED
  BY <1>3, <1>4 DEF ClaimJob

(* A tick goes from one point of the run to another. *)
LEMMA RunningMove ==
  ASSUME Inv, NEW w \in Ticks, UNCHANGED <<captureVars, storeVars>>, pc[w] \in Running,
         NEW q \in Running, GoesTo(w, q), UNCHANGED local
  PROVE  Inv'
<1>1. Moves(w, q, local[w]) /\ q \in Points
  BY KeepsLocals DEF Points
<1>2. local[w] \in Locals /\ TickFit(q, local[w])
  BY RunsOn DEF Inv, TypesFit
<1> QED
  BY <1>1, <1>2, QuietMove

LEMMA CallFits ==
  ASSUME Inv, NEW w \in Ticks, NoRuntime(w) \/ ProviderAnswers(w) \/ ProviderFails(w)
  PROVE  Inv'
<1>1. CASE NoRuntime(w)
  BY <1>1, Leaving DEF NoRuntime
<1>2. CASE ProviderAnswers(w)
  BY <1>2, RunningMove DEF ProviderAnswers, Running
<1>3. CASE ProviderFails(w)
  <2>1. PICK q \in {"record_error", "record_invalid"} : GoesTo(w, q)
    BY <1>3 DEF ProviderFails
  <2> QED
    BY <1>3, <2>1, RunningMove DEF ProviderFails, Running
<1> QED
  BY <1>1, <1>2, <1>3

LEMMA ApplyFits ==
  ASSUME Inv, NEW w \in Ticks, ReadStatus(w) \/ CommitOutput(w) \/ RefuseOutput(w)
  PROVE  Inv'
<1>1. CASE ReadStatus(w)
  <2>1. UNCHANGED <<captureVars, storeVars>> /\ pc[w] \in Running
    BY <1>1 DEF ReadStatus, Running
  <2>2. CASE FinishBatch(w)
    BY <2>1, <2>2, FinishFits, QuietMove
  <2>3. CASE GoesTo(w, IF HasJob(w) THEN "commit" ELSE "record_invalid") /\ UNCHANGED local
    <3>1. PICK q \in {"commit", "record_invalid"} : GoesTo(w, q)
      BY <2>3
    <3> QED
      BY <2>1, <2>3, <3>1, RunningMove DEF Running
  <2> QED
    BY <1>1, <2>2, <2>3 DEF ReadStatus
<1>2. CASE CommitOutput(w)
  <2>1. PICK p \in Points, l \in Locals : Moves(w, p, l) /\ TickFit(p, l)
    BY <1>2, FinishFits DEF CommitOutput, Running
  <2> QED
    BY <1>2, <2>1, StatusMove DEF CommitOutput, Statuses
<1>3. CASE RefuseOutput(w)
  BY <1>3, RunningMove DEF RefuseOutput, Running
<1> QED
  BY <1>1, <1>2, <1>3

LEMMA RecordFits ==
  ASSUME Inv, NEW w \in Ticks, RecordAttempt(w) \/ RecordFails(w)
  PROVE  Inv'
<1>1. PICK l0 \in Locals : l0 = local[w] /\ TickFit(pc[w], l0)
  BY DEF Inv, TypesFit
<1>2. UNCHANGED <<captureVars, storeVars>> /\ pc[w] \in Running
  BY DEF RecordAttempt, RecordFails, Running
<1>3. CASE GoesTo(w, "infer") /\ Set(w, "repair", TRUE)
  <2>1. PICK l \in Locals : /\ l = [l0 EXCEPT !["repair"] = TRUE]
                            /\ l.batch = l0.batch /\ l.resume = l0.resume /\ l.state = l0.state
    <3>1. /\ [l0 EXCEPT !["repair"] = TRUE] \in Locals
          /\ [l0 EXCEPT !["repair"] = TRUE].batch = l0.batch
          /\ [l0 EXCEPT !["repair"] = TRUE].resume = l0.resume
          /\ [l0 EXCEPT !["repair"] = TRUE].state = l0.state
      BY DEF Locals
    <3> QED
      BY <3>1
  <2>2. Moves(w, "infer", l)
    BY <1>1, <1>3, <2>1 DEF Set, Moves, GoesTo, Inv, TypesFit
  <2>3. TickFit("infer", l0)
    BY <1>1, <1>2, RunsOn DEF Running
  <2>4. TickFit("infer", l)
    BY <2>1, <2>3 DEF TickFit, TickCut, TickText, Reading, Naming, Running
  <2> QED
    BY <1>2, <2>2, <2>4, QuietMove DEF Points, Running
<1>4. CASE \E q \in {"release", "reject", "error"} : GoesTo(w, q) /\ UNCHANGED local
  <2>1. PICK q \in {"release", "reject", "error"} : GoesTo(w, q) /\ UNCHANGED local
    BY <1>4
  <2> QED
    BY <1>2, <2>1, RunningMove DEF Running
<1>5. CASE RecordAttempt(w)
  <2>1. CASE pc[w] = "record_invalid" /\ ~local[w].repair
    BY <1>3, <1>5, <2>1 DEF RecordAttempt
  <2>2. CASE ~(pc[w] = "record_invalid" /\ ~local[w].repair)
    BY <1>4, <1>5, <2>2 DEF RecordAttempt
  <2> QED
    BY <2>1, <2>2
<1> QED
  BY <1>4, <1>5 DEF RecordFails

LEMMA MarkJobFits ==
  ASSUME Inv, NEW w \in Ticks, MarkJob(w)
  PROVE  Inv'
<1>1. PICK l0 \in Locals : l0 = local[w] /\ TickFit(pc[w], l0)
  BY DEF Inv, TypesFit
<1>2. /\ UNCHANGED <<captureVars, cursor, compaction>> /\ pc[w] \in Running
      /\ GoesTo(w, "error") /\ UNCHANGED local
  BY DEF MarkJob, Running
<1>3. CASE UNCHANGED jobs
  <2>1. UNCHANGED <<captureVars, storeVars>>
    BY <1>2, <1>3 DEF storeVars
  <2> QED
    BY <1>2, <2>1, RunningMove DEF Running
<1>4. CASE \E status \in {"pending", "rejected"} : SetStatus(w, status)
  <2>1. PICK status \in {"pending", "rejected"} : SetStatus(w, status)
    BY <1>4
  <2>2. Moves(w, "error", l0)
    BY <1>1, <1>2, KeepsLocals DEF Points, Running
  <2>3. TickFit("error", l0)
    BY <1>1, <1>2, RunsOn DEF Running
  <2> QED
    BY <1>2, <2>1, <2>2, <2>3, StatusMove DEF Points, Running, Statuses
<1> QED
  BY <1>3, <1>4 DEF MarkJob

LEMMA AfterErrorFits ==
  ASSUME Inv, NEW w \in Ticks, AfterError(w)
  PROVE  Inv'
<1>1. UNCHANGED <<captureVars, storeVars>> /\ pc[w] \in Running
  BY DEF AfterError, Running
<1>2. CASE FinishBatch(w)
  BY <1>1, <1>2, FinishFits, QuietMove
<1>3. CASE Leave(w)
  BY <1>1, <1>3, Leaving
<1> QED
  BY <1>2, <1>3 DEF AfterError

(* The cursors move on to what the tick has read, and never back. *)
LEMMA CommitCheckpointFits ==
  ASSUME Inv, NEW w \in Ticks, CommitCheckpoint(w)
  PROVE  Inv'
<1>1. PICK l0 \in Locals : l0 = local[w] /\ TickFit(pc[w], l0)
  BY DEF Inv, TypesFit
<1>2. /\ UNCHANGED captureVars /\ UNCHANGED <<rows, live, doomed, jobs>>
      /\ pc[w] = "checkpoint" /\ Leave(w)
  BY DEF CommitCheckpoint, captureVars
<1>3. CASE UNCHANGED <<cursor, compaction>>
  <2>1. UNCHANGED <<captureVars, storeVars>>
    BY <1>2, <1>3 DEF storeVars
  <2> QED
    BY <1>2, <2>1, Leaving
<1>4. CASE /\ \A s \in Sources : l0.batch.last[s] >= cursor[s]
           /\ cursor' = l0.batch.last /\ compaction' = l0.state
  <2>1. PICK b \in Batches : b = l0.batch /\ Fit(b.last) /\ ~l0.resume
    BY <1>1, <1>2 DEF TickFit, TickCut
  <2>2. CaptureTyped /\ JobsTyped /\ cursor \in Cuts /\ b.last \in Cuts
    BY <2>1 DEF Inv, TypesFit, Fit
  <2>3. \A s \in Sources : cursor[s] \in Nat /\ b.last[s] \in Nat /\ cursor[s] =< b.last[s]
    BY <1>4, <2>1, <2>2 DEF Cuts
  <2>4. Onward
    BY <1>2, <1>4, <2>1, <2>2, <2>3 DEF Onward, JobsGrow, BatchIds
  <2>5. Fit(b.last)'
    BY <1>2, <1>4, <2>1, <2>2, <2>3, CutStays
  <2>6. Fit(cursor)'
    BY <1>4, <2>1, <2>5 DEF Fit, Within, CutAt, Ahead
  <2>7. (compaction \in Nat \cup {NoRow})'
    BY <1>4 DEF Locals
  <2>8. JobsTyped'
    BY <1>2, <2>2 DEF JobsTyped, Within, Stored, BatchIds
  <2>9. Moves(w, "idle", Fresh)
    BY <1>2 DEF Leave, GoesTo, Moves
  <2>10. TickFit("idle", Fresh)'
    <3>1. ~Fresh.resume
      BY FreshFits
    <3> QED
      BY <3>1 DEF TickFit, TickCut, TickText, Reading, Naming, Running
  <2>11. ASSUME WipeAtRest PROVE TextsFit'
    <3>1. Reached(b.prior) /\ BatchIsGood(l0) /\ TextsFit
      BY <1>1, <1>2, <2>1, <2>11 DEF Inv, TickFit, TickText
    <3>2. \A text : Good(text) => Good(text)'
      BY <2>4, GoodStays DEF Inv
    <3>3. \A i, x : Crossed(i, x)' = Crossed(i, x)
      BY <1>2 DEF Crossed, Beyond, UpTo, Overtaken
    <3>4. StateIsGood(compaction)'
      BY <1>2, <1>4, <3>1, <3>2 DEF BatchIsGood, StateIsGood, Stored
    <3>5. ASSUME NEW i \in live, i =< b.last[rows[i].source], ~Overtaken(i)
          PROVE  Good(rows[i].text)'
      <4>1. PICK s \in Sources : s = rows[i].source
        BY <2>2, RowIs DEF CaptureTyped
      <4>2. i \in Nat /\ b.prior[s] \in Nat /\ b.prior[s] =< cursor[s]
        BY <2>2, <3>1, <4>1, RowIs DEF CaptureTyped, Batches, Cuts, Reached
      <4> SUFFICES Good(rows[i].text)
        BY <1>2, <3>2
      <4>3. CASE i =< cursor[s]
        BY <3>1, <3>5, <4>1, <4>3 DEF TextsFit, Behind
      <4>4. CASE ~(i =< cursor[s])
        <5>1. Beyond(b.prior, i) /\ UpTo(b.last, i)
          BY <2>3, <3>5, <4>1, <4>2, <4>4 DEF Beyond, UpTo
        <5> QED
          BY <2>1, <3>1, <3>5, <5>1 DEF BatchIsGood, Crossed
      <4> QED
        BY <4>3, <4>4
    <3>6. \A i \in live : (Behind(i) /\ ~Overtaken(i))' => Good(rows[i].text)'
      BY <1>2, <1>4, <2>1, <3>5 DEF Behind, Overtaken
    <3>7. \A x \in BatchIds : \A i \in live : Crossed(i, x)' => Good(rows[i].text)'
      BY <1>2, <3>1, <3>2, <3>3 DEF TextsFit
    <3> QED
      BY <1>2, <3>4, <3>6, <3>7 DEF TextsFit, BatchIds
  <2> QED
    BY <2>4, <2>6, <2>7, <2>8, <2>9, <2>10, <2>11, FreshFits, TickMoves DEF Points
<1> QED
  BY <1>1, <1>3, <1>4 DEF CommitCheckpoint

-----------------------------------------------------------------------------
(* A row is stored: it comes after every row that some cursor has passed. *)
RowAdded ==
  /\ CaptureTyped /\ CaptureTyped' /\ Len(rows)' = Len(rows) + 1
  /\ \A i \in Stored : rows'[i] = rows[i]
  /\ rows'[Len(rows) + 1].source = Frame /\ Amid => rows'[Len(rows) + 1].amid
  /\ live' = live \cup {Len(rows) + 1} /\ doomed = {} /\ doomed' = {}
  /\ UNCHANGED <<cursor, compaction, jobs, pc, local>>

LEMMA CaptureAdds ==
  ASSUME CaptureTyped, NEW s \in Sources, NEW text \in Texts, Capture(s, text)
  PROVE  RowAdded
<1>1. PICK m \in Nat : \A i \in Stored : rows[i].time =< m
  BY DEF CaptureTyped
<1>2. PICK times \in SUBSET (0 .. m) : times = Times \cup {0} /\ times # {}
  <2>1. \A i \in Stored : rows[i].time \in 0 .. m
    BY <1>1, RowIs
  <2>2. Times \cup {0} \in SUBSET (0 .. m) /\ Times \cup {0} # {}
    BY <2>1, RowIs DEF Times
  <2> QED
    BY <2>2
<1>3. PICK newest \in Nat : newest = Newest
  <2>1. Max(times) \in times
    BY <1>2, MaxIs
  <2>2. Newest = Max(times)
    BY <1>2 DEF Newest
  <2>3. \A t \in times : t \in Nat
    OBVIOUS
  <2> QED
    BY <2>1, <2>2, <2>3
<1>4. PICK t \in (newest - Lag .. newest + 1 + Lag) \ Times :
        t > 0 /\ rows' = Append(rows, [source |-> s, time |-> t, text |-> text,
                                       amid |-> s = Frame /\ Amid])
  BY <1>3 DEF Capture
<1>5. t \in Nat
  BY <1>3, <1>4, ExplorerBounds
<1>6. PICK row \in CaptureRow :
        /\ row = [source |-> s, time |-> t, text |-> text, amid |-> s = Frame /\ Amid]
        /\ row.time = t /\ (row.source = Frame /\ Amid => row.amid)
  <2>1. PICK amid \in BOOLEAN : amid = (s = Frame /\ Amid)
    OBVIOUS
  <2>2. /\ [source |-> s, time |-> t, text |-> text, amid |-> amid] \in CaptureRow
        /\ [source |-> s, time |-> t, text |-> text, amid |-> amid].time = t
        /\ [source |-> s, time |-> t, text |-> text, amid |-> amid].source = s
        /\ [source |-> s, time |-> t, text |-> text, amid |-> amid].amid = amid
    BY <1>5 DEF CaptureRow
  <2> QED
    BY <2>1, <2>2
<1>7. PICK n \in Nat : n = Len(rows) /\ Stored = 1 .. n /\ DOMAIN rows = 1 .. n
  BY RowIs DEF Stored
<1>8. /\ rows' \in Seq(CaptureRow) /\ Len(rows)' = n + 1 /\ rows'[n + 1] = row
      /\ \A i \in 1 .. n : rows'[i] = rows[i]
  <2>1. rows \in Seq(CaptureRow) /\ rows' = Append(rows, row)
    BY <1>4, <1>6 DEF CaptureTyped
  <2> QED
    BY <1>7, <2>1
<1>9. live' = live \cup {n + 1} /\ doomed = {} /\ doomed' = {} /\ Stored' = 1 .. n + 1
  BY <1>7, <1>8 DEF Capture, Stored
<1>10. \A i, j \in Stored' : rows'[i].time = rows'[j].time => i = j
  <2>1. \A i \in 1 .. n : rows[i].time # t
    BY <1>4, <1>7 DEF Times
  <2>2. \A i, j \in 1 .. n : rows[i].time = rows[j].time => i = j
    BY <1>7 DEF CaptureTyped
  <2> QED
    BY <1>6, <1>8, <1>9, <2>1, <2>2
<1>11. \A i \in Stored' : rows'[i].time =< m + t
  <2>1. \A i \in 1 .. n : rows[i].time \in Nat /\ rows[i].time =< m
    BY <1>1, <1>7, RowIs
  <2> QED
    BY <1>1, <1>5, <1>6, <1>8, <1>9, <2>1
<1>12. CaptureTyped'
  <2>1. (m + t) \in Nat
    BY <1>5
  <2>2. live' \subseteq Stored' /\ doomed' \subseteq live'
    <3>1. live \subseteq 1 .. n
      BY <1>7 DEF CaptureTyped
    <3>2. live' \subseteq 1 .. n + 1
      BY <1>9, <3>1
    <3> QED
      BY <1>9, <3>2
  <2> QED
    BY <1>8, <1>9, <1>10, <1>11, <2>1, <2>2 DEF CaptureTyped
<1> QED
  BY <1>6, <1>7, <1>8, <1>9, <1>12 DEF RowAdded, Capture, storeVars, tickVars

LEMMA RowKeeps ==
  ASSUME RowAdded
  PROVE  /\ Stored \subseteq Stored' /\ Len(rows) \in Nat /\ Len(rows)' = Len(rows) + 1
         /\ DOMAIN rows = Stored /\ DOMAIN rows' = Stored'
         /\ Stored' = Stored \cup {Len(rows) + 1} /\ ~(Len(rows) + 1 \in Stored)
         /\ \A i \in Stored : /\ i \in Nat /\ i =< Len(rows)
                              /\ rows'[i] = rows[i] /\ (Overtaken(i) => Overtaken(i)')
                              /\ (Overtakes(i) => Overtakes(i)')
         /\ \A i \in Stored' : rows'[i].source \in Sources
<1>1. PICK n \in Nat : n = Len(rows) /\ Stored = 1 .. n /\ DOMAIN rows = 1 .. n
  BY RowIs DEF Stored, RowAdded
<1>2. /\ Stored' = 1 .. n + 1 /\ DOMAIN rows' = 1 .. n + 1 /\ \A i \in 1 .. n : rows'[i] = rows[i]
      /\ \A i \in 1 .. n + 1 : rows'[i].source \in Sources
  <2>1. rows' \in Seq(CaptureRow) /\ Len(rows)' = n + 1
    BY <1>1 DEF RowAdded, CaptureTyped
  <2>2. DOMAIN rows' = 1 .. n + 1 /\ \A i \in 1 .. n + 1 : rows'[i] \in CaptureRow
    BY <2>1
  <2>3. \A i \in 1 .. n + 1 : rows'[i].source \in Sources
    BY <2>2 DEF CaptureRow
  <2> QED
    BY <1>1, <2>1, <2>2, <2>3 DEF RowAdded, Stored
<1>3. \A i \in 1 .. n : i \in 1 .. n + 1 /\ ~(n + 1 \in 1 .. n) /\ i \in Nat /\ i =< n
  OBVIOUS
<1>4. \A i \in 1 .. n : Overtaken(i) => Overtaken(i)'
  BY <1>1, <1>2, <1>3 DEF Overtaken
<1>5. \A i \in 1 .. n : Overtakes(i) => Overtakes(i)'
  BY <1>1, <1>2, <1>3 DEF Overtakes
<1>6. 1 .. n + 1 = (1 .. n) \cup {n + 1} /\ ~(n + 1 \in 1 .. n)
  OBVIOUS
<1> QED
  BY <1>1, <1>2, <1>3, <1>4, <1>5, <1>6 DEF RowAdded

LEMMA RowKeepsCuts ==
  ASSUME RowAdded, NEW c, Fit(c)
  PROVE  Fit(c)'
<1>1. CaptureTyped /\ CaptureTyped' /\ doomed = {} /\ doomed' = {} /\ live' = live \cup {Len(rows) + 1}
  BY DEF RowAdded
<1>2. c \in Cuts /\ \A s \in Sources : c[s] \in Nat /\ c[s] =< Len(rows)
  BY DEF Fit, Cuts, Within
<1>3. Within(c)'
  BY <1>2, RowKeeps DEF Within
<1>4. SUFFICES ASSUME NEW i \in live', NEW j \in live',
                      i =< c[rows'[i].source], ~Overtaken(i)',
                      Ahead(c, j)', j < i
               PROVE  rows'[i].time < rows'[j].time
  BY <1>1, <1>2, <1>3 DEF Fit, CutAt
<1>5. rows'[i].source \in Sources /\ i \in Stored' /\ j \in Stored'
  <2>1. live' \subseteq Stored'
    BY <1>1 DEF CaptureTyped
  <2> QED
    BY <2>1, RowKeeps
<1>6. i \in live /\ i \in Stored
  BY <1>1, <1>2, <1>4, <1>5, RowKeeps
<1>7. j \in live /\ j \in Stored
  BY <1>1, <1>4, <1>5, <1>6, RowKeeps
<1>8. rows'[i] = rows[i] /\ rows'[j] = rows[j] /\ ~Overtaken(i) /\ Ahead(c, j)
  <2>1. rows'[i] = rows[i] /\ rows'[j] = rows[j] /\ ~Overtaken(i) /\ (Overtakes(j) => Overtakes(j)')
    BY <1>4, <1>6, <1>7, RowKeeps
  <2> QED
    BY <1>4, <2>1 DEF Ahead, RowAdded
<1> QED
  BY <1>1, <1>4, <1>6, <1>7, <1>8 DEF Fit, CutAt

(* A row that is stored after a page was read comes after it, or is marked. *)
LEMMA RowKeepsPages ==
  ASSUME RowAdded, NEW c \in Cuts, NEW P, P \subseteq Stored
  PROVE  /\ \A s \in Sources : Closed(s, c, P) => Closed(s, c, P)'
         /\ \A s \in Sources : OfSource(P, s)' = OfSource(P, s)
         /\ \A s \in Sources : \A j : FullBelow(s, P, j) => FullBelow(s, P, j)'
         /\ \A s \in Sources : \A j : Missed(s, c, P, j)' => Missed(s, c, P, j) \/ j = Len(rows) + 1
         /\ \A k \in P : k < Len(rows) + 1
<1>1. /\ live' = live \cup {Len(rows) + 1} /\ Len(rows) \in Nat /\ doomed = {} /\ doomed' = {}
      /\ live \subseteq Stored
      /\ \A i \in Stored : i \in Nat /\ i =< Len(rows) /\ rows'[i] = rows[i]
  BY RowKeeps DEF RowAdded, CaptureTyped
<1>2. \A k \in P : k < Len(rows) + 1 /\ k \in Nat
  BY <1>1
<1>3. ASSUME NEW s \in Sources PROVE OfSource(P, s)' = OfSource(P, s)
  BY <1>1 DEF OfSource
<1>4. ASSUME NEW s \in Sources, NEW i \in After(s, c)'
      PROVE  i \in After(s, c) \/ i = Len(rows) + 1
  BY <1>1, <1>4 DEF After, OfSource
<1>5. ASSUME NEW s \in Sources, Closed(s, c, P) PROVE Closed(s, c, P)'
  <2> SUFFICES ASSUME NEW z \in OfSource(P, s), NEW i \in After(s, c)', i =< z PROVE i \in P
    BY <1>3 DEF Closed
  <2>1. i # Len(rows) + 1
    BY <1>1, <1>2 DEF OfSource
  <2> QED
    BY <1>4, <1>5, <2>1 DEF Closed
<1>6. ASSUME NEW s \in Sources, NEW j, FullBelow(s, P, j) PROVE FullBelow(s, P, j)'
  BY <1>1, <1>3, <1>6 DEF FullBelow
<1>7. ASSUME NEW s \in Sources, NEW j, Missed(s, c, P, j)', j # Len(rows) + 1 PROVE Missed(s, c, P, j)
  <2>1. j \in After(s, c) /\ ~rows'[j].amid /\ j \notin P
    BY <1>4, <1>7 DEF Missed
  <2>2. j \in live
    BY <2>1 DEF After, OfSource
  <2> QED
    BY <1>1, <2>1, <2>2 DEF Missed
<1> QED
  BY <1>2, <1>3, <1>5, <1>6, <1>7

LEMMA RowKeepsRead ==
  ASSUME RowAdded, NEW c \in Cuts, NEW P
  PROVE  /\ Amid /\ FramesRead(c, P) => FramesRead(c, P)'
         /\ PagesRead(c, P) => PagesRead(c, P)'
<1>1. Stored \subseteq Stored' /\ Frame \in Sources /\ Event \in Sources
  BY RowKeeps DEF Sources
<1>2. ASSUME Amid, FramesRead(c, P) PROVE FramesRead(c, P)'
  <2>1. P \subseteq Stored
    BY <1>2 DEF FramesRead
  <2>2. P \subseteq Stored' /\ OfSource(P, Event)' = {} /\ Closed(Frame, c, P)'
    BY <1>1, <1>2, <2>1, RowKeepsPages DEF FramesRead
  <2>3. ASSUME NEW j, Missed(Frame, c, P, j)' PROVE FullBelow(Frame, P, j)'
    <3>1. j # Len(rows) + 1
      BY <1>2, <2>3 DEF RowAdded, Missed, After, OfSource
    <3>2. Missed(Frame, c, P, j)
      BY <1>1, <2>1, <2>3, <3>1, RowKeepsPages
    <3> QED
      BY <1>1, <1>2, <2>1, <3>2, RowKeepsPages DEF FramesRead
  <2> QED
    BY <2>2, <2>3 DEF FramesRead
<1>3. ASSUME PagesRead(c, P) PROVE PagesRead(c, P)'
  <2>1. P \subseteq Stored
    BY <1>3 DEF PagesRead
  <2>2. P \subseteq Stored' /\ \A s \in Sources : Closed(s, c, P)'
    BY <1>1, <1>3, <2>1, RowKeepsPages DEF PagesRead
  <2>3. ASSUME NEW s \in Sources, NEW j, Missed(s, c, P, j)'
        PROVE  FullBelow(s, P, j)' \/ \A k \in P : k < j
    <3>1. CASE j = Len(rows) + 1
      BY <2>1, <3>1, RowKeepsPages
    <3>2. CASE Missed(s, c, P, j)
      <4>1. FullBelow(s, P, j) \/ \A k \in P : k < j
        BY <1>3, <3>2 DEF PagesRead
      <4> QED
        BY <2>1, <4>1, RowKeepsPages
    <3> QED
      BY <2>1, <2>3, <3>1, <3>2, RowKeepsPages
  <2> QED
    BY <2>2, <2>3 DEF PagesRead
<1> QED
  BY <1>2, <1>3

LEMMA RowKeepsTaken ==
  ASSUME RowAdded, NEW s \in Sources, NEW n \in Nat, Taken(s, n)
  PROVE  Taken(s, n)'
<1>1. /\ live' = live \cup {Len(rows) + 1} /\ Len(rows) \in Nat /\ Len(rows)' = Len(rows) + 1
      /\ doomed = {} /\ doomed' = {} /\ cursor' = cursor
      /\ \A i \in live : i \in Nat /\ rows'[i] = rows[i]
  BY RowKeeps DEF RowAdded, CaptureTyped
<1>2. n =< Len(rows) /\ n =< Len(rows)' /\ ~(Len(rows) + 1 =< n)
  BY <1>1 DEF Taken
<1> QED
  BY <1>1, <1>2 DEF Taken

LEMMA RowKeepsCutOfTick ==
  ASSUME RowAdded, NEW p, NEW l \in Locals, TickCut(p, l), p = "events" => Amid
  PROVE  TickCut(p, l)'
<1>1. Stored \subseteq Stored' /\ \A c : Fit(c) => Fit(c)'
  BY RowKeeps, RowKeepsCuts
<1>2. p = "prior" => LastOf(l.window, l.start)' = LastOf(l.window, l.start)
  <2> SUFFICES ASSUME p = "prior" PROVE LastOf(l.window, l.start)' = LastOf(l.window, l.start)
    OBVIOUS
  <2>1. \A i \in l.window : rows'[i] = rows[i]
    BY RowKeeps DEF TickCut
  <2>2. \A s \in Sources : OfSource(l.window, s)' = OfSource(l.window, s)
    BY <2>1 DEF OfSource
  <2> QED
    BY <2>2 DEF LastOf
<1>3. PICK d : d = LastOf(l.window, l.start)
  OBVIOUS
<1>4. p = "prior" => Fit(LastOf(l.window, l.start))'
  <2>1. p = "prior" => Fit(d)'
    BY <1>1, <1>3 DEF TickCut
  <2>2. p = "prior" => LastOf(l.window, l.start)' = d
    BY <1>2, <1>3
  <2> QED
    BY <2>1, <2>2 DEF Fit, CutAt, Within, Ahead
<1>5. Fit(l.batch.last) => Fit(l.batch.last)'
  BY <1>1
<1>6. l.start \in Cuts /\ \A s \in Sources : l.start[s] \in Nat
  BY DEF Locals, Cuts
<1>7. p = "event_cursor" => Taken(Frame, l.start[Frame])'
  BY <1>6, RowKeepsTaken DEF TickCut, Sources
<1>8. p \in Reading => Begun(l.start)'
  BY <1>6, RowKeepsTaken DEF TickCut, Begun
<1>9. /\ p = "events" => FramesRead(l.start, l.window)'
      /\ p = "cut" => PagesRead(l.start, l.window)'
  BY <1>6, RowKeepsRead DEF TickCut
<1> QED
  BY <1>1, <1>4, <1>5, <1>7, <1>8, <1>9 DEF TickCut

LEMMA RowKeepsGood ==
  ASSUME RowAdded, JobsTyped, NEW text, Good(text)
  PROVE  Good(text)'
<1>1. CASE Offered(text)
  <2>1. PICK b \in BatchIds : \E j \in jobs[b].packet.rows : rows[j].text = text
    BY <1>1 DEF Offered
  <2>2. PICK j \in jobs[b].packet.rows : rows[j].text = text
    BY <2>1
  <2>3. j \in Stored /\ rows'[j] = rows[j]
    BY RowKeeps DEF JobsTyped
  <2>4. jobs' = jobs /\ b \in BatchIds'
    BY DEF RowAdded, BatchIds
  <2> QED
    BY <2>2, <2>3, <2>4 DEF Offered, Good
<1>2. CASE Shadowed(text)
  <2>1. PICK j \in Stored : Overtaken(j) /\ rows[j].text = text
    BY <1>2, RowKeeps DEF Shadowed
  <2>2. j \in DOMAIN rows' /\ Overtaken(j)' /\ rows'[j].text = text
    BY <2>1, RowKeeps
  <2>3. Shadowed(text)'
    BY <2>2 DEF Shadowed
  <2> QED
    BY <2>3 DEF Good
<1> QED
  BY <1>1, <1>2 DEF Good

(* The new row is past every batch, and a row that was there is crossed     *)
(* only if it was crossed before.                                           *)
LEMMA RowIsNotCrossed ==
  ASSUME RowAdded, NEW last \in Cuts, Within(last), NEW i \in live', UpTo(last, i)'
  PROVE  i \in live /\ i \in Stored /\ rows'[i] = rows[i] /\ UpTo(last, i)
<1>1. i \in Stored' /\ rows'[i].source \in Sources
  BY RowKeeps DEF RowAdded, CaptureTyped
<1>2. last[rows'[i].source] \in Nat /\ last[rows'[i].source] =< Len(rows) /\ i =< last[rows'[i].source]
  BY <1>1 DEF Cuts, Within, UpTo
<1>3. i # Len(rows) + 1
  BY <1>2, RowKeeps
<1>4. i \in live /\ i \in Stored /\ rows'[i] = rows[i]
  BY <1>1, <1>3, RowKeeps DEF RowAdded
<1> QED
  BY <1>2, <1>4 DEF UpTo

LEMMA RowKeepsTextOfTick ==
  ASSUME RowAdded, TypesFit, NEW p, NEW l \in Locals, TickCut(p, l), TickText(p, l)
  PROVE  TickText(p, l)'
<1> SUFFICES ASSUME ~l.resume
             PROVE  TickText(p, l)'
  BY DEF TickText
<1>1. JobsTyped /\ CaptureTyped /\ \A text : Good(text) => Good(text)'
  BY RowKeepsGood DEF TypesFit
<1>2. live \subseteq live' /\ cursor' = cursor /\ jobs' = jobs /\ live \subseteq Stored
  BY DEF RowAdded, CaptureTyped
<1>3. \A i \in Stored : rows'[i] = rows[i] /\ (~Overtaken(i)' => ~Overtaken(i)) /\ i \in Stored'
  BY RowKeeps
<1>4. \A state : StateIsGood(state) => StateIsGood(state)'
  BY <1>1, <1>3 DEF StateIsGood
<1>5. \A state, b : StateIsSound(state, b) => StateIsSound(state, b)'
  BY <1>1, <1>2, <1>3 DEF StateIsSound, UpTo
<1>6. ASSUME NEW b \in Batches, Within(b.last), NEW i \in live', Crossed(i, b)'
      PROVE  i \in live /\ i \in Stored /\ rows'[i] = rows[i] /\ Crossed(i, b)
  <2>1. b.last \in Cuts /\ UpTo(b.last, i)'
    BY <1>6 DEF Batches, Crossed
  <2>2. i \in live /\ i \in Stored /\ rows'[i] = rows[i] /\ UpTo(b.last, i)
    BY <1>6, <2>1, RowIsNotCrossed
  <2> QED
    BY <1>3, <1>6, <2>2 DEF Crossed, Beyond
<1>7. p \in Naming \cup Running \cup {"checkpoint"} => l.batch \in Batches /\ Within(l.batch.last)
  BY DEF TickCut, Fit
<1>15. /\ p \in {"events", "cut"} => l.window \subseteq live'
       /\ p \in Reading => Reached(l.start)'
       /\ p = "event_cursor" => l.start[Frame] =< cursor'[Frame]
       /\ p = "prior" => l.start[Frame] =< l.prior[Frame] /\ l.prior[Frame] =< cursor'[Frame]
  BY <1>2 DEF TickText, Reached
<1>8. p = "prior" => WindowHolds(l)'
  <2> SUFFICES ASSUME p = "prior" PROVE WindowHolds(l)'
    OBVIOUS
  <2>1. WindowHolds(l) /\ l.window \subseteq Stored
    BY DEF TickText, TickCut
  <2>2. PICK last \in Cuts : last = LastOf(l.window, l.start) /\ Within(last)
    BY DEF TickCut, Fit
  <2>3. LastOf(l.window, l.start)' = last
    <3>1. \A s \in Sources : OfSource(l.window, s)' = OfSource(l.window, s)
      BY <1>3, <2>1 DEF OfSource
    <3> QED
      BY <2>2, <3>1 DEF LastOf
  <2>4. ASSUME NEW i \in live', Beyond(l.start, i)', UpTo(last, i)', ~Overtaken(i)'
        PROVE  i \in l.window
    <3>1. i \in live /\ i \in Stored /\ rows'[i] = rows[i] /\ UpTo(last, i)
      BY <2>2, <2>4, RowIsNotCrossed
    <3>2. Beyond(l.start, i) /\ ~Overtaken(i)
      BY <1>3, <2>4, <3>1 DEF Beyond
    <3> QED
      BY <2>1, <2>2, <3>1, <3>2 DEF WindowHolds
  <2>5. \A i \in live' : (Beyond(l.start, i) /\ UpTo(LastOf(l.window, l.start), i) /\ ~Overtaken(i))'
                         => i \in l.window
    BY <2>3, <2>4 DEF UpTo
  <2> QED
    BY <1>2, <2>1, <2>5 DEF WindowHolds
<1>9. p \in Naming \cup Running \cup {"checkpoint"} => Reached(l.batch.prior)'
  BY <1>2 DEF TickText, Reached
<1>10. p = "compact" => BatchHolds(l)'
  <2> SUFFICES ASSUME p = "compact" PROVE BatchHolds(l)'
    OBVIOUS
  <2>1. BatchHolds(l) /\ l.batch \in Batches /\ Within(l.batch.last) /\ l.window \subseteq Stored
    BY <1>7 DEF TickText, TickCut, Naming
  <2>2. \A i \in live' : Crossed(i, l.batch)' => i \in l.window
    BY <1>6, <2>1 DEF BatchHolds
  <2>3. \A i \in l.window : UpTo(l.batch.last, i)'
    BY <1>3, <2>1 DEF BatchHolds, UpTo
  <2> QED
    BY <1>2, <2>1, <2>2, <2>3 DEF BatchHolds
<1>11. p \in {"lookup", "find", "insert"} => PacketHolds(l)'
  <2> SUFFICES ASSUME p \in {"lookup", "find", "insert"} PROVE PacketHolds(l)'
    OBVIOUS
  <2>1. PacketHolds(l) /\ l.batch \in Batches /\ Within(l.batch.last) /\ l.packet.rows \subseteq Stored
    BY <1>7 DEF TickText, TickCut, Naming
  <2>2. \A text : Showing(l.packet.rows, text) => Showing(l.packet.rows, text)'
    BY <1>3, <2>1 DEF Showing
  <2> QED
    BY <1>1, <1>6, <2>1, <2>2 DEF PacketHolds
<1>12. p \in {"lookup", "find", "insert"} \cup Running => StateIsSound(l.state, l.batch)'
  BY <1>5 DEF TickText
<1>13. p \in Running => l.batch \in BatchIds'
  BY <1>2 DEF TickText, BatchIds
<1>14. p = "checkpoint" => BatchIsGood(l)'
  <2> SUFFICES ASSUME p = "checkpoint" PROVE BatchIsGood(l)'
    OBVIOUS
  <2>1. BatchIsGood(l) /\ l.batch \in Batches /\ Within(l.batch.last)
    BY <1>7 DEF TickText
  <2> QED
    BY <1>1, <1>4, <1>6, <2>1 DEF BatchIsGood
<1> QED
  BY <1>8, <1>9, <1>10, <1>11, <1>12, <1>13, <1>14, <1>15 DEF TickText

LEMMA CaptureFits ==
  ASSUME Inv, NEW s \in Sources, NEW text \in Texts, Capture(s, text)
  PROVE  Inv'
<1>1. TypesFit /\ RowAdded
  BY CaptureAdds DEF Inv, TypesFit
<1>2. /\ UNCHANGED <<cursor, compaction, jobs, pc, local>> /\ CaptureTyped /\ CaptureTyped'
      /\ \A i \in Stored : i \in Stored' /\ rows'[i] = rows[i] /\ (~Overtaken(i)' => ~Overtaken(i))
  BY <1>1, RowKeeps DEF RowAdded
<1>3. PICK c \in Cuts : c = cursor /\ Fit(c)
  BY <1>1 DEF TypesFit, Fit
<1>4. Fit(c)'
  BY <1>1, <1>3, RowKeepsCuts
<1>5. Fit(cursor)'
  BY <1>2, <1>3, <1>4 DEF Fit, CutAt, Within
<1>6. JobsTyped'
  <2>1. JobsTyped /\ BatchIds' = BatchIds /\ \A b \in BatchIds : b.last \in Cuts
    BY <1>1, <1>2 DEF TypesFit, JobsTyped, Batches, BatchIds
  <2>2. \A b \in BatchIds : Within(b.last)'
    <3> SUFFICES ASSUME NEW b \in BatchIds, NEW t \in Sources PROVE b.last[t] =< Len(rows)'
      BY DEF Within
    <3>1. b.last[t] \in Nat /\ b.last[t] =< Len(rows)
      BY <2>1 DEF JobsTyped, Within, Cuts
    <3> QED
      BY <1>1, <3>1, RowKeeps
  <2> QED
    BY <1>2, <2>1, <2>2 DEF JobsTyped
<1>7. TypesFit'
  BY <1>1, <1>2, <1>5, <1>6 DEF TypesFit
<1>8. ASSUME WipeAtRest PROVE TextsFit'
  <2>1. TextsFit /\ JobsTyped /\ \A x : Good(x) => Good(x)'
    BY <1>1, <1>8, RowKeepsGood DEF Inv, TypesFit
  <2>2. ASSUME NEW i \in live', Behind(i)', ~Overtaken(i)'
        PROVE  Good(rows[i].text)'
    <3>1. UpTo(c, i)' /\ Within(c)
      BY <1>2, <1>3, <2>2 DEF UpTo, Behind, Fit
    <3>2. i \in live /\ i \in Stored /\ rows'[i] = rows[i] /\ UpTo(c, i)
      BY <1>1, <3>1, RowIsNotCrossed
    <3>3. Behind(i) /\ ~Overtaken(i)
      BY <1>2, <1>3, <2>2, <3>2 DEF UpTo, Behind
    <3>4. PICK x : x = rows[i].text /\ x = rows'[i].text /\ Good(x)
      BY <2>1, <3>2, <3>3 DEF TextsFit
    <3>5. Good(x)'
      BY <2>1, <3>4
    <3> QED
      BY <3>4, <3>5 DEF Good, Offered, Shadowed
  <2>3. ASSUME NEW b \in BatchIds, NEW i \in live', Crossed(i, b)'
        PROVE  Good(rows[i].text)'
    <3>1. b.last \in Cuts /\ Within(b.last) /\ UpTo(b.last, i)'
      BY <2>1, <2>3 DEF JobsTyped, Batches, Crossed
    <3>2. i \in live /\ i \in Stored /\ rows'[i] = rows[i] /\ UpTo(b.last, i)
      BY <1>1, <3>1, RowIsNotCrossed
    <3>3. Crossed(i, b)
      BY <1>2, <2>3, <3>2 DEF Crossed, Beyond
    <3>4. PICK x : x = rows[i].text /\ x = rows'[i].text /\ Good(x)
      BY <2>1, <3>2, <3>3 DEF TextsFit
    <3>5. Good(x)'
      BY <2>1, <3>4
    <3> QED
      BY <3>4, <3>5 DEF Good, Offered, Shadowed
  <2>4. StateIsGood(compaction)'
    BY <1>2, <2>1 DEF TextsFit, StateIsGood
  <2>5. \A i \in live' : (Behind(i) /\ ~Overtaken(i))' => Good(rows[i].text)'
    BY <2>2
  <2>6. \A b \in BatchIds' : \A i \in live' : Crossed(i, b)' => Good(rows[i].text)'
    BY <1>2, <2>3 DEF BatchIds
  <2> QED
    BY <2>4, <2>5, <2>6 DEF TextsFit
<1>9. ASSUME NEW v \in Ticks PROVE TickFit(pc[v], local[v])'
  <2>1. PICK p \in Points, l \in Locals : p = pc[v] /\ l = local[v] /\ TickFit(p, l)
    BY <1>1 DEF Inv, TypesFit
  <2>2. TickCut(p, l)' /\ (WipeAtRest => TickText(p, l)')
    <3>1. p = "events" => Amid
      BY <2>1 DEF Amid
    <3> QED
      BY <1>1, <2>1, <3>1, RowKeepsCutOfTick, RowKeepsTextOfTick DEF TickFit
  <2>3. TickFit(p, l)' /\ p = pc'[v] /\ l = local'[v]
    BY <1>2, <2>1, <2>2 DEF TickFit
  <2> QED
    BY <2>3 DEF TickFit, TickCut, TickText, WindowHolds, BatchHolds, PacketHolds, BatchIsGood
<1> QED
  BY <1>7, <1>8, <1>9 DEF Inv

-----------------------------------------------------------------------------
(* Rows are deleted. *)
LEMMA FewerRowsKeepCuts ==
  ASSUME CaptureTyped, UNCHANGED rows, live' \subseteq live, live' \ doomed' = {}, doomed' \subseteq live'
  PROVE  /\ Stored' = Stored /\ CaptureTyped' /\ \A c : Fit(c) => Fit(c)'
         /\ \A p, l : TickCut(p, l) => TickCut(p, l)'
<1>1. Stored' = Stored /\ CaptureTyped'
  BY DEF Stored, CaptureTyped
<1>2. \A c : Fit(c) => Fit(c)'
  BY DEF Fit, Within, CutAt
<1>3. ASSUME NEW p, NEW l, TickCut(p, l)
      PROVE  TickCut(p, l)'
  <2>1. PICK d : d = LastOf(l.window, l.start)
    OBVIOUS
  <2>2. LastOf(l.window, l.start)' = d
    BY <2>1 DEF LastOf, OfSource
  <2>3. Fit(d) => Fit(LastOf(l.window, l.start))'
    BY <1>2, <2>2 DEF Fit, CutAt, Within, Ahead
  <2>4. Fit(l.batch.last) => Fit(l.batch.last)'
    BY <1>2
  <2>5. \A s, n : Taken(s, n) => Taken(s, n)'
    BY DEF Taken
  <2>6. Begun(l.start) => Begun(l.start)'
    BY <2>5 DEF Begun
  <2>7. ASSUME NEW s PROVE /\ Closed(s, l.start, l.window) => Closed(s, l.start, l.window)'
                           /\ \A j : ~Missed(s, l.start, l.window, j)'
    <3>1. After(s, l.start)' \subseteq After(s, l.start) /\ After(s, l.start)' \subseteq live'
      BY DEF After, OfSource
    <3> QED
      BY <3>1 DEF Closed, Missed, OfSource
  <2>8. /\ FramesRead(l.start, l.window) => FramesRead(l.start, l.window)'
        /\ PagesRead(l.start, l.window) => PagesRead(l.start, l.window)'
    BY <1>1, <2>7 DEF FramesRead, PagesRead, OfSource
  <2> QED
    BY <1>1, <1>3, <2>1, <2>3, <2>4, <2>5, <2>6, <2>8 DEF TickCut
<1> QED
  BY <1>1, <1>2, <1>3

(* A tick that is at rest knows nothing. *)
LEMMA RestsFit ==
  ASSUME NEW l
  PROVE  TickText("idle", l) /\ TickText("idle", l)'
BY DEF TickText, Reading, Naming, Running

LEMMA NoJobs ==
  /\ DOMAIN <<>> = {} /\ <<>> = [b \in DOMAIN <<>> |-> <<>>[b]]
OBVIOUS

LEMMA WipeInsightsFits ==
  ASSUME Inv, WipeInsights
  PROVE  Inv'
<1>1. /\ UNCHANGED <<rows, live, pc, local>> /\ doomed' = live /\ compaction' = NoRow /\ jobs' = <<>>
      /\ cursor' = [s \in Sources |-> 0] /\ AtRest
      /\ CaptureTyped /\ TypesFit
  BY DEF WipeInsights, tickVars, Inv, TypesFit
<1>2. /\ Stored' = Stored /\ CaptureTyped' /\ \A c : Fit(c) => Fit(c)'
      /\ \A p, l : TickCut(p, l) => TickCut(p, l)'
  BY <1>1, FewerRowsKeepCuts
<1>3. BatchIds' = {} /\ JobsTyped'
  BY <1>1, NoJobs DEF JobsTyped, BatchIds
<1>4. Fit(cursor)'
  <2>1. cursor' \in Cuts /\ \A s \in Sources : cursor'[s] = 0
    BY <1>1 DEF Cuts
  <2>2. live' \ doomed' = {}
    BY <1>1
  <2> QED
    BY <1>1, <2>1, <2>2, RowIs DEF Fit, Within, CutAt
<1>5. TypesFit'
  BY <1>1, <1>2, <1>3, <1>4 DEF TypesFit
<1>6. TextsFit'
  <2>1. \A i \in live' : ~Behind(i)'
    <3> SUFFICES ASSUME NEW i \in live PROVE ~(i =< cursor'[rows[i].source])
      BY <1>1 DEF Behind
    <3>1. i \in Stored /\ rows[i].source \in Sources
      BY <1>1, RowIs DEF CaptureTyped
    <3>2. i >= 1 /\ i \in Nat
      BY <1>1, <3>1, RowIs DEF Stored
    <3> QED
      BY <1>1, <3>1, <3>2
  <2> QED
    BY <1>1, <1>3, <2>1 DEF TextsFit, StateIsGood
<1>7. ASSUME NEW v \in Ticks PROVE TickFit(pc[v], local[v])'
  <2>1. PICK p \in Points, l \in Locals : p = pc[v] /\ l = local[v] /\ TickFit(p, l)
    BY DEF Inv, TypesFit
  <2>2. TickCut(p, l)' /\ (WipeAtRest => TickText(p, l)')
    BY <1>1, <1>2, <2>1, RestsFit DEF TickFit, AtRest
  <2>3. TickFit(p, l)' /\ p = pc'[v] /\ l = local'[v]
    BY <1>1, <2>1, <2>2 DEF TickFit
  <2> QED
    BY <2>3 DEF TickFit, TickCut, TickText, WindowHolds, BatchHolds, PacketHolds, BatchIsGood
<1> QED
  BY <1>5, <1>6, <1>7 DEF Inv

LEMMA DeleteRowsFits ==
  ASSUME Inv, DeleteRows
  PROVE  Inv'
<1>1. /\ UNCHANGED <<rows, cursor, compaction, jobs, pc, local>> /\ live' = live \ doomed /\ doomed' = {}
      /\ AtRest /\ CaptureTyped /\ TypesFit /\ live' = {}
  BY DEF DeleteRows, storeVars, tickVars, Inv, TypesFit, CaptureTyped
<1>2. /\ Stored' = Stored /\ CaptureTyped' /\ \A c : Fit(c) => Fit(c)'
      /\ \A p, l : TickCut(p, l) => TickCut(p, l)'
  BY <1>1, FewerRowsKeepCuts
<1>3. Fit(cursor)'
  <2>1. Fit(cursor) /\ live' \ doomed' = {}
    BY <1>1 DEF TypesFit, CaptureTyped
  <2> QED
    BY <1>1, <2>1 DEF Fit, Within, CutAt
<1>4. JobsTyped'
  BY <1>1, <1>2 DEF TypesFit, JobsTyped, Within, BatchIds
<1>5. TypesFit'
  BY <1>1, <1>2, <1>3, <1>4 DEF TypesFit
<1>6. TextsFit => TextsFit'
  <2>1. \A x : Good(x)' = Good(x)
    BY <1>1 DEF Good, Offered, Shadowed, Overtaken, BatchIds
  <2>2. \A i, b : Crossed(i, b)' = Crossed(i, b)
    BY <1>1 DEF Crossed, Beyond, UpTo, Overtaken
  <2>3. \A i : Behind(i)' = Behind(i) /\ Overtaken(i)' = Overtaken(i)
    BY <1>1 DEF Behind, Overtaken
  <2>4. StateIsGood(compaction)' = StateIsGood(compaction) /\ BatchIds' = BatchIds /\ live' \subseteq live
    BY <1>1, <1>2, <2>1 DEF StateIsGood, BatchIds
  <2> QED
    BY <1>1, <2>1, <2>2, <2>3, <2>4 DEF TextsFit
<1>7. ASSUME NEW v \in Ticks PROVE TickFit(pc[v], local[v])'
  <2>1. PICK p \in Points, l \in Locals : p = pc[v] /\ l = local[v] /\ TickFit(p, l)
    BY DEF Inv, TypesFit
  <2>2. TickCut(p, l)' /\ (WipeAtRest => TickText(p, l)')
    BY <1>1, <1>2, <2>1, RestsFit DEF TickFit, AtRest
  <2>3. TickFit(p, l)' /\ p = pc'[v] /\ l = local'[v]
    BY <1>1, <2>1, <2>2 DEF TickFit
  <2> QED
    BY <2>3 DEF TickFit, TickCut, TickText, WindowHolds, BatchHolds, PacketHolds, BatchIsGood
<1> QED
  BY <1>5, <1>6, <1>7 DEF Inv

LEMMA CrashFits ==
  ASSUME Inv, Crash
  PROVE  Inv'
<1>1. /\ UNCHANGED <<captureVars, storeVars>> /\ TypesFit
      /\ pc' = [v \in Ticks |-> "idle"] /\ local' = [v \in Ticks |-> Fresh]
  BY DEF Crash, Inv
<1>2. pc' \in [Ticks -> Points] /\ local' \in [Ticks -> Locals]
  BY <1>1, FreshFits DEF Points
<1>3. TypesFit' /\ (WipeAtRest => TextsFit')
  BY <1>1, <1>2, SameStore DEF Inv, TypesFit
<1>4. ASSUME NEW v \in Ticks PROVE TickFit(pc[v], local[v])'
  <2>1. pc'[v] = "idle" /\ local'[v] = Fresh /\ ~Fresh.resume
    BY <1>1, FreshFits
  <2> QED
    BY <2>1 DEF TickFit, TickCut, TickText, Reading, Naming, Running
<1> QED
  BY <1>3, <1>4 DEF Inv

LEMMA StutterFits ==
  ASSUME Inv, UNCHANGED vars
  PROVE  Inv'
<1>1. UNCHANGED <<captureVars, storeVars>> /\ UNCHANGED <<pc, local>> /\ TypesFit /\ Onward
  BY SameStore DEF vars, tickVars, Inv
<1>2. TypesFit' /\ (WipeAtRest => TextsFit')
  BY <1>1, SameStore DEF Inv, TypesFit
<1>3. ASSUME NEW v \in Ticks PROVE TickFit(pc[v], local[v])'
  <2>1. PICK p \in Points, l \in Locals : p = pc[v] /\ l = local[v] /\ TickFit(p, l)
    BY <1>1 DEF Inv, TypesFit
  <2>2. TickCut(p, l)' /\ (WipeAtRest => TickText(p, l)')
    BY <1>1, <2>1, CutOfTickStays, TextOfTickStays DEF TickFit
  <2>3. TickFit(p, l)' /\ p = pc'[v] /\ l = local'[v]
    BY <1>1, <2>1, <2>2 DEF TickFit
  <2> QED
    BY <2>3 DEF TickFit, TickCut, TickText, WindowHolds, BatchHolds, PacketHolds, BatchIsGood
<1> QED
  BY <1>2, <1>3 DEF Inv

LEMMA InvInit == Init => Inv
<1> SUFFICES ASSUME Init PROVE Inv
  OBVIOUS
<1>1. /\ rows = <<>> /\ live = {} /\ doomed = {} /\ jobs = <<>> /\ compaction = NoRow
      /\ cursor = [s \in Sources |-> 0]
      /\ pc = [v \in Ticks |-> "idle"] /\ local = [v \in Ticks |-> Fresh]
  BY DEF Init
<1>2. Len(rows) = 0 /\ rows \in Seq(CaptureRow) /\ Stored = {}
  <2>1. <<>> \in Seq(CaptureRow) /\ Len(<<>>) = 0 /\ 1 .. 0 = {}
    OBVIOUS
  <2> QED
    BY <1>1, <2>1 DEF Stored
<1>3. CaptureTyped
  <2>1. 0 \in Nat
    OBVIOUS
  <2> QED
    BY <1>1, <1>2, <2>1 DEF CaptureTyped
<1>4. Fit(cursor)
  <2>1. cursor \in Cuts /\ \A s \in Sources : cursor[s] =< Len(rows)
    BY <1>1, <1>2 DEF Cuts
  <2> QED
    BY <1>1, <2>1 DEF Fit, Within, CutAt
<1>5. BatchIds = {} /\ JobsTyped
  BY <1>1, NoJobs DEF JobsTyped, BatchIds
<1>6. pc \in [Ticks -> Points] /\ local \in [Ticks -> Locals]
  BY <1>1, FreshFits DEF Points
<1>7. TextsFit
  BY <1>1, <1>5 DEF TextsFit, StateIsGood
<1>8. \A v \in Ticks : TickFit(pc[v], local[v])
  BY <1>1, FreshFits
<1> QED
  BY <1>1, <1>3, <1>4, <1>5, <1>6, <1>7, <1>8 DEF Inv, TypesFit

LEMMA InvNext == Inv /\ [Next]_vars => Inv'
<1> SUFFICES ASSUME Inv, [Next]_vars PROVE Inv'
  OBVIOUS
<1>1. ASSUME NEW s \in Sources, NEW text \in Texts, Capture(s, text) PROVE Inv'
  BY <1>1, CaptureFits
<1>2. ASSUME NEW w \in Ticks, Advance(w) PROVE Inv'
  <2>1. CASE StartTick(w)
    BY <2>1, StartTickFits
  <2>2. CASE ReadFrameCursor(w) \/ ReadEventCursor(w)
    BY <2>2, ReadFrameCursorFits, ReadEventCursorFits
  <2>15. CASE ReadFrames(w) \/ ReadEvents(w) \/ CutWindow(w)
    BY <2>15, ReadFramesFits, ReadEventsFits, CutWindowFits
  <2>3. CASE ReadPrior(w)
    BY <2>3, ReadPriorFits
  <2>4. CASE Compact(w)
    BY <2>4, CompactFits
  <2>5. CASE LookUp(w)
    BY <2>5, LookUpFits
  <2>6. CASE FindJob(w)
    BY <2>6, FindJobFits
  <2>7. CASE InsertJob(w)
    BY <2>7, InsertJobFits
  <2>8. CASE ClaimJob(w)
    BY <2>8, ClaimJobFits
  <2>9. CASE ProviderAnswers(w)
    BY <2>9, CallFits
  <2>10. CASE ReadStatus(w) \/ CommitOutput(w) \/ RefuseOutput(w)
    BY <2>10, ApplyFits
  <2>11. CASE RecordAttempt(w) \/ RecordFails(w)
    BY <2>11, RecordFits
  <2>12. CASE MarkJob(w)
    BY <2>12, MarkJobFits
  <2>13. CASE AfterError(w)
    BY <2>13, AfterErrorFits
  <2>14. CASE CommitCheckpoint(w)
    BY <2>14, CommitCheckpointFits
  <2> QED
    BY <1>2, <2>1, <2>2, <2>3, <2>4, <2>5, <2>6, <2>7, <2>8, <2>9, <2>10, <2>11, <2>12, <2>13, <2>14, <2>15
       DEF Advance
<1>3. ASSUME NEW w \in Ticks, NoRuntime(w) \/ ProviderFails(w) PROVE Inv'
  BY <1>3, CallFits
<1>4. CASE WipeInsights
  BY <1>4, WipeInsightsFits
<1>5. CASE DeleteRows
  BY <1>5, DeleteRowsFits
<1>6. CASE Crash
  BY <1>6, CrashFits
<1>7. CASE UNCHANGED vars
  BY <1>7, StutterFits
<1> QED
  BY <1>1, <1>2, <1>3, <1>4, <1>5, <1>6, <1>7 DEF Next

LEMMA InvHolds == Spec => []Inv
BY InvInit, InvNext, PTL DEF Spec

-----------------------------------------------------------------------------
(* Whatever overlaps, fails, crashes or is deleted, the two cursors cut the  *)
(* captured rows at one point in time: next_source_records merges the pages  *)
(* before it cuts them, and maybe_explore moves the cursors to the rows that *)
(* were left.  Two kinds of rows are excepted: one that changed places with  *)
(* another of its source, and a frame stored while a tick had read its page  *)
(* of frames and not yet its page of events.                                *)
THEOREM CursorsCut == Spec => []CursorsCutInTime
<1>1. ASSUME Inv PROVE CursorsCutInTime
  <2>1. CaptureTyped /\ Fit(cursor)
    BY <1>1 DEF Inv, TypesFit
  <2>2. ASSUME NEW j \in live \ doomed, ~Behind(j), ~Overtakes(j), ~rows[j].amid PROVE Ahead(cursor, j)
    <3>1. j \in Nat /\ cursor[rows[j].source] \in Nat
      BY <2>1, RowIs DEF CaptureTyped, Fit, Cuts
    <3> QED
      BY <2>2, <3>1 DEF Behind, Ahead
  <2> QED
    BY <2>1, <2>2 DEF CursorsCutInTime, Fit, CutAt, Behind
<1> QED
  BY <1>1, InvHolds, PTL

(* No text is consumed without having been offered to the Explorer, as long  *)
(* as everything is deleted only while no tick runs: delete_all_insights_data *)
(* does not stop a tick, and the run explorer_wipe shows one that goes on.    *)
THEOREM TextsAreOffered == WipeAtRest => (Spec => []EveryTextOffered)
<1> SUFFICES ASSUME WipeAtRest PROVE Spec => []EveryTextOffered
  OBVIOUS
<1>1. Inv => EveryTextOffered
  BY DEF Inv, TextsFit, Good, EveryTextOffered
<1> QED
  BY <1>1, InvHolds, PTL
=============================================================================
