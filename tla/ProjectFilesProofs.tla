-------------------------- MODULE ProjectFilesProofs --------------------------
(***************************************************************************)
(* Proofs about ProjectFiles: process_changes never panics on what an      *)
(* editor and a watcher can send, and the overlays are the editor's        *)
(* buffers after every batch.  Both follow from what the fold of the       *)
(* pending events says of each file (EditorSeen), which in turn needs that *)
(* one more event is folded into what the events before it left            *)
(* (EventsOfAppend): the fold is a recursive function, whose existence and *)
(* uniqueness are shown with the least number at which they would fail.    *)
(* Then the program follows the disk: what is stale in the cache or in the *)
(* program is told by an event that is pending or queued, and no folding   *)
(* takes that event away (Followed).                                       *)
(***************************************************************************)
EXTENDS ProjectFiles, FiniteSetTheorems, NaturalsInduction, TLAPS

-----------------------------------------------------------------------------
(* The fold of a batch.                                                    *)

Text == Texts \cup {NoText}

Events == [open : Text, closed : BOOLEAN, watchChanged : BOOLEAN, changes : Text,
           saved : BOOLEAN, created : BOOLEAN, deleted : BOOLEAN, panic : BOOLEAN]

(* The events of the files after i changes of the batch b, given those     *)
(* after i - 1.                                                            *)
StepOf(b, h, i) ==
  IF i = 0 THEN [f \in Files |-> NoEvents]
  ELSE [h[i - 1] EXCEPT ![b[i].file] = FoldEvent(@, b[i])]

IsFold(b, h, n) == h = [i \in 0 .. n |-> StepOf(b, h, i)]

(* A set of numbers that has a member has a least one.                     *)
LEMMA LeastNumber ==
  ASSUME NEW S \in SUBSET Nat, S # {}
  PROVE  \E m \in S : \A k \in S : m <= k
<1> DEFINE R == OpToRel(<, Nat)
<1>1. IsWellFoundedOn(R, Nat)
  BY NatLessThanWellFounded
<1>2. \A x, y \in Nat : x < y => <<x, y>> \in R
  BY DEF OpToRel
<1> HIDE DEF R
<1>3. PICK x \in S : \A y \in S : ~ (<<y, x>> \in R)
  BY <1>1, WFMin
<1>4. \A y \in S : ~ (y < x)
  BY <1>2, <1>3
<1>5. \A y \in S : x <= y
  BY <1>4
<1> QED
  BY <1>5

(* A batch can be folded up to any of its changes ...                      *)
LEMMA FoldExists ==
  ASSUME NEW b, NEW n \in Nat
  PROVE  \E h : IsFold(b, h, n)
<1> DEFINE Bad == {m \in Nat : ~ \E h : IsFold(b, h, m)}
<1> SUFFICES ASSUME Bad # {} PROVE FALSE
  OBVIOUS
<1>1. PICK m \in Bad : \A k \in Bad : m <= k
  <2>1. Bad \in SUBSET Nat
    OBVIOUS
  <2> HIDE DEF Bad
  <2> QED
    BY <2>1, LeastNumber
<1>2. m # 0
  <2>1. IsFold(b, [i \in 0 .. 0 |-> [f \in Files |-> NoEvents]], 0)
    BY DEF IsFold, StepOf
  <2> QED
    BY <2>1
<1>3. m - 1 \in Nat /\ m - 1 \notin Bad
  BY <1>1, <1>2
<1>4. PICK h : IsFold(b, h, m - 1)
  BY <1>3
<1> DEFINE g == [i \in 0 .. m |-> IF i = m THEN StepOf(b, h, m) ELSE h[i]]
<1>5. ASSUME NEW i \in 0 .. m PROVE g[i] = StepOf(b, g, i)
  <2>1. CASE i = m
    <3>1. g[m - 1] = h[m - 1]
      BY <1>3
    <3> QED
      BY <1>2, <2>1, <3>1 DEF StepOf
  <2>2. CASE i # m
    <3>1. i \in 0 .. m - 1
      BY <1>3, <2>2
    <3>2. g[i] = h[i] /\ h[i] = StepOf(b, h, i)
      BY <1>4, <2>2, <3>1 DEF IsFold
    <3>3. i # 0 => g[i - 1] = h[i - 1]
      BY <1>3, <3>1
    <3> QED
      BY <3>2, <3>3 DEF StepOf
  <2> QED
    BY <2>1, <2>2
<1>6. IsFold(b, g, m)
  <2>1. g = [i \in 0 .. m |-> g[i]]
    OBVIOUS
  <2> HIDE DEF g
  <2>2. [i \in 0 .. m |-> g[i]] = [i \in 0 .. m |-> StepOf(b, g, i)]
    BY <1>5
  <2> QED
    BY <2>1, <2>2 DEF IsFold
<1> QED
  BY <1>1, <1>6

(* ... in one way, which depends on the changes up to there only.          *)
LEMMA FoldUnique ==
  ASSUME NEW b, NEW c, NEW n \in Nat, NEW m \in Nat, n <= m, NEW h, NEW g,
         IsFold(b, h, n), IsFold(c, g, m), \A i \in 1 .. n : b[i] = c[i]
  PROVE  \A i \in 0 .. n : h[i] = g[i]
<1> DEFINE Bad == {i \in 0 .. n : h[i] # g[i]}
<1> SUFFICES ASSUME Bad # {} PROVE FALSE
  OBVIOUS
<1>1. PICK k \in Bad : \A j \in Bad : k <= j
  <2>1. Bad \in SUBSET Nat
    OBVIOUS
  <2> HIDE DEF Bad
  <2> QED
    BY <2>1, LeastNumber
<1>2. h[k] = StepOf(b, h, k) /\ g[k] = StepOf(c, g, k)
  <2>1. k \in 0 .. n /\ k \in 0 .. m
    OBVIOUS
  <2>2. \A i \in 0 .. n : h[i] = StepOf(b, h, i)
    BY DEF IsFold
  <2>3. \A i \in 0 .. m : g[i] = StepOf(c, g, i)
    BY DEF IsFold
  <2> HIDE DEF Bad
  <2> QED
    BY <2>1, <2>2, <2>3
<1>3. k # 0
  BY <1>2 DEF StepOf
<1>4. k - 1 \in 0 .. n /\ k \in 1 .. n
  BY <1>3
<1>5. k - 1 \notin Bad
  <2>1. k \in Int /\ ~(k <= k - 1)
    BY <1>4
  <2> QED
    BY <1>1, <2>1
<1>6. h[k - 1] = g[k - 1]
  BY <1>4, <1>5
<1>7. h[k] = g[k]
  BY <1>2, <1>3, <1>4, <1>6 DEF StepOf
<1> QED
  BY <1>7

(* FileEvents is the last state of the fold.                               *)
LEMMA EventsAreFold ==
  ASSUME NEW S, NEW b \in Seq(S), NEW h, IsFold(b, h, Len(b))
  PROVE  FileEvents(b) = h[Len(b)]
<1> DEFINE n == Len(b)
           a == CHOOSE a : a = [i \in 0 .. n |-> StepOf(b, a, i)]
<1>1. n \in Nat
  OBVIOUS
<1>2. FileEvents(b) = a[n]
  BY DEF FileEvents, StepOf
<1>3. IsFold(b, a, n)
  BY DEF IsFold
<1> HIDE DEF a, n
<1>4. \A i \in 0 .. n : a[i] = h[i]
  <2>1. IsFold(b, h, n)
    BY DEF n
  <2> QED
    BY <1>1, <1>3, <2>1, FoldUnique
<1>5. a[n] = h[n]
  BY <1>1, <1>4
<1> QED
  BY <1>2, <1>5 DEF n

(* No changes leave no events, ...                                         *)
LEMMA EventsOfNone == FileEvents(<<>>) = [f \in Files |-> NoEvents]
<1>1. PICK h : IsFold(<<>>, h, 0)
  BY FoldExists
<1>2. <<>> \in Seq(Change) /\ Len(<<>>) = 0
  OBVIOUS
<1>3. FileEvents(<<>>) = h[0]
  BY <1>1, <1>2, EventsAreFold
<1>4. h[0] = StepOf(<<>>, h, 0)
  BY <1>1 DEF IsFold
<1> QED
  BY <1>3, <1>4 DEF StepOf

(* ... and one more change is folded into the events of those before it.   *)
LEMMA EventsOfAppend ==
  ASSUME NEW b \in Seq(Change), NEW c \in Change
  PROVE  FileEvents(Append(b, c)) = [FileEvents(b) EXCEPT ![c.file] = FoldEvent(@, c)]
<1> DEFINE d == Append(b, c)
           n == Len(b)
<1>1. /\ d \in Seq(Change) /\ Len(d) = n + 1 /\ n \in Nat /\ d[n + 1] = c
      /\ \A i \in 1 .. n : d[i] = b[i]
  OBVIOUS
<1> HIDE DEF d
<1>2. PICK h : IsFold(b, h, n)
  BY <1>1, FoldExists
<1>3. n + 1 \in Nat /\ n <= n + 1
  BY <1>1
<1>4. PICK g : IsFold(d, g, n + 1)
  BY <1>3, FoldExists
<1>5. FileEvents(b) = h[n]
  BY <1>2, EventsAreFold
<1>6. FileEvents(d) = g[n + 1]
  <2>1. IsFold(d, g, Len(d))
    BY <1>1, <1>4
  <2> HIDE DEF n
  <2> QED
    BY <1>1, <2>1, EventsAreFold
<1> HIDE DEF n
<1>7. h[n] = g[n]
  <2>1. \A i \in 1 .. n : b[i] = d[i]
    BY <1>1
  <2>2. \A i \in 0 .. n : h[i] = g[i]
    BY <1>1, <1>2, <1>3, <1>4, <2>1, FoldUnique
  <2> QED
    BY <1>1, <2>2
<1>8. g[n + 1] = StepOf(d, g, n + 1)
  <2>1. n + 1 \in 0 .. n + 1
    BY <1>1
  <2>2. \A i \in 0 .. n + 1 : g[i] = StepOf(d, g, i)
    BY <1>4 DEF IsFold
  <2> QED
    BY <2>1, <2>2
<1>9. g[n + 1] = [g[n] EXCEPT ![c.file] = FoldEvent(@, c)]
  <2>1. n + 1 # 0 /\ (n + 1) - 1 = n
    BY <1>1
  <2> QED
    BY <1>1, <1>8, <2>1 DEF StepOf
<1> QED
  BY <1>5, <1>6, <1>7, <1>9 DEF d

-----------------------------------------------------------------------------
(* What the pending events of a file, e, say of the editor's buffer b when *)
(* its overlay has the text o: no open is among them, it is closed at most *)
(* once and nothing is said of it after that, and the last change has the  *)
(* text of the buffer.                                                     *)
EditorSeen(o, e, b) ==
  /\ e.open = NoText /\ ~e.panic
  /\ e.closed => o # NoText /\ b = NoText /\ e.changes = NoText /\ ~e.saved
  /\ ~e.closed /\ o # NoText => b = IF e.changes # NoText THEN e.changes ELSE o
  /\ ~e.closed /\ o = NoText => b = NoText /\ e.changes = NoText /\ ~e.saved

BuffersSeen ==
  \A f \in Files : EditorSeen(overlays[f].text, FileEvents(pending)[f], buffer[f])

(* The watcher sends watch events only.                                    *)
WatchedOnly == \A i \in DOMAIN watchq : watchq[i].kind \in WatchKinds

EventsTyped == FileEvents(pending) \in [Files -> Events]

IInv == TypeOK /\ EventsTyped /\ BuffersSeen /\ WatchedOnly /\ NeverPanics

(* Folding an event keeps the record's type ...                            *)
LEMMA FoldType ==
  ASSUME NEW e \in Events, NEW c \in Change
  PROVE  FoldEvent(e, c) \in Events
<1>1. c.text \in Text /\ c.kind \in Kinds
  BY DEF Change, Text
<1>2. NoEvents \in Events
  BY DEF NoEvents, Events, Text
<1>3. CASE e.open # NoText
  BY <1>3 DEF FoldEvent, Events
<1>4. CASE e.open = NoText
  <2>1. CASE c.kind = "open"
    BY <1>1, <1>2, <1>4, <2>1 DEF FoldEvent, Events
  <2>2. CASE c.kind = "close"
    BY <1>4, <2>2 DEF FoldEvent, Events, Text
  <2>3. CASE c.kind = "change"
    BY <1>1, <1>4, <2>3 DEF FoldEvent, Events
  <2>4. CASE c.kind = "save"
    BY <1>4, <2>4 DEF FoldEvent, Events
  <2>5. CASE c.kind = "watchCreate"
    BY <1>4, <2>5 DEF FoldEvent, Events
  <2>6. CASE c.kind = "watchChange"
    BY <1>4, <2>6 DEF FoldEvent, Events
  <2>7. CASE c.kind = "watchDelete"
    BY <1>4, <2>7 DEF FoldEvent, Events
  <2> QED
    BY <1>1, <2>1, <2>2, <2>3, <2>4, <2>5, <2>6, <2>7 DEF Kinds, WatchKinds
<1> QED
  BY <1>3, <1>4

(* ... and what the events say of the buffer.                              *)
LEMMA FoldWatch ==
  ASSUME NEW e \in Events, NEW c \in Change, NEW o, NEW b, EditorSeen(o, e, b),
         c.kind \in WatchKinds
  PROVE  EditorSeen(o, FoldEvent(e, c), b)
<1>1. e.open = NoText
  BY DEF EditorSeen
<1> DEFINE n == FoldEvent(e, c)
<1>2. /\ n.open = e.open /\ n.panic = e.panic /\ n.closed = e.closed /\ n.changes = e.changes
      /\ n.saved => e.saved
  <2>1. CASE c.kind = "watchCreate"
    BY <1>1, <2>1 DEF FoldEvent, Events
  <2>2. CASE c.kind = "watchChange"
    BY <1>1, <2>2 DEF FoldEvent, Events
  <2>3. CASE c.kind = "watchDelete"
    BY <1>1, <2>3 DEF FoldEvent, Events
  <2> QED
    BY <2>1, <2>2, <2>3 DEF WatchKinds
<1> HIDE DEF n
<1>3. EditorSeen(o, n, b)
  BY <1>2 DEF EditorSeen
<1> QED
  BY <1>3 DEF n

(* The same for what the editor sends about an open file.                  *)
LEMMA FoldEditor ==
  ASSUME NEW e \in Events, NEW c \in Change, NEW o, NEW b, EditorSeen(o, e, b), b # NoText
  PROVE  /\ c.kind = "close" => EditorSeen(o, FoldEvent(e, c), NoText)
         /\ c.kind = "change" /\ c.text # NoText => EditorSeen(o, FoldEvent(e, c), c.text)
         /\ c.kind = "save" => EditorSeen(o, FoldEvent(e, c), b)
<1>1. e.open = NoText /\ ~e.panic /\ ~e.closed /\ o # NoText
  BY DEF EditorSeen, Events
<1> DEFINE n == FoldEvent(e, c)
<1>2. CASE c.kind = "close"
  <2>1. n.open = NoText /\ ~n.panic /\ n.closed /\ n.changes = NoText /\ ~n.saved
    BY <1>1, <1>2 DEF FoldEvent, Events
  <2> QED
    BY <1>1, <1>2, <2>1 DEF EditorSeen
<1>3. CASE c.kind = "change" /\ c.text # NoText
  <2>1. n.open = NoText /\ ~n.panic /\ ~n.closed /\ n.changes = c.text
    BY <1>1, <1>3 DEF FoldEvent, Events
  <2> HIDE DEF n
  <2>2. EditorSeen(o, n, c.text)
    BY <1>1, <1>3, <2>1 DEF EditorSeen
  <2> QED
    BY <1>3, <2>2 DEF n
<1>4. CASE c.kind = "save"
  <2>1. n.open = NoText /\ ~n.panic /\ ~n.closed /\ n.changes = e.changes
    BY <1>1, <1>4 DEF FoldEvent, Events
  <2> HIDE DEF n
  <2>2. EditorSeen(o, n, b)
    BY <1>1, <2>1 DEF EditorSeen
  <2> QED
    BY <1>4, <2>2 DEF n
<1> QED
  BY <1>2, <1>3, <1>4

(* Opening: the record starts again.                                       *)
LEMMA FoldOpen ==
  ASSUME NEW e \in Events, NEW c \in Change, e.open = NoText, ~e.panic, c.kind = "open"
  PROVE  /\ FoldEvent(e, c).open = c.text /\ ~FoldEvent(e, c).panic
  BY DEF FoldEvent, NoEvents, Events

(* A change is queued: the events of its file go on, the others' stay.     *)
LEMMA QueuedType ==
  ASSUME TypeOK, EventsTyped, NEW c \in Change
  PROVE  /\ FileEvents(Append(pending, c)) \in [Files -> Events]
         /\ c.file \in Files
         /\ FileEvents(Append(pending, c))[c.file] = FoldEvent(FileEvents(pending)[c.file], c)
         /\ \A f \in Files : f # c.file => FileEvents(Append(pending, c))[f] = FileEvents(pending)[f]
<1> DEFINE E == FileEvents(pending)
           N == FileEvents(Append(pending, c))
<1>1. N = [E EXCEPT ![c.file] = FoldEvent(@, c)]
  BY EventsOfAppend DEF TypeOK
<1>2. E \in [Files -> Events] /\ c.file \in Files
  BY DEF EventsTyped, Change
<1> HIDE DEF E, N
<1>3. FoldEvent(E[c.file], c) \in Events
  BY <1>2, FoldType
<1>4. N \in [Files -> Events] /\ N[c.file] = FoldEvent(E[c.file], c) /\ \A f \in Files : f # c.file => N[f] = E[f]
  BY <1>1, <1>2, <1>3
<1> QED
  BY <1>2, <1>4 DEF E, N

(* Queueing an event keeps the invariant if the buffer does what it says.  *)
LEMMA Queued ==
  ASSUME IInv, TypeOK', WatchedOnly', NEW c \in Change, pending' = Append(pending, c),
         overlays' = overlays, panicked' = panicked,
         \A f \in Files : f # c.file => buffer'[f] = buffer[f],
         \/ c.kind \in WatchKinds /\ buffer' = buffer
         \/ /\ buffer[c.file] # NoText
            /\ \/ c.kind = "close" /\ buffer'[c.file] = NoText
               \/ c.kind = "change" /\ c.text # NoText /\ buffer'[c.file] = c.text
               \/ c.kind = "save" /\ buffer'[c.file] = buffer[c.file]
  PROVE  IInv'
<1> DEFINE E == FileEvents(pending)
           N == FileEvents(Append(pending, c))
<1>0. TypeOK /\ EventsTyped /\ BuffersSeen /\ NeverPanics
  BY DEF IInv
<1>1. /\ N \in [Files -> Events] /\ c.file \in Files /\ N[c.file] = FoldEvent(E[c.file], c)
      /\ \A f \in Files : f # c.file => N[f] = E[f]
  BY <1>0, QueuedType
<1>2. E \in [Files -> Events] /\ \A f \in Files : EditorSeen(overlays[f].text, E[f], buffer[f])
  BY <1>0 DEF EventsTyped, BuffersSeen
<1>3. FileEvents(pending)' = N
  OBVIOUS
<1> HIDE DEF E, N
<1>4. ASSUME NEW f \in Files PROVE EditorSeen(overlays[f].text, N[f], buffer'[f])
  <2>1. CASE f # c.file
    BY <1>1, <1>2, <2>1
  <2>2. CASE f = c.file
    <3>1. E[f] \in Events /\ EditorSeen(overlays[f].text, E[f], buffer[f]) /\ N[f] = FoldEvent(E[f], c)
      BY <1>1, <1>2, <2>2
    <3>2. CASE c.kind \in WatchKinds
      <4>1. EditorSeen(overlays[f].text, FoldEvent(E[f], c), buffer[f])
        BY <3>1, <3>2, FoldWatch
      <4>2. buffer'[f] = buffer[f]
        BY <3>2 DEF WatchKinds
      <4> QED
        BY <3>1, <4>1, <4>2
    <3>3. CASE c.kind \notin WatchKinds
      <4>1. buffer[f] # NoText
        BY <2>2, <3>3
      <4>2. /\ c.kind = "close" => EditorSeen(overlays[f].text, FoldEvent(E[f], c), NoText)
            /\ c.kind = "change" /\ c.text # NoText => EditorSeen(overlays[f].text, FoldEvent(E[f], c), c.text)
            /\ c.kind = "save" => EditorSeen(overlays[f].text, FoldEvent(E[f], c), buffer[f])
        BY <3>1, <4>1, FoldEditor
      <4> QED
        BY <2>2, <3>1, <3>3, <4>2
    <3> QED
      BY <3>2, <3>3
  <2> QED
    BY <2>1, <2>2
<1>5. BuffersSeen'
  BY <1>3, <1>4 DEF BuffersSeen
<1>6. EventsTyped'
  BY <1>1, <1>3 DEF EventsTyped
<1> QED
  BY <1>0, <1>5, <1>6 DEF IInv, NeverPanics

-----------------------------------------------------------------------------
(* A batch is processed.                                                   *)

(* The overlay is the buffer the events tell of ...                        *)
LEMMA OverlaySeen ==
  ASSUME NEW f \in Files, NEW e \in Events, NEW b, EditorSeen(overlays[f].text, e, b)
  PROVE  NewOverlay(f, e).text = b
  BY DEF EditorSeen, NewOverlay, NoOverlay, IsOpen, Events

(* ... and nothing panics, if one file at most is opened.                  *)
LEMMA NoPanic ==
  ASSUME NEW ev \in [Files -> Events], NEW g,
         \A f \in Files : f # g => \E b : EditorSeen(overlays[f].text, ev[f], b),
         g \in Files => ev[g].open # NoText /\ ~ev[g].panic
  PROVE  ~ProcessPanics(ev)
<1>1. ASSUME NEW f \in Files
      PROVE  ~(\/ ev[f].panic
               \/ ev[f].open = NoText /\ ev[f].closed /\ ~IsOpen(f)
               \/ /\ ev[f].open = NoText /\ (ev[f].changes # NoText \/ ev[f].saved)
                  /\ ev[f].closed \/ ~IsOpen(f))
  <2>1. CASE f = g
    BY <2>1
  <2>2. CASE f # g
    <3>1. PICK b : EditorSeen(overlays[f].text, ev[f], b)
      BY <2>2
    <3>2. ev[f] \in Events
      OBVIOUS
    <3> QED
      BY <3>1, <3>2 DEF EditorSeen, IsOpen, Events
  <2> QED
    BY <2>1, <2>2
<1> DEFINE opens == {f \in Files : ev[f].open # NoText}
<1>2. opens \subseteq {g}
  BY DEF EditorSeen
<1>3. opens = {} \/ opens = {g}
  BY <1>2
<1>4. Cardinality(opens) = 0 \/ Cardinality(opens) = 1
  BY <1>3, FS_EmptySet, FS_Singleton
<1>5. ~(Cardinality(opens) > 1)
  BY <1>4
<1> QED
  BY <1>1, <1>5 DEF ProcessPanics

(* The types of what a batch is turned into.                               *)
LEMMA OverlayType ==
  ASSUME TypeOK, NEW f \in Files, NEW e \in Events
  PROVE  NewOverlay(f, e) \in Overlay
<1>1. overlays[f] \in Overlay /\ disk[f] \in Text
  BY DEF TypeOK, Text
<1>2. overlays[f].text \in Text /\ overlays[f].matches \in BOOLEAN
  BY <1>1 DEF Overlay, Text
<1>3. e.open \in Text /\ e.changes \in Text /\ e.saved \in BOOLEAN /\ e.watchChanged \in BOOLEAN
  BY DEF Events
<1> QED
  BY <1>2, <1>3 DEF NewOverlay, NoOverlay, Overlay, Text

Marks == [dirty : BOOLEAN, dirtyFile : Files \cup {NoFile}]

(* mark_files_changed leaves a dirty flag and a file.                      *)
LEMMA MarkType ==
  ASSUME NEW p \in Marks, NEW S \in SUBSET Files, NEW kind
  PROVE  MarkFilesChanged(p, S, kind) \in Marks
<1> DEFINE hit    == S \cap {f \in Files : program[f] # NoText}
           missed == S \ hit
           single == hit \cup (IF p.dirtyFile = NoFile THEN {} ELSE {p.dirtyFile})
<1>1. single \subseteq Files
  BY DEF Marks
<1>2. Cardinality(single) = 1 => (CHOOSE f \in single : TRUE) \in Files
  <2>1. Cardinality(single) = 1 => single # {}
    BY FS_EmptySet
  <2> HIDE DEF single
  <2> QED
    BY <1>1, <2>1
<1>3. MarkFilesChanged(p, S, kind) =
        IF S = {} \/ (p.dirty /\ p.dirtyFile = NoFile) THEN p
        ELSE [dirty |-> TRUE,
              dirtyFile |-> IF missed = {} /\ kind # "deleted" /\ Cardinality(single) = 1
                            THEN CHOOSE f \in single : TRUE ELSE NoFile]
  BY DEF MarkFilesChanged
<1> HIDE DEF missed, single
<1> QED
  BY <1>2, <1>3 DEF Marks

Summary == [opened : SUBSET Files, reopened : SUBSET Files, closed : SUBSET Files,
            changed : SUBSET Files, created : SUBSET Files, deleted : SUBSET Files,
            watched : SUBSET Files]

(* The summary of a batch is about files.                                  *)
LEMMA SummaryType ==
  ASSUME NEW batch \in Seq(Change), NEW ev
  PROVE  ProcessChanges(batch, ev) \in Summary
<1>1. \A i \in DOMAIN batch : batch[i].file \in Files
  <2>1. \A i \in DOMAIN batch : batch[i] \in Change
    OBVIOUS
  <2>2. \A c \in Change : c.file \in Files
    BY DEF Change
  <2> QED
    BY <2>1, <2>2
<1> QED
  BY <1>1 DEF ProcessChanges, Summary

(* did_change_files, by its three kinds of events.                         *)
LEMMA DidChangeType ==
  ASSUME TypeOK, NEW s \in Summary
  PROVE  DidChangeFiles(s) \in Marks
<1> DEFINE p == [dirty |-> dirty, dirtyFile |-> dirtyFile]
           m1 == MarkFilesChanged(p, s.changed, "changed")
           m2 == MarkFilesChanged(m1, s.deleted, "deleted")
<1>1. p \in Marks
  BY DEF TypeOK, Marks
<1>2. s.changed \in SUBSET Files /\ s.deleted \in SUBSET Files /\ s.created \in SUBSET Files
  BY DEF Summary
<1>3. m1 \in Marks
  BY <1>1, <1>2, MarkType
<1>4. m2 \in Marks
  BY <1>2, <1>3, MarkType
<1>5. MarkFilesChanged(m2, s.created, "created") \in Marks
  BY <1>2, <1>4, MarkType
<1>6. [dirty |-> TRUE, dirtyFile |-> NoFile] \in Marks
  BY DEF Marks
<1> QED
  BY <1>5, <1>6 DEF DidChangeFiles

Update == [cache : [Files -> Cached], summary : Summary]

(* Marking files for a reload keeps the cache's type,                      *)
LEMMA ReloadType ==
  ASSUME TypeOK, NEW S
  PROVE  Reload(S) \in [Files -> Cached]
  BY DEF TypeOK, Reload, Cached

(* as does the bulk path of clone_snapshot                                 *)
LEMMA BulkType ==
  ASSUME TypeOK, NEW s \in Summary
  PROVE  BulkUpdate(s) \in Update
<1>1. Reload(NodeModules) \in [Files -> Cached] /\ Reload(Files) \in [Files -> Cached]
  BY ReloadType
<1>2. [s EXCEPT !.changed = {}, !.deleted = {}] \in Summary
  BY DEF Summary
<1>3. cache \in [Files -> Cached]
  BY DEF TypeOK
<1> QED
  BY <1>1, <1>2, <1>3 DEF BulkUpdate, Update

(* and the ordinary one.                                                   *)
LEMMA FileType ==
  ASSUME TypeOK, NEW s \in Summary, NEW over
  PROVE  FileUpdate(s, over) \in Update
<1> DEFINE R == Reload(s.changed)
           marked == [f \in Files |-> IF f \in s.deleted THEN NotCached ELSE R[f]]
           gone   == {f \in s.closed : disk[f] = NoText}
           c      == [f \in Files |-> IF f \in s.closed THEN FromDisk(f) ELSE marked[f]]
           created == s.created \cup {f \in s.opened : marked[f] = NotCached}
           changed == s.changed \cup {f \in s.opened : /\ marked[f] # NotCached
                                                      /\ over[f].text # cache[f].text}
                        \cup {f \in s.closed \ gone : disk[f] # overlays[f].text}
           deleted == s.deleted \cup gone
<1>1. R \in [Files -> Cached]
  BY ReloadType
<1>2. NotCached \in Cached
  BY DEF NotCached, Cached
<1>3. \A f \in Files : FromDisk(f) \in Cached
  BY DEF FromDisk, Cached, TypeOK
<1>4. \A f \in Files : marked[f] \in Cached
  <2> HIDE DEF R
  <2> QED
    BY <1>1, <1>2
<1>5. c \in [Files -> Cached]
  <2> HIDE DEF marked
  <2> QED
    BY <1>3, <1>4
<1>6. /\ s.opened \in SUBSET Files /\ s.closed \in SUBSET Files /\ s.created \in SUBSET Files
      /\ s.changed \in SUBSET Files /\ s.deleted \in SUBSET Files
  BY DEF Summary
<1>7. created \in SUBSET Files /\ changed \in SUBSET Files /\ deleted \in SUBSET Files
  <2> HIDE DEF marked
  <2> QED
    BY <1>6
<1>8. FileUpdate(s, over) =
        [cache |-> c, summary |-> [s EXCEPT !.created = created, !.changed = changed, !.deleted = deleted]]
  BY DEF FileUpdate
<1> HIDE DEF c, created, changed, deleted
<1>9. [s EXCEPT !.created = created, !.changed = changed, !.deleted = deleted] \in Summary
  BY <1>7 DEF Summary
<1> QED
  BY <1>5, <1>8, <1>9 DEF Update

(* What update_snapshot_inner leaves has its type, has the overlays of the *)
(* batch's events, and has panicked only if they say so.                   *)
LEMMA UpdateType ==
  ASSUME TypeOK, NEW batch \in Seq(Change), FileEvents(batch) \in [Files -> Events],
         NEW requested \in BOOLEAN, NEW cloned \in BOOLEAN,
         UpdateSnapshot(batch, requested, cloned)
  PROVE  /\ overlays' \in [Files -> Overlay] /\ cache' \in [Files -> Cached]
         /\ program' \in [Files -> Text] /\ dirty' \in BOOLEAN /\ dirtyFile' \in Files \cup {NoFile}
         /\ early' \subseteq Files /\ bulk' \subseteq Files
         /\ pending' = <<>> /\ overlays' = NewOverlays(FileEvents(batch))
         /\ panicked' = (panicked \/ ProcessPanics(FileEvents(batch)))
<1> DEFINE ev    == FileEvents(batch)
           s     == ProcessChanges(batch, ev)
           over  == NewOverlays(ev)
           u     == IF Excessive(s) THEN BulkUpdate(s) ELSE FileUpdate(s, over)
           p     == DidChangeFiles(u.summary)
           build == requested /\ p.dirty
           read  == IF build THEN FilesRead(p, u.cache, over, cloned) ELSE {}
           disks == {f \in read : over[f].text = NoText}
           fresh == {f \in disks : u.cache[f].text = NoText \/ u.cache[f].reload}
                      \cup IF Excessive(s) THEN {} ELSE s.closed
           lost  == s.opened \cup s.closed \cup ((s.changed \cup s.deleted)
                                                 \ (u.summary.changed \cup u.summary.deleted))
<1>1. /\ overlays' = over /\ pending' = <<>>
      /\ cache' = [f \in Files |-> IF f \in disks THEN ReadDisk(u.cache, f) ELSE u.cache[f]]
      /\ program' = [f \in Files |-> IF f \notin read THEN program[f]
                                     ELSE IF over[f].text # NoText THEN over[f].text
                                     ELSE cache'[f].text]
      /\ dirty' = (p.dirty /\ ~build)
      /\ dirtyFile' = IF build THEN NoFile ELSE p.dirtyFile
      /\ early' = (early \ fresh) \cup {f \in fresh : Unreported(f)}
      /\ bulk' = IF Excessive(s) THEN bulk \cup lost
                 ELSE bulk \ (u.summary.changed \cup u.summary.deleted)
      /\ panicked' = (panicked \/ ProcessPanics(ev))
  BY DEF UpdateSnapshot
<1>2. ev \in [Files -> Events]
  OBVIOUS
<1> HIDE DEF ev
<1>3. over \in [Files -> Overlay]
  <2>1. \A f \in Files : NewOverlay(f, ev[f]) \in Overlay
    BY <1>2, OverlayType
  <2> QED
    BY <2>1 DEF NewOverlays
<1>4. s \in Summary
  BY SummaryType
<1> HIDE DEF over, s
<1>5. u \in Update
  BY <1>4, BulkType, FileType
<1>6. u.cache \in [Files -> Cached] /\ u.summary \in Summary
  <2> HIDE DEF u
  <2> QED
    BY <1>5 DEF Update
<1> HIDE DEF u
<1>7. p \in Marks
  BY <1>6, DidChangeType
<1>8. p.dirty \in BOOLEAN /\ p.dirtyFile \in Files \cup {NoFile}
  <2> HIDE DEF p
  <2> QED
    BY <1>7 DEF Marks
<1> HIDE DEF p
<1>9. read \subseteq Files
  BY <1>8 DEF FilesRead
<1> HIDE DEF read, build
<1>10. disks \subseteq Files
  BY <1>9
<1>11. cache' \in [Files -> Cached]
  <2>1. \A f \in Files : u.cache[f] \in Cached /\ FromDisk(f) \in Cached
    BY <1>6 DEF FromDisk, Cached, TypeOK
  <2>2. \A f \in Files : ReadDisk(u.cache, f) \in Cached
    BY <2>1 DEF ReadDisk
  <2> HIDE DEF disks
  <2> QED
    BY <1>1, <2>1, <2>2
<1>12. program' \in [Files -> Text]
  <2>1. \A f \in Files : program[f] \in Text /\ over[f].text \in Text /\ cache'[f].text \in Text
    BY <1>3, <1>11 DEF TypeOK, Text, Overlay, Cached
  <2> QED
    BY <1>1, <2>1
<1>13. /\ s.opened \in SUBSET Files /\ s.closed \in SUBSET Files
       /\ s.changed \in SUBSET Files /\ s.deleted \in SUBSET Files
  BY <1>4 DEF Summary
<1>14. early' \subseteq Files
  <2>1. fresh \subseteq Files
    BY <1>10, <1>13
  <2>2. early \subseteq Files
    BY DEF TypeOK
  <2> HIDE DEF fresh
  <2> QED
    BY <1>1, <2>1, <2>2
<1>15. bulk' \subseteq Files
  <2>1. lost \subseteq Files
    BY <1>13
  <2>2. bulk \subseteq Files
    BY DEF TypeOK
  <2> HIDE DEF lost
  <2> QED
    BY <1>1, <2>1, <2>2
<1>16. dirty' \in BOOLEAN /\ dirtyFile' \in Files \cup {NoFile}
  BY <1>1, <1>8
<1>17. overlays' \in [Files -> Overlay]
  BY <1>1, <1>3
<1> QED
  BY <1>1, <1>11, <1>12, <1>14, <1>15, <1>16, <1>17 DEF over, ev

(* Once a batch is processed nothing is pending.                           *)
LEMMA Processed ==
  ASSUME TypeOK, WatchedOnly, pending' = <<>>, panicked' = FALSE, watchq' = watchq,
         disk' = disk, buffer' \in [Files -> Text], ops' \in 0 .. MaxOps,
         overlays' \in [Files -> Overlay], cache' \in [Files -> Cached],
         program' \in [Files -> Text], dirty' \in BOOLEAN, dirtyFile' \in Files \cup {NoFile},
         early' \subseteq Files, bulk' \subseteq Files,
         \A f \in Files : overlays'[f].text = buffer'[f]
  PROVE  IInv'
<1>1. FileEvents(pending)' = [f \in Files |-> NoEvents]
  BY EventsOfNone
<1>2. NoEvents \in Events
  BY DEF NoEvents, Events, Text
<1>3. EventsTyped'
  BY <1>1, <1>2 DEF EventsTyped
<1>4. BuffersSeen'
  BY <1>1 DEF BuffersSeen, EditorSeen, NoEvents
<1>5. TypeOK'
  <2>0. <<>> \in Seq(Change)
    OBVIOUS
  <2>1. pending' \in Seq(Change) /\ panicked' \in BOOLEAN
    BY <2>0
  <2>2. disk' \in [Files -> Texts \cup {NoText}] /\ watchq' \in Seq(Change)
    BY DEF TypeOK
  <2> QED
    BY <2>1, <2>2 DEF TypeOK, Text
<1>6. WatchedOnly' /\ NeverPanics'
  BY DEF WatchedOnly, NeverPanics
<1> QED
  BY <1>3, <1>4, <1>5, <1>6 DEF IInv

(* A batch of the pending changes.                                         *)
LEMMA PendingProcessed ==
  ASSUME IInv, NEW requested \in BOOLEAN, NEW cloned \in BOOLEAN,
         UpdateSnapshot(pending, requested, cloned), UNCHANGED <<disk, buffer, watchq, ops>>
  PROVE  IInv' /\ pending' = <<>>
<1>0. TypeOK /\ EventsTyped /\ BuffersSeen /\ WatchedOnly /\ NeverPanics
  BY DEF IInv
<1>1. pending \in Seq(Change) /\ FileEvents(pending) \in [Files -> Events]
  BY <1>0 DEF TypeOK, EventsTyped
<1>2. /\ overlays' \in [Files -> Overlay] /\ cache' \in [Files -> Cached]
      /\ program' \in [Files -> Text] /\ dirty' \in BOOLEAN /\ dirtyFile' \in Files \cup {NoFile}
      /\ early' \subseteq Files /\ bulk' \subseteq Files
      /\ pending' = <<>> /\ overlays' = NewOverlays(FileEvents(pending))
      /\ panicked' = (panicked \/ ProcessPanics(FileEvents(pending)))
  BY <1>0, <1>1, UpdateType
<1>3. ~ProcessPanics(FileEvents(pending))
  <2>1. \A f \in Files : EditorSeen(overlays[f].text, FileEvents(pending)[f], buffer[f])
    BY <1>0 DEF BuffersSeen
  <2>2. PICK g : g \notin Files
    BY NoSetContainsEverything
  <2> QED
    BY <1>1, <2>1, <2>2, NoPanic
<1>4. \A f \in Files : overlays'[f].text = buffer'[f]
  <2> SUFFICES ASSUME NEW f \in Files PROVE NewOverlay(f, FileEvents(pending)[f]).text = buffer[f]
    BY <1>2 DEF NewOverlays
  <2>1. EditorSeen(overlays[f].text, FileEvents(pending)[f], buffer[f])
    BY <1>0 DEF BuffersSeen
  <2>2. FileEvents(pending)[f] \in Events
    BY <1>1
  <2> QED
    BY <2>1, <2>2, OverlaySeen
<1>5. panicked' = FALSE
  BY <1>0, <1>2, <1>3 DEF NeverPanics
<1>6. buffer' \in [Files -> Text] /\ ops' \in 0 .. MaxOps
  BY <1>0 DEF TypeOK, Text
<1>7. IInv'
  BY <1>0, <1>2, <1>4, <1>5, <1>6, Processed
<1> QED
  BY <1>2, <1>7

(* A batch that ends with an open: it is processed at once.                *)
LEMMA OpenProcessed ==
  ASSUME IInv, NEW f \in Files, NEW x \in Texts, NEW cloned \in BOOLEAN, DidOpenFile(f, x, cloned)
  PROVE  IInv'
<1> USE TextsAssumption
<1> DEFINE c == Chg("open", f, x)
           B == Append(pending, c)
           E == FileEvents(pending)
           N == FileEvents(B)
<1>0. TypeOK /\ EventsTyped /\ BuffersSeen /\ WatchedOnly /\ NeverPanics
  BY DEF IInv
<1>1. c \in Change /\ c.file = f /\ c.kind = "open" /\ c.text = x
  BY DEF Chg, Change, Kinds, WatchKinds
<1>2. B \in Seq(Change) /\ E \in [Files -> Events]
  BY <1>0, <1>1 DEF TypeOK, EventsTyped
<1>3. N \in [Files -> Events] /\ N[f] = FoldEvent(E[f], c) /\ \A g \in Files : g # f => N[g] = E[g]
  <2> HIDE DEF c, E
  <2>1. /\ FileEvents(Append(pending, c)) \in [Files -> Events]
        /\ FileEvents(Append(pending, c))[c.file] = FoldEvent(FileEvents(pending)[c.file], c)
        /\ \A g \in Files : g # c.file => FileEvents(Append(pending, c))[g] = FileEvents(pending)[g]
    BY <1>0, <1>1, QueuedType
  <2> QED
    BY <1>1, <2>1 DEF E
<1>4. /\ UpdateSnapshot(B, TRUE, cloned) /\ UNCHANGED <<disk, watchq>>
      /\ buffer' = [buffer EXCEPT ![f] = x] /\ ops < MaxOps /\ ops' = ops + 1
  BY DEF DidOpenFile, Operate
<1>5. \A g \in Files : EditorSeen(overlays[g].text, E[g], buffer[g])
  BY <1>0 DEF BuffersSeen
<1>6. N[f].open = x /\ ~N[f].panic
  <2>1. E[f] \in Events /\ E[f].open = NoText /\ ~E[f].panic
    BY <1>2, <1>5 DEF EditorSeen
  <2> HIDE DEF c, E, N
  <2> QED
    BY <1>1, <1>3, <2>1, FoldOpen
<1> HIDE DEF c, E
<1>7. /\ overlays' \in [Files -> Overlay] /\ cache' \in [Files -> Cached]
      /\ program' \in [Files -> Text] /\ dirty' \in BOOLEAN /\ dirtyFile' \in Files \cup {NoFile}
      /\ early' \subseteq Files /\ bulk' \subseteq Files
      /\ pending' = <<>> /\ overlays' = NewOverlays(N)
      /\ panicked' = (panicked \/ ProcessPanics(N))
  <2> HIDE DEF B
  <2> QED
    BY <1>0, <1>2, <1>3, <1>4, UpdateType
<1> HIDE DEF B, N
<1>8. ~ProcessPanics(N)
  <2>1. \A g \in Files : g # f => EditorSeen(overlays[g].text, N[g], buffer[g])
    BY <1>3, <1>5
  <2>2. N[f].open # NoText
    BY <1>6
  <2> QED
    BY <1>3, <1>6, <2>1, <2>2, NoPanic
<1>9. \A g \in Files : overlays'[g].text = buffer'[g]
  <2> SUFFICES ASSUME NEW g \in Files PROVE NewOverlay(g, N[g]).text = buffer'[g]
    BY <1>7 DEF NewOverlays
  <2>1. CASE g = f
    <3>1. buffer'[g] = x
      BY <1>0, <1>4, <2>1 DEF TypeOK
    <3>2. NewOverlay(g, N[g]).text = x
      BY <1>6, <2>1 DEF NewOverlay
    <3> QED
      BY <3>1, <3>2
  <2>2. CASE g # f
    <3>1. EditorSeen(overlays[g].text, N[g], buffer[g]) /\ N[g] \in Events
      BY <1>3, <1>5, <2>2
    <3>2. buffer'[g] = buffer[g]
      BY <1>0, <1>4, <2>2 DEF TypeOK
    <3> QED
      BY <3>1, <3>2, OverlaySeen
  <2> QED
    BY <2>1, <2>2
<1>10. panicked' = FALSE
  BY <1>0, <1>7, <1>8 DEF NeverPanics
<1>11. buffer' \in [Files -> Text] /\ ops' \in 0 .. MaxOps
  <2>1. buffer \in [Files -> Text] /\ ops \in 0 .. MaxOps
    BY <1>0 DEF TypeOK, Text
  <2>2. x \in Text
    BY DEF Text
  <2>3. buffer' \in [Files -> Text]
    BY <1>4, <2>1, <2>2
  <2> QED
    BY <1>4, <2>1, <2>3, BoundAssumption
<1> QED
  BY <1>0, <1>4, <1>7, <1>9, <1>10, <1>11, Processed

(* A program other than the editor writes a file.                          *)
LEMMA WatchEventType ==
  ASSUME NEW f \in Files, NEW x
  PROVE  WatchEvent(f, x) \in Change /\ WatchEvent(f, x).kind \in WatchKinds
  BY DEF WatchEvent, Chg, Change, Kinds, WatchKinds

(* One more watch event is on its way.                                     *)
LEMMA WatchedMore ==
  ASSUME TypeOK, WatchedOnly, NEW c \in Change, c.kind \in WatchKinds, watchq' = Append(watchq, c)
  PROVE  WatchedOnly' /\ watchq' \in Seq(Change)
<1>1. watchq \in Seq(Change)
  BY DEF TypeOK
<1>2. /\ watchq' \in Seq(Change) /\ DOMAIN watchq' = 1 .. Len(watchq) + 1
      /\ \A i \in 1 .. Len(watchq) : watchq'[i] = watchq[i]
      /\ watchq'[Len(watchq) + 1] = c
  BY <1>1
<1>3. DOMAIN watchq = 1 .. Len(watchq) /\ Len(watchq) \in Nat
  BY <1>1
<1>4. ASSUME NEW i \in DOMAIN watchq' PROVE watchq'[i].kind \in WatchKinds
  <2>1. i \in 1 .. Len(watchq) \/ i = Len(watchq) + 1
    BY <1>2, <1>3
  <2> QED
    BY <1>2, <1>3, <2>1 DEF WatchedOnly
<1> QED
  BY <1>2, <1>4 DEF WatchedOnly

(* The invariant has nothing to say about the disk and the watcher's queue *)
(* but their types.                                                        *)
LEMMA WriteFileKeeps ==
  ASSUME IInv, NEW f \in Files, NEW x \in Texts \cup {NoText}, WriteFile(f, x)
  PROVE  IInv'
<1>0. TypeOK /\ EventsTyped /\ BuffersSeen /\ WatchedOnly /\ NeverPanics
  BY DEF IInv
<1>1. /\ disk' = [disk EXCEPT ![f] = x] /\ watchq' = Append(watchq, WatchEvent(f, x))
      /\ ops < MaxOps /\ ops' = ops + 1
      /\ UNCHANGED <<pending, overlays, buffer, cache, projectVars, early, bulk, panicked>>
  BY DEF WriteFile, Operate
<1>2. WatchedOnly' /\ watchq' \in Seq(Change)
  BY <1>0, <1>1, WatchEventType, WatchedMore
<1>3. disk' \in [Files -> Texts \cup {NoText}] /\ ops' \in 0 .. MaxOps
  BY <1>0, <1>1, BoundAssumption DEF TypeOK
<1>4. TypeOK'
  BY <1>0, <1>1, <1>2, <1>3 DEF TypeOK, projectVars
<1>5. FileEvents(pending)' = FileEvents(pending)
  BY <1>1
<1>6. EventsTyped' /\ BuffersSeen' /\ NeverPanics'
  BY <1>0, <1>1, <1>5 DEF EventsTyped, BuffersSeen, NeverPanics
<1> QED
  BY <1>2, <1>4, <1>6 DEF IInv

(* did_change_watched_files queues a watch event.                          *)
LEMMA WatchedFilesKeeps ==
  ASSUME IInv, DidChangeWatchedFiles
  PROVE  IInv'
<1>0. TypeOK /\ WatchedOnly
  BY DEF IInv
<1> DEFINE c == Head(watchq)
<1>1. /\ watchq # <<>> /\ watchq' = Tail(watchq) /\ pending' = Append(pending, c)
      /\ UNCHANGED <<disk, overlays, buffer, ops, cache, projectVars, early, bulk, panicked>>
  BY DEF DidChangeWatchedFiles
<1>2. watchq \in Seq(Change) /\ pending \in Seq(Change)
  BY <1>0 DEF TypeOK
<1>3. /\ Len(watchq) \in Nat /\ Len(watchq) > 0 /\ DOMAIN watchq = 1 .. Len(watchq) /\ c = watchq[1]
      /\ c \in Change
  BY <1>1, <1>2
<1>4. c.kind \in WatchKinds
  BY <1>0, <1>3 DEF WatchedOnly
<1>5. watchq' \in Seq(Change) /\ \A i \in DOMAIN watchq' : watchq'[i] = watchq[i + 1] /\ i + 1 \in DOMAIN watchq
  BY <1>1, <1>2
<1>6. WatchedOnly'
  BY <1>0, <1>5 DEF WatchedOnly
<1> HIDE DEF c
<1>7. pending' \in Seq(Change)
  BY <1>1, <1>2, <1>3
<1>8. TypeOK'
  BY <1>0, <1>1, <1>5, <1>7 DEF TypeOK, projectVars
<1> QED
  BY <1>1, <1>3, <1>4, <1>6, <1>8, Queued

(* did_change_file, did_close_file and did_save_file queue an event of an  *)
(* open file.                                                              *)
LEMMA EditorKeeps ==
  ASSUME IInv, NEW f \in Files,
         DidCloseFile(f) \/ DidSaveFile(f) \/ \E x \in Texts : DidChangeFile(f, x)
  PROVE  IInv'
<1> USE TextsAssumption
<1>0. TypeOK /\ WatchedOnly
  BY DEF IInv
<1>1. /\ pending \in Seq(Change) /\ watchq \in Seq(Change) /\ buffer \in [Files -> Texts \cup {NoText}]
      /\ disk \in [Files -> Texts \cup {NoText}] /\ ops \in 0 .. MaxOps
  BY <1>0 DEF TypeOK
<1>2. CASE DidCloseFile(f)
  <2> DEFINE c == Chg("close", f, NoText)
  <2>1. c \in Change /\ c.file = f /\ c.kind = "close"
    BY DEF Chg, Change, Kinds
  <2>2. /\ buffer[f] # NoText /\ buffer' = [buffer EXCEPT ![f] = NoText] /\ pending' = Append(pending, c)
        /\ ops < MaxOps /\ ops' = ops + 1
        /\ UNCHANGED <<disk, overlays, watchq, cache, projectVars, early, bulk, panicked>>
    BY <1>2 DEF DidCloseFile, Operate
  <2> HIDE DEF c
  <2>3. /\ buffer' \in [Files -> Texts \cup {NoText}] /\ ops' \in 0 .. MaxOps /\ pending' \in Seq(Change)
        /\ buffer'[f] = NoText /\ \A g \in Files : g # f => buffer'[g] = buffer[g]
    BY <1>1, <2>1, <2>2, BoundAssumption
  <2>4. TypeOK' /\ WatchedOnly'
    BY <1>0, <2>2, <2>3 DEF TypeOK, projectVars, WatchedOnly
  <2> QED
    BY <2>1, <2>2, <2>3, <2>4, Queued
<1>3. CASE DidSaveFile(f)
  <2> DEFINE c == Chg("save", f, NoText)
             w == WatchEvent(f, buffer[f])
  <2>1. c \in Change /\ c.file = f /\ c.kind = "save"
    BY DEF Chg, Change, Kinds
  <2>2. /\ buffer[f] # NoText /\ disk' = [disk EXCEPT ![f] = buffer[f]] /\ pending' = Append(pending, c)
        /\ ops < MaxOps /\ ops' = ops + 1
        /\ watchq' = watchq \/ watchq' = Append(watchq, w)
        /\ UNCHANGED <<overlays, buffer, cache, projectVars, early, bulk, panicked>>
    BY <1>3 DEF DidSaveFile, Operate
  <2>3. w \in Change /\ w.kind \in WatchKinds
    BY WatchEventType
  <2> HIDE DEF c, w
  <2>4. WatchedOnly' /\ watchq' \in Seq(Change)
    <3>1. CASE watchq' = watchq
      BY <1>0, <1>1, <3>1 DEF WatchedOnly
    <3>2. CASE watchq' = Append(watchq, w)
      BY <1>0, <2>3, <3>2, WatchedMore
    <3> QED
      BY <2>2, <3>1, <3>2
  <2>5. /\ disk' \in [Files -> Texts \cup {NoText}] /\ ops' \in 0 .. MaxOps /\ pending' \in Seq(Change)
    BY <1>1, <2>1, <2>2, BoundAssumption
  <2>6. TypeOK'
    BY <1>0, <2>2, <2>4, <2>5 DEF TypeOK, projectVars
  <2> QED
    BY <2>1, <2>2, <2>4, <2>6, Queued
<1>4. CASE \E x \in Texts : DidChangeFile(f, x)
  <2>0. PICK x \in Texts : DidChangeFile(f, x)
    BY <1>4
  <2> DEFINE c == Chg("change", f, x)
  <2>1. c \in Change /\ c.file = f /\ c.kind = "change" /\ c.text = x
    BY DEF Chg, Change, Kinds
  <2>2. /\ buffer[f] # NoText /\ buffer' = [buffer EXCEPT ![f] = x] /\ pending' = Append(pending, c)
        /\ ops < MaxOps /\ ops' = ops + 1
        /\ UNCHANGED <<disk, overlays, watchq, cache, projectVars, early, bulk, panicked>>
    BY <2>0 DEF DidChangeFile, Operate
  <2> HIDE DEF c
  <2>3. /\ buffer' \in [Files -> Texts \cup {NoText}] /\ ops' \in 0 .. MaxOps /\ pending' \in Seq(Change)
        /\ buffer'[f] = x /\ \A g \in Files : g # f => buffer'[g] = buffer[g]
    BY <1>1, <2>1, <2>2, BoundAssumption
  <2>4. TypeOK' /\ WatchedOnly'
    BY <1>0, <2>2, <2>3 DEF TypeOK, projectVars, WatchedOnly
  <2> QED
    BY <2>1, <2>2, <2>3, <2>4, Queued
<1> QED
  BY <1>2, <1>3, <1>4

(* The project is loaded with nothing pending.                             *)
LEMMA InitInvariant == Init => IInv
<1> SUFFICES ASSUME Init PROVE IInv
  OBVIOUS
<1>1. FileEvents(pending) = [f \in Files |-> NoEvents]
  BY EventsOfNone DEF Init
<1>2. NoEvents \in Events
  BY DEF NoEvents, Events, Text
<1>3. EventsTyped
  BY <1>1, <1>2 DEF EventsTyped
<1>4. BuffersSeen
  BY <1>1 DEF Init, BuffersSeen, EditorSeen, NoEvents, NoOverlay
<1>5. WatchedOnly /\ NeverPanics
  BY DEF Init, WatchedOnly, NeverPanics
<1>6. TypeOK
  <2>1. pending \in Seq(Change) /\ watchq \in Seq(Change)
    BY DEF Init
  <2>2. overlays \in [Files -> Overlay] /\ cache \in [Files -> Cached]
    BY DEF Init, Overlay, NoOverlay, Cached
  <2>3. ops \in 0 .. MaxOps
    BY BoundAssumption DEF Init
  <2> QED
    BY <2>1, <2>2, <2>3 DEF Init, TypeOK
<1> QED
  BY <1>3, <1>4, <1>5, <1>6 DEF IInv

(* One case per action of the specification.                               *)
LEMMA NextKeeps ==
  ASSUME IInv, [Next]_vars
  PROVE  IInv'
<1>1. CASE UNCHANGED vars
  <2>1. FileEvents(pending)' = FileEvents(pending)
    BY <1>1 DEF vars
  <2>2. EventsTyped' /\ BuffersSeen'
    BY <1>1, <2>1 DEF IInv, EventsTyped, BuffersSeen, vars
  <2>3. TypeOK' /\ WatchedOnly' /\ NeverPanics'
    BY <1>1 DEF IInv, TypeOK, WatchedOnly, NeverPanics, vars, projectVars
  <2> QED
    BY <2>2, <2>3 DEF IInv
<1>2. CASE \E f \in Files, x \in Texts \cup {NoText} : WriteFile(f, x)
  BY <1>2, WriteFileKeeps
<1>3. ASSUME NEW f \in Files, NEW x \in Texts, DidChangeFile(f, x) PROVE IInv'
  BY <1>3, EditorKeeps
<1>4. ASSUME NEW f \in Files, NEW x \in Texts, NEW c \in BOOLEAN, DidOpenFile(f, x, c) PROVE IInv'
  BY <1>4, OpenProcessed
<1>5. ASSUME NEW f \in Files, DidCloseFile(f) \/ DidSaveFile(f) PROVE IInv'
  BY <1>5, EditorKeeps
<1>6. CASE DidChangeWatchedFiles
  BY <1>6, WatchedFilesKeeps
<1>7. ASSUME NEW c \in BOOLEAN, Request(c) PROVE IInv'
  BY <1>7, PendingProcessed DEF Request
<1>8. CASE IdleCacheClean
  BY <1>8, PendingProcessed DEF IdleCacheClean
<1> QED
  BY <1>1, <1>2, <1>3, <1>4, <1>5, <1>6, <1>7, <1>8 DEF Next

(* The invariant holds of every behaviour.                                 *)
THEOREM ProjectFilesInvariant == Spec => []IInv
  BY InitInvariant, NextKeeps, PTL DEF Spec

(* No order of opens, changes, saves, closes and watch events that an      *)
(* editor and a watcher can send, cut into batches wherever a request or   *)
(* an idle clean comes, makes process_changes panic.                       *)
THEOREM ProcessChangesNeverPanics == Spec => []NeverPanics
<1>1. IInv => NeverPanics
  BY DEF IInv
<1> QED
  BY <1>1, ProjectFilesInvariant, PTL

(* After every batch the overlays of overlayfs.rs are the editor's         *)
(* buffers: the fold of the events loses no edit and no close.             *)
THEOREM OverlaysFollowBuffers == Spec => []OverlaysAreBuffers
<1>1. IInv => OverlaysAreBuffers
  <2> SUFFICES ASSUME IInv, pending = <<>>, NEW f \in Files PROVE overlays[f].text = buffer[f]
    BY DEF IInv, OverlaysAreBuffers
  <2>1. FileEvents(pending)[f] = NoEvents
    BY EventsOfNone
  <2>2. EditorSeen(overlays[f].text, NoEvents, buffer[f])
    BY <2>1 DEF IInv, BuffersSeen
  <2> QED
    BY <2>2 DEF EditorSeen, NoEvents
<1> QED
  BY <1>1, ProjectFilesInvariant, PTL

-----------------------------------------------------------------------------
(* The program follows the disk.                                           *)

IsEvent(i, f, K) == watchq[i].file = f /\ watchq[i].kind \in K
Queueing(f, K)   == \E i \in DOMAIN watchq : IsEvent(i, f, K)

(* A file is created once before it is deleted: between two events that    *)
(* leave it there, a creation is preceded by a deletion.  What the last    *)
(* event says of the file is what is on the disk.                          *)
Alternating ==
  \A f \in Files, i \in DOMAIN watchq :
    /\ IsEvent(i, f, {"watchCreate", "watchChange"}) =>
         /\ \A j \in DOMAIN watchq : i < j /\ IsEvent(j, f, {"watchCreate"}) =>
              \E k \in DOMAIN watchq : i < k /\ k < j /\ IsEvent(k, f, {"watchDelete"})
         /\ disk[f] = NoText =>
              \E k \in DOMAIN watchq : i < k /\ IsEvent(k, f, {"watchDelete"})
    /\ IsEvent(i, f, {"watchDelete"}) /\ disk[f] # NoText =>
         \E k \in DOMAIN watchq : i < k /\ IsEvent(k, f, {"watchCreate"})

(* Whatever creation of f is queued comes after a deletion.                *)
DeletedFirst(f) ==
  \A j \in DOMAIN watchq : IsEvent(j, f, {"watchCreate"}) =>
    \E k \in DOMAIN watchq : k < j /\ IsEvent(k, f, {"watchDelete"})

(* The pending events e of a file f: it was not there when its creation    *)
(* was reported, and it was when a change was.                             *)
WatchSeen(f, e) ==
  /\ ~(e.created /\ (e.watchChanged \/ e.deleted))
  /\ e.watchChanged => DeletedFirst(f) /\ (disk[f] = NoText => Queueing(f, {"watchDelete"}))

(* The events of f that the batch b tells of are watch events of f in b.   *)
Reported(b, f, e) ==
  e.watchChanged \/ e.deleted =>
    \E i \in DOMAIN b : b[i].file = f /\ b[i].kind \in WatchKinds

(* The cached text of a file that no overlay hides is the disk's, or an    *)
(* event tells that it is not and will not be folded away.                 *)
CacheSeen(f, e) ==
  f \notin early \cup bulk /\ overlays[f].text = NoText /\ IsCached(f) /\ ~cache[f].reload =>
    /\ ~e.created
    /\ e.deleted \/ DeletedFirst(f)
    /\ disk[f] = NoText => e.deleted \/ Queueing(f, {"watchDelete"})
    /\ \/ cache[f].text = disk[f]
       \/ e.watchChanged \/ e.deleted \/ Queueing(f, {"watchChange", "watchDelete"})

(* The next build need not read f.                                         *)
Untouched(f) == ~dirty \/ dirtyFile \notin {NoFile, f}

(* Such a file is in the program as it is in the snapshot, its cached text *)
(* is not to be read again, and if it is missing but on the disk, an event *)
(* tells so.                                                               *)
ProgramSeen(f, e) ==
  Untouched(f) /\ f \notin bulk =>
    /\ program[f] = IF overlays[f].text # NoText THEN overlays[f].text ELSE cache[f].text
    /\ overlays[f].text = NoText => ~cache[f].reload
    /\ overlays[f].text = NoText /\ ~IsCached(f) /\ disk[f] # NoText =>
         e.created \/ e.watchChanged \/ Queueing(f, {"watchCreate", "watchChange"})

FileSeen(f, e) == Reported(pending, f, e) /\ WatchSeen(f, e) /\ CacheSeen(f, e) /\ ProgramSeen(f, e)

Followed == Alternating /\ \A f \in Files : FileSeen(f, FileEvents(pending)[f])

(* One more event at the end of the watcher's queue.                       *)
LEMMA EventAppended ==
  ASSUME TypeOK, NEW c \in Change, NEW n, n = Len(watchq) + 1, watchq' = Append(watchq, c)
  PROVE  /\ n \in Nat /\ DOMAIN watchq' = DOMAIN watchq \cup {n} /\ watchq'[n] = c
         /\ \A i \in DOMAIN watchq : i \in Nat /\ i < n /\ watchq'[i] = watchq[i]
<1>1. watchq \in Seq(Change)
  BY DEF TypeOK
<1>2. /\ Len(watchq) \in Nat /\ DOMAIN watchq = 1 .. Len(watchq) /\ DOMAIN watchq' = 1 .. Len(watchq) + 1
      /\ watchq'[Len(watchq) + 1] = c /\ \A i \in 1 .. Len(watchq) : watchq'[i] = watchq[i]
  BY <1>1
<1> QED
  BY <1>2

(* The first event leaves the queue.                                       *)
LEMMA EventRemoved ==
  ASSUME TypeOK, watchq # <<>>, watchq' = Tail(watchq)
  PROVE  /\ 1 \in DOMAIN watchq /\ Head(watchq) = watchq[1]
         /\ \A i \in DOMAIN watchq : i \in Nat /\ 1 <= i
         /\ \A i \in DOMAIN watchq' : i \in Nat /\ 1 <= i /\ i + 1 \in DOMAIN watchq /\ watchq'[i] = watchq[i + 1]
         /\ \A i \in DOMAIN watchq : i # 1 => i - 1 \in DOMAIN watchq' /\ watchq'[i - 1] = watchq[i]
<1>1. watchq \in Seq(Change)
  BY DEF TypeOK
<1>2. /\ Len(watchq) \in Nat /\ Len(watchq) > 0 /\ DOMAIN watchq = 1 .. Len(watchq)
      /\ DOMAIN watchq' = 1 .. Len(watchq) - 1 /\ Head(watchq) = watchq[1]
      /\ \A i \in 1 .. Len(watchq) - 1 : watchq'[i] = watchq[i + 1]
  BY <1>1
<1>3. \A i \in 1 .. Len(watchq) : i # 1 => i - 1 \in 1 .. Len(watchq) - 1 /\ (i - 1) + 1 = i
  BY <1>2
<1> QED
  BY <1>2, <1>3

(* The events of a file in a queue that has grown, or lost its first.      *)
LEMMA EventsAfterAppend ==
  ASSUME TypeOK, NEW c \in Change, NEW n, n = Len(watchq) + 1, watchq' = Append(watchq, c)
  PROVE  \A f, K :
    /\ \A i \in DOMAIN watchq : IsEvent(i, f, K)' <=> IsEvent(i, f, K)
    /\ IsEvent(n, f, K)' <=> c.file = f /\ c.kind \in K
    /\ Queueing(f, K)' <=> Queueing(f, K) \/ (c.file = f /\ c.kind \in K)
<1>1. /\ n \in Nat /\ DOMAIN watchq' = DOMAIN watchq \cup {n} /\ watchq'[n] = c
      /\ \A i \in DOMAIN watchq : i \in Nat /\ i < n /\ watchq'[i] = watchq[i]
  BY EventAppended
<1> TAKE f, K
<1>2. \A i \in DOMAIN watchq : IsEvent(i, f, K)' <=> IsEvent(i, f, K)
  BY <1>1 DEF IsEvent
<1>3. IsEvent(n, f, K)' <=> c.file = f /\ c.kind \in K
  BY <1>1 DEF IsEvent
<1>4. Queueing(f, K)' <=> \E i \in DOMAIN watchq' : IsEvent(i, f, K)'
  BY DEF Queueing
<1>5. Queueing(f, K) <=> \E i \in DOMAIN watchq : IsEvent(i, f, K)
  BY DEF Queueing
<1> QED
  BY <1>1, <1>2, <1>3, <1>4, <1>5

(* What a file's write makes of the queue and the disk: the queue goes on  *)
(* alternating.                                                            *)
LEMMA WriteAlternates ==
  ASSUME TypeOK, Alternating, NEW f \in Files, NEW x \in Text, x # disk[f],
         disk' = [disk EXCEPT ![f] = x], watchq' = Append(watchq, WatchEvent(f, x))
  PROVE  Alternating'
<1>0. PICK c, n : c = WatchEvent(f, x) /\ n = Len(watchq) + 1
  OBVIOUS
<1>1. /\ c \in Change /\ c.file = f
      /\ c.kind = IF disk[f] = NoText THEN "watchCreate" ELSE IF x = NoText THEN "watchDelete" ELSE "watchChange"
  BY <1>0 DEF WatchEvent, Chg, Change, Kinds, WatchKinds
<1>2. disk'[f] = x /\ \A g \in Files : g # f => disk'[g] = disk[g]
  BY DEF TypeOK
<1>3. /\ n \in Nat /\ DOMAIN watchq' = DOMAIN watchq \cup {n}
      /\ \A i \in DOMAIN watchq : i \in Nat /\ i < n
  BY <1>0, <1>1, EventAppended
<1>4. \A g, K :
    /\ \A i \in DOMAIN watchq : IsEvent(i, g, K)' <=> IsEvent(i, g, K)
    /\ IsEvent(n, g, K)' <=> c.file = g /\ c.kind \in K
  BY <1>0, <1>1, EventsAfterAppend
<1> SUFFICES ASSUME NEW g \in Files, NEW i \in DOMAIN watchq'
    PROVE  /\ IsEvent(i, g, {"watchCreate", "watchChange"})' =>
                /\ \A j \in DOMAIN watchq' : i < j /\ IsEvent(j, g, {"watchCreate"})' =>
                     \E k \in DOMAIN watchq' : i < k /\ k < j /\ IsEvent(k, g, {"watchDelete"})'
                /\ disk'[g] = NoText =>
                     \E k \in DOMAIN watchq' : i < k /\ IsEvent(k, g, {"watchDelete"})'
           /\ IsEvent(i, g, {"watchDelete"})' /\ disk'[g] # NoText =>
                \E k \in DOMAIN watchq' : i < k /\ IsEvent(k, g, {"watchCreate"})'
  BY DEF Alternating
<1>5. \A j \in DOMAIN watchq :
       /\ IsEvent(j, g, {"watchCreate", "watchChange"}) =>
            /\ \A m \in DOMAIN watchq : j < m /\ IsEvent(m, g, {"watchCreate"}) =>
                 \E k \in DOMAIN watchq : j < k /\ k < m /\ IsEvent(k, g, {"watchDelete"})
            /\ disk[g] = NoText =>
                 \E k \in DOMAIN watchq : j < k /\ IsEvent(k, g, {"watchDelete"})
       /\ IsEvent(j, g, {"watchDelete"}) /\ disk[g] # NoText =>
            \E k \in DOMAIN watchq : j < k /\ IsEvent(k, g, {"watchCreate"})
  BY DEF Alternating
<1>6. IsEvent(i, g, {"watchCreate", "watchChange"})' =>
        \A j \in DOMAIN watchq' : i < j /\ IsEvent(j, g, {"watchCreate"})' =>
          \E k \in DOMAIN watchq' : i < k /\ k < j /\ IsEvent(k, g, {"watchDelete"})'
  <2> SUFFICES ASSUME IsEvent(i, g, {"watchCreate", "watchChange"})',
                      NEW j \in DOMAIN watchq', i < j, IsEvent(j, g, {"watchCreate"})'
               PROVE  \E k \in DOMAIN watchq' : i < k /\ k < j /\ IsEvent(k, g, {"watchDelete"})'
    OBVIOUS
  <2>1. i \in DOMAIN watchq /\ IsEvent(i, g, {"watchCreate", "watchChange"})
    <3>1. i # n
      BY <1>3
    <3> QED
      BY <1>3, <1>4, <3>1
  <2>2. CASE j \in DOMAIN watchq
    <3>1. IsEvent(j, g, {"watchCreate"})
      BY <1>4, <2>2
    <3>2. PICK k \in DOMAIN watchq : i < k /\ k < j /\ IsEvent(k, g, {"watchDelete"})
      BY <1>5, <2>1, <2>2, <3>1
    <3> QED
      BY <1>3, <1>4, <3>2
  <2>3. CASE j = n
    <3>1. g = f /\ c.kind = "watchCreate"
      BY <1>1, <1>4, <2>3
    <3>2. PICK k \in DOMAIN watchq : i < k /\ IsEvent(k, g, {"watchDelete"})
      BY <1>1, <1>5, <2>1, <3>1
    <3> QED
      BY <1>3, <1>4, <2>3, <3>2
  <2> QED
    BY <1>3, <2>2, <2>3
<1>7. IsEvent(i, g, {"watchCreate", "watchChange"})' /\ disk'[g] = NoText =>
        \E k \in DOMAIN watchq' : i < k /\ IsEvent(k, g, {"watchDelete"})'
  <2> SUFFICES ASSUME IsEvent(i, g, {"watchCreate", "watchChange"})', disk'[g] = NoText
               PROVE  \E k \in DOMAIN watchq' : i < k /\ IsEvent(k, g, {"watchDelete"})'
    OBVIOUS
  <2>1. CASE g = f
    <3>1. c.kind = "watchDelete"
      BY <1>1, <1>2, <2>1
    <3>2. i # n
      BY <1>1, <1>4, <3>1
    <3>3. IsEvent(n, g, {"watchDelete"})' /\ n \in DOMAIN watchq' /\ i < n
      BY <1>1, <1>3, <1>4, <2>1, <3>1, <3>2
    <3> QED
      BY <3>3
  <2>2. CASE g # f
    <3>1. i # n
      BY <1>1, <1>4, <2>2
    <3>2. i \in DOMAIN watchq /\ IsEvent(i, g, {"watchCreate", "watchChange"}) /\ disk[g] = NoText
      BY <1>2, <1>3, <1>4, <2>2, <3>1
    <3>3. PICK k \in DOMAIN watchq : i < k /\ IsEvent(k, g, {"watchDelete"})
      BY <1>5, <3>2
    <3> QED
      BY <1>3, <1>4, <3>3
  <2> QED
    BY <2>1, <2>2
<1>8. IsEvent(i, g, {"watchDelete"})' /\ disk'[g] # NoText =>
        \E k \in DOMAIN watchq' : i < k /\ IsEvent(k, g, {"watchCreate"})'
  <2> SUFFICES ASSUME IsEvent(i, g, {"watchDelete"})', disk'[g] # NoText
               PROVE  \E k \in DOMAIN watchq' : i < k /\ IsEvent(k, g, {"watchCreate"})'
    OBVIOUS
  <2>1. i # n
    BY <1>1, <1>2, <1>4
  <2>2. i \in DOMAIN watchq /\ IsEvent(i, g, {"watchDelete"})
    BY <1>3, <1>4, <2>1
  <2>3. CASE disk[g] # NoText
    <3>1. PICK k \in DOMAIN watchq : i < k /\ IsEvent(k, g, {"watchCreate"})
      BY <1>5, <2>2, <2>3
    <3> QED
      BY <1>3, <1>4, <3>1
  <2>4. CASE disk[g] = NoText
    <3>1. g = f /\ c.kind = "watchCreate"
      BY <1>1, <1>2, <2>4
    <3>2. IsEvent(n, g, {"watchCreate"})' /\ n \in DOMAIN watchq' /\ i < n
      BY <1>1, <1>3, <1>4, <2>2, <3>1
    <3> QED
      BY <3>2
  <2> QED
    BY <2>3, <2>4
<1> QED
  BY <1>6, <1>7, <1>8

(* A deletion goes on coming before the creations.                         *)
LEMMA DeletedFirstAppended ==
  ASSUME TypeOK, NEW c \in Change, watchq' = Append(watchq, c), NEW g \in Files, DeletedFirst(g),
         c.file = g /\ c.kind = "watchCreate" => Queueing(g, {"watchDelete"})
  PROVE  DeletedFirst(g)'
<1>0. PICK n : n = Len(watchq) + 1
  OBVIOUS
<1>1. /\ n \in Nat /\ DOMAIN watchq' = DOMAIN watchq \cup {n}
      /\ \A i \in DOMAIN watchq : i \in Nat /\ i < n
  BY <1>0, EventAppended
<1>2. \A K :
    /\ \A i \in DOMAIN watchq : IsEvent(i, g, K)' <=> IsEvent(i, g, K)
    /\ IsEvent(n, g, K)' <=> c.file = g /\ c.kind \in K
  BY <1>0, EventsAfterAppend
<1> SUFFICES ASSUME NEW j \in DOMAIN watchq', IsEvent(j, g, {"watchCreate"})'
             PROVE  \E k \in DOMAIN watchq' : k < j /\ IsEvent(k, g, {"watchDelete"})'
  BY DEF DeletedFirst
<1>3. CASE j \in DOMAIN watchq
  <2>1. IsEvent(j, g, {"watchCreate"})
    BY <1>2, <1>3
  <2>2. PICK k \in DOMAIN watchq : k < j /\ IsEvent(k, g, {"watchDelete"})
    BY <1>3, <2>1 DEF DeletedFirst
  <2> QED
    BY <1>1, <1>2, <2>2
<1>4. CASE j = n
  <2>1. c.file = g /\ c.kind \in {"watchCreate"}
    BY <1>2, <1>4
  <2>2. PICK k \in DOMAIN watchq : IsEvent(k, g, {"watchDelete"})
    BY <2>1 DEF Queueing
  <2> QED
    BY <1>1, <1>2, <1>4, <2>2
<1> QED
  BY <1>1, <1>3, <1>4

(* What is known of a file after a write, its own or another's.            *)
LEMMA WriteSeen ==
  ASSUME TypeOK, NEW f \in Files, NEW x \in Text, x # disk[f],
         disk' = [disk EXCEPT ![f] = x], watchq' = Append(watchq, WatchEvent(f, x)),
         UNCHANGED <<overlays, cache, projectVars, early, bulk>>,
         NEW g \in Files, NEW e \in Events, WatchSeen(g, e), CacheSeen(g, e), ProgramSeen(g, e)
  PROVE  WatchSeen(g, e)' /\ CacheSeen(g, e)' /\ ProgramSeen(g, e)'
<1>0. PICK c, n : c = WatchEvent(f, x) /\ n = Len(watchq) + 1
  OBVIOUS
<1>1. /\ c \in Change /\ c.file = f
      /\ c.kind = IF disk[f] = NoText THEN "watchCreate" ELSE IF x = NoText THEN "watchDelete" ELSE "watchChange"
  BY <1>0 DEF WatchEvent, Chg, Change, Kinds, WatchKinds
<1>2. disk'[f] = x /\ \A h \in Files : h # f => disk'[h] = disk[h]
  BY DEF TypeOK
<1>3. \A K : Queueing(g, K)' <=> Queueing(g, K) \/ (c.file = g /\ c.kind \in K)
  BY <1>0, <1>1, EventsAfterAppend
<1>4. DeletedFirst(g) /\ (f = g /\ disk[g] = NoText => Queueing(g, {"watchDelete"})) => DeletedFirst(g)'
  BY <1>0, <1>1, DeletedFirstAppended
<1>5. WatchSeen(g, e)'
  <2> SUFFICES ASSUME e.watchChanged
               PROVE  DeletedFirst(g)' /\ (disk'[g] = NoText => Queueing(g, {"watchDelete"})')
    BY DEF WatchSeen
  <2>1. DeletedFirst(g) /\ (disk[g] = NoText => Queueing(g, {"watchDelete"}))
    BY DEF WatchSeen
  <2>2. DeletedFirst(g)'
    BY <1>4, <2>1
  <2>3. disk'[g] = NoText => Queueing(g, {"watchDelete"})'
    BY <1>1, <1>2, <1>3, <2>1
  <2> QED
    BY <2>2, <2>3
<1>6. CacheSeen(g, e)'
  <2> SUFFICES ASSUME g \notin early \cup bulk, overlays[g].text = NoText, IsCached(g), ~cache[g].reload
      PROVE  /\ ~e.created
             /\ e.deleted \/ DeletedFirst(g)'
             /\ disk'[g] = NoText => e.deleted \/ Queueing(g, {"watchDelete"})'
             /\ \/ cache[g].text = disk'[g]
                \/ e.watchChanged \/ e.deleted \/ Queueing(g, {"watchChange", "watchDelete"})'
    BY DEF CacheSeen, IsCached
  <2>1. /\ ~e.created
        /\ e.deleted \/ DeletedFirst(g)
        /\ disk[g] = NoText => e.deleted \/ Queueing(g, {"watchDelete"})
        /\ \/ cache[g].text = disk[g]
           \/ e.watchChanged \/ e.deleted \/ Queueing(g, {"watchChange", "watchDelete"})
    BY DEF CacheSeen
  <2>2. e.deleted \/ DeletedFirst(g)'
    BY <1>4, <2>1
  <2>3. disk'[g] = NoText => e.deleted \/ Queueing(g, {"watchDelete"})'
    BY <1>1, <1>2, <1>3, <2>1
  <2>4. \/ cache[g].text = disk'[g]
        \/ e.watchChanged \/ e.deleted \/ Queueing(g, {"watchChange", "watchDelete"})'
    <3>1. Queueing(g, {"watchChange", "watchDelete"}) => Queueing(g, {"watchChange", "watchDelete"})'
      BY <1>3
    <3>2. Queueing(g, {"watchDelete"}) => Queueing(g, {"watchChange", "watchDelete"})
      BY DEF Queueing, IsEvent
    <3>3. CASE f = g
      <4>1. disk[g] # NoText => Queueing(g, {"watchChange", "watchDelete"})'
        BY <1>1, <1>3, <3>3
      <4> QED
        BY <2>1, <3>1, <3>2, <4>1
    <3>4. CASE f # g
      BY <1>2, <2>1, <3>1, <3>4
    <3> QED
      BY <3>3, <3>4
  <2> QED
    BY <2>1, <2>2, <2>3, <2>4
<1>7. ProgramSeen(g, e)'
  <2>1. /\ Untouched(g)' <=> Untouched(g)
        /\ bulk' = bulk /\ program' = program /\ overlays' = overlays /\ cache' = cache
        /\ IsCached(g)' <=> IsCached(g)
    BY DEF Untouched, projectVars, IsCached
  <2>2. Queueing(g, {"watchCreate", "watchChange"}) => Queueing(g, {"watchCreate", "watchChange"})'
    BY <1>3
  <2>3. f = g /\ disk'[g] # NoText => Queueing(g, {"watchCreate", "watchChange"})'
    BY <1>1, <1>2, <1>3
  <2> QED
    BY <1>2, <2>1, <2>2, <2>3 DEF ProgramSeen
<1> QED
  BY <1>5, <1>6, <1>7

(* The events of a file in a queue whose first event has gone.             *)
LEMMA EventsAfterTail ==
  ASSUME TypeOK, watchq # <<>>, watchq' = Tail(watchq), NEW f, NEW K
  PROVE  /\ \A i \in DOMAIN watchq' : IsEvent(i, f, K)' <=> IsEvent(i + 1, f, K)
         /\ \A i \in DOMAIN watchq : i # 1 => (IsEvent(i - 1, f, K)' <=> IsEvent(i, f, K))
         /\ Queueing(f, K) => Queueing(f, K)' \/ IsEvent(1, f, K)
<1>1. /\ \A i \in DOMAIN watchq : i \in Nat /\ 1 <= i
      /\ \A i \in DOMAIN watchq' : i \in Nat /\ 1 <= i /\ i + 1 \in DOMAIN watchq /\ watchq'[i] = watchq[i + 1]
      /\ \A i \in DOMAIN watchq : i # 1 => i - 1 \in DOMAIN watchq' /\ watchq'[i - 1] = watchq[i]
  BY EventRemoved
<1>2. \A i \in DOMAIN watchq' : IsEvent(i, f, K)' <=> IsEvent(i + 1, f, K)
  BY <1>1 DEF IsEvent
<1>3. \A i \in DOMAIN watchq : i # 1 => (IsEvent(i - 1, f, K)' <=> IsEvent(i, f, K))
  BY <1>1 DEF IsEvent
<1>4. Queueing(f, K) => Queueing(f, K)' \/ IsEvent(1, f, K)
  <2> SUFFICES ASSUME NEW i \in DOMAIN watchq, IsEvent(i, f, K), i # 1
               PROVE  Queueing(f, K)'
    BY DEF Queueing
  <2>1. PICK k : k = i - 1
    OBVIOUS
  <2>2. k \in DOMAIN watchq' /\ IsEvent(k, f, K)'
    BY <1>1, <2>1 DEF IsEvent
  <2> QED
    BY <2>2 DEF Queueing
<1> QED
  BY <1>2, <1>3, <1>4

(* A queue without its first event still alternates.                       *)
LEMMA TailAlternates ==
  ASSUME TypeOK, Alternating, watchq # <<>>, watchq' = Tail(watchq), disk' = disk
  PROVE  Alternating'
<1>1. /\ \A i \in DOMAIN watchq : i \in Nat /\ 1 <= i
      /\ \A i \in DOMAIN watchq' : i \in Nat /\ 1 <= i /\ i + 1 \in DOMAIN watchq
      /\ \A i \in DOMAIN watchq : i # 1 => i - 1 \in DOMAIN watchq'
  BY EventRemoved
<1>2. \A f, K :
        /\ \A i \in DOMAIN watchq' : IsEvent(i, f, K)' <=> IsEvent(i + 1, f, K)
        /\ \A i \in DOMAIN watchq : i # 1 => (IsEvent(i - 1, f, K)' <=> IsEvent(i, f, K))
  BY EventsAfterTail
<1> SUFFICES ASSUME NEW f \in Files, NEW i \in DOMAIN watchq'
    PROVE  /\ IsEvent(i, f, {"watchCreate", "watchChange"})' =>
                /\ \A j \in DOMAIN watchq' : i < j /\ IsEvent(j, f, {"watchCreate"})' =>
                     \E k \in DOMAIN watchq' : i < k /\ k < j /\ IsEvent(k, f, {"watchDelete"})'
                /\ disk[f] = NoText =>
                     \E k \in DOMAIN watchq' : i < k /\ IsEvent(k, f, {"watchDelete"})'
           /\ IsEvent(i, f, {"watchDelete"})' /\ disk[f] # NoText =>
                \E k \in DOMAIN watchq' : i < k /\ IsEvent(k, f, {"watchCreate"})'
  BY DEF Alternating
<1>3. PICK m : m = i + 1
  OBVIOUS
<1>4. /\ m \in DOMAIN watchq /\ m \in Nat /\ m >= 2 /\ i = m - 1
      /\ \A K : IsEvent(i, f, K)' <=> IsEvent(m, f, K)
  BY <1>1, <1>2, <1>3
<1>5. /\ IsEvent(m, f, {"watchCreate", "watchChange"}) =>
           /\ \A j \in DOMAIN watchq : m < j /\ IsEvent(j, f, {"watchCreate"}) =>
                \E k \in DOMAIN watchq : m < k /\ k < j /\ IsEvent(k, f, {"watchDelete"})
           /\ disk[f] = NoText =>
                \E k \in DOMAIN watchq : m < k /\ IsEvent(k, f, {"watchDelete"})
      /\ IsEvent(m, f, {"watchDelete"}) /\ disk[f] # NoText =>
           \E k \in DOMAIN watchq : m < k /\ IsEvent(k, f, {"watchCreate"})
  BY <1>4 DEF Alternating
<1>6. ASSUME NEW k \in DOMAIN watchq, m < k
      PROVE  /\ k - 1 \in DOMAIN watchq' /\ i < k - 1
             /\ \A K : IsEvent(k - 1, f, K)' <=> IsEvent(k, f, K)
  <2>1. k \in Nat /\ k # 1
    BY <1>1, <1>4, <1>6
  <2> QED
    BY <1>1, <1>2, <1>4, <1>6, <2>1
<1>7. ASSUME IsEvent(i, f, {"watchCreate", "watchChange"})',
             NEW j \in DOMAIN watchq', i < j, IsEvent(j, f, {"watchCreate"})'
      PROVE  \E k \in DOMAIN watchq' : i < k /\ k < j /\ IsEvent(k, f, {"watchDelete"})'
  <2>1. PICK l : l = j + 1
    OBVIOUS
  <2>2. l \in DOMAIN watchq /\ l \in Nat /\ m < l /\ IsEvent(l, f, {"watchCreate"}) /\ j = l - 1
    BY <1>1, <1>2, <1>3, <1>7, <2>1
  <2>3. PICK k \in DOMAIN watchq : m < k /\ k < l /\ IsEvent(k, f, {"watchDelete"})
    BY <1>4, <1>5, <1>7, <2>2
  <2>4. PICK h : h = k - 1
    OBVIOUS
  <2>5. h \in DOMAIN watchq' /\ i < h /\ IsEvent(h, f, {"watchDelete"})'
    BY <1>6, <2>3, <2>4
  <2>6. h < j
    BY <1>1, <2>2, <2>3, <2>4
  <2> QED
    BY <2>5, <2>6
<1>8. ASSUME IsEvent(i, f, {"watchCreate", "watchChange"})', disk[f] = NoText
      PROVE  \E k \in DOMAIN watchq' : i < k /\ IsEvent(k, f, {"watchDelete"})'
  <2>3. PICK k \in DOMAIN watchq : m < k /\ IsEvent(k, f, {"watchDelete"})
    BY <1>4, <1>5, <1>8
  <2>4. PICK h : h = k - 1
    OBVIOUS
  <2> QED
    BY <1>6, <2>3, <2>4
<1>9. ASSUME IsEvent(i, f, {"watchDelete"})', disk[f] # NoText
      PROVE  \E k \in DOMAIN watchq' : i < k /\ IsEvent(k, f, {"watchCreate"})'
  <2>3. PICK k \in DOMAIN watchq : m < k /\ IsEvent(k, f, {"watchCreate"})
    BY <1>4, <1>5, <1>9
  <2>4. PICK h : h = k - 1
    OBVIOUS
  <2> QED
    BY <1>6, <2>3, <2>4
<1> QED
  BY <1>7, <1>8, <1>9

(* A deletion goes on coming before the creations, unless it was the first *)
(* event; after a creation or a change one comes before the next creation. *)
LEMMA DeletedFirstTail ==
  ASSUME TypeOK, Alternating, watchq # <<>>, watchq' = Tail(watchq), NEW f \in Files,
         \/ DeletedFirst(f) /\ ~IsEvent(1, f, {"watchDelete"})
         \/ IsEvent(1, f, {"watchCreate", "watchChange"})
  PROVE  DeletedFirst(f)'
<1>1. /\ 1 \in DOMAIN watchq
      /\ \A i \in DOMAIN watchq : i \in Nat /\ 1 <= i
      /\ \A i \in DOMAIN watchq' : i \in Nat /\ 1 <= i /\ i + 1 \in DOMAIN watchq
      /\ \A i \in DOMAIN watchq : i # 1 => i - 1 \in DOMAIN watchq'
  BY EventRemoved
<1>2. \A K :
        /\ \A i \in DOMAIN watchq' : IsEvent(i, f, K)' <=> IsEvent(i + 1, f, K)
        /\ \A i \in DOMAIN watchq : i # 1 => (IsEvent(i - 1, f, K)' <=> IsEvent(i, f, K))
  BY EventsAfterTail
<1> SUFFICES ASSUME NEW j \in DOMAIN watchq', IsEvent(j, f, {"watchCreate"})'
             PROVE  \E k \in DOMAIN watchq' : k < j /\ IsEvent(k, f, {"watchDelete"})'
  BY DEF DeletedFirst
<1>3. PICK l : l = j + 1
  OBVIOUS
<1>4. l \in DOMAIN watchq /\ l \in Nat /\ 1 < l /\ IsEvent(l, f, {"watchCreate"}) /\ j = l - 1
  BY <1>1, <1>2, <1>3
<1>5. PICK k \in DOMAIN watchq : k # 1 /\ k < l /\ IsEvent(k, f, {"watchDelete"})
  <2>1. CASE DeletedFirst(f) /\ ~IsEvent(1, f, {"watchDelete"})
    BY <1>4, <2>1 DEF DeletedFirst
  <2>2. CASE IsEvent(1, f, {"watchCreate", "watchChange"})
    <3>1. PICK k \in DOMAIN watchq : 1 < k /\ k < l /\ IsEvent(k, f, {"watchDelete"})
      BY <1>1, <1>4, <2>2 DEF Alternating
    <3> QED
      BY <3>1
  <2> QED
    BY <2>1, <2>2
<1>6. PICK h : h = k - 1
  OBVIOUS
<1>7. h \in DOMAIN watchq' /\ IsEvent(h, f, {"watchDelete"})'
  BY <1>1, <1>2, <1>5, <1>6
<1>8. h < j
  BY <1>1, <1>4, <1>5, <1>6
<1> QED
  BY <1>7, <1>8

(* What a watch event makes of the events of its file.                     *)
LEMMA FoldedWatch ==
  ASSUME NEW e \in Events, e.open = NoText, NEW c \in Change, NEW n, n = FoldEvent(e, c)
  PROVE  /\ c.kind = "watchCreate" =>
              IF e.deleted THEN n.created = e.created /\ ~n.deleted /\ n.watchChanged
              ELSE n.created /\ ~n.deleted /\ n.watchChanged = e.watchChanged
         /\ c.kind = "watchChange" =>
              /\ n.created = e.created /\ n.deleted = e.deleted
              /\ IF e.created THEN n.watchChanged = e.watchChanged ELSE n.watchChanged
         /\ c.kind = "watchDelete" =>
              ~n.created /\ ~n.watchChanged /\ (~e.created => n.deleted)
<1>1. CASE c.kind = "watchCreate"
  BY <1>1 DEF FoldEvent, Events
<1>2. CASE c.kind = "watchChange"
  BY <1>2 DEF FoldEvent, Events
<1>3. CASE c.kind = "watchDelete"
  BY <1>3 DEF FoldEvent, Events
<1> QED
  BY <1>1, <1>2, <1>3

(* A watch event is delivered: what its file's events say is still true    *)
(* with the event among them and no longer in the queue.                   *)
LEMMA DeliverSeen ==
  ASSUME TypeOK, Alternating, watchq # <<>>, watchq' = Tail(watchq),
         UNCHANGED <<disk, overlays, cache, projectVars, early, bulk>>,
         NEW c \in Change, c = Head(watchq), c.kind \in WatchKinds,
         NEW g \in Files, NEW e \in Events, e.open = NoText,
         WatchSeen(g, e), CacheSeen(g, e), ProgramSeen(g, e),
         NEW n \in Events, n = IF c.file = g THEN FoldEvent(e, c) ELSE e
  PROVE  WatchSeen(g, n)' /\ CacheSeen(g, n)' /\ ProgramSeen(g, n)'
<1>1. /\ 1 \in DOMAIN watchq /\ c = watchq[1]
      /\ \A i \in DOMAIN watchq : i \in Nat /\ 1 <= i
      /\ \A i \in DOMAIN watchq : i # 1 => i - 1 \in DOMAIN watchq'
  BY EventRemoved
<1>2. \A K : IsEvent(1, g, K) <=> c.file = g /\ c.kind \in K
  BY <1>1 DEF IsEvent
<1>3. \A K : Queueing(g, K) => Queueing(g, K)' \/ IsEvent(1, g, K)
  BY EventsAfterTail
<1>4. \A K : (\E k \in DOMAIN watchq : 1 < k /\ IsEvent(k, g, K)) => Queueing(g, K)'
  <2> SUFFICES ASSUME NEW K, NEW k \in DOMAIN watchq, 1 < k, IsEvent(k, g, K)
               PROVE  Queueing(g, K)'
    OBVIOUS
  <2>1. PICK h : h = k - 1
    OBVIOUS
  <2>2. k # 1
    BY <1>1
  <2>3. h \in DOMAIN watchq' /\ IsEvent(h, g, K)'
    BY <1>1, <2>1, <2>2, EventsAfterTail
  <2> QED
    BY <2>3 DEF Queueing
<1>5. \/ DeletedFirst(g) /\ ~IsEvent(1, g, {"watchDelete"})
      \/ IsEvent(1, g, {"watchCreate", "watchChange"})
      => DeletedFirst(g)'
  BY DeletedFirstTail
<1>6. /\ Untouched(g)' <=> Untouched(g)
      /\ IsCached(g)' <=> IsCached(g)
  BY DEF Untouched, projectVars, IsCached
<1>7. disk' = disk /\ bulk' = bulk /\ early' = early /\ program' = program /\ overlays' = overlays /\ cache' = cache
  BY DEF projectVars
<1>8. CASE c.file # g
  <2>1. \A K : Queueing(g, K) => Queueing(g, K)'
    BY <1>2, <1>3, <1>8
  <2>2. DeletedFirst(g) => DeletedFirst(g)'
    BY <1>2, <1>5, <1>8
  <2>3. n = e
    BY <1>8
  <2>4. WatchSeen(g, n)'
    BY <1>7, <2>1, <2>2, <2>3 DEF WatchSeen
  <2>5. CacheSeen(g, n)'
    BY <1>6, <1>7, <2>1, <2>2, <2>3 DEF CacheSeen
  <2>6. ProgramSeen(g, n)'
    BY <1>6, <1>7, <2>1, <2>2, <2>3 DEF ProgramSeen
  <2> QED
    BY <2>4, <2>5, <2>6
<1>9. CASE c.file = g
  <2>0. n = FoldEvent(e, c)
    BY <1>9
  <2>1. CASE c.kind \in {"watchCreate", "watchChange"}
    <3>1. IsEvent(1, g, {"watchCreate", "watchChange"})
      BY <1>2, <1>9, <2>1
    <3>2. DeletedFirst(g)'
      BY <1>5, <3>1
    <3>3. disk[g] = NoText => Queueing(g, {"watchDelete"})'
      BY <1>1, <1>4, <3>1 DEF Alternating
    <3>4. ~(n.created /\ (n.watchChanged \/ n.deleted)) /\ (~e.created /\ (e.deleted \/ DeletedFirst(g)) => ~n.created /\ n.watchChanged)
          /\ (n.created \/ n.watchChanged)
      <4>1. ~(e.created /\ (e.watchChanged \/ e.deleted)) /\ (e.watchChanged => DeletedFirst(g))
        BY DEF WatchSeen
      <4>2. CASE c.kind = "watchCreate"
        <5>1. ~DeletedFirst(g)
          <6>1. IsEvent(1, g, {"watchCreate"})
            BY <1>2, <1>9, <4>2
          <6>2. ~ \E k \in DOMAIN watchq : k < 1
            BY <1>1
          <6> QED
            BY <1>1, <6>1, <6>2 DEF DeletedFirst
        <5>2. IF e.deleted THEN n.created = e.created /\ ~n.deleted /\ n.watchChanged
              ELSE n.created /\ ~n.deleted /\ n.watchChanged = e.watchChanged
          BY <2>0, <4>2, FoldedWatch
        <5> QED
          BY <4>1, <5>1, <5>2
      <4>3. CASE c.kind = "watchChange"
        <5>2. /\ n.created = e.created /\ n.deleted = e.deleted
              /\ IF e.created THEN n.watchChanged = e.watchChanged ELSE n.watchChanged
          BY <2>0, <4>3, FoldedWatch
        <5> QED
          BY <4>1, <5>2
      <4> QED
        BY <2>1, <4>2, <4>3
    <3>5. WatchSeen(g, n)'
      BY <1>7, <3>2, <3>3, <3>4 DEF WatchSeen
    <3>6. CacheSeen(g, n)'
      BY <1>6, <1>7, <3>2, <3>3, <3>4 DEF CacheSeen
    <3>7. ProgramSeen(g, n)'
      BY <1>6, <1>7, <3>4 DEF ProgramSeen
    <3> QED
      BY <3>5, <3>6, <3>7
  <2>2. CASE c.kind = "watchDelete"
    <3>1. ~n.created /\ ~n.watchChanged /\ (~e.created => n.deleted)
      BY <2>0, <2>2, FoldedWatch
    <3>2. IsEvent(1, g, {"watchDelete"})
      BY <1>2, <1>9, <2>2
    <3>3. disk[g] # NoText => Queueing(g, {"watchCreate", "watchChange"})'
      <4>1. disk[g] # NoText => Queueing(g, {"watchCreate"})'
        BY <1>1, <1>4, <3>2 DEF Alternating
      <4>2. Queueing(g, {"watchCreate"})' => Queueing(g, {"watchCreate", "watchChange"})'
        BY DEF Queueing, IsEvent
      <4> QED
        BY <4>1, <4>2
    <3>4. WatchSeen(g, n)'
      BY <3>1 DEF WatchSeen
    <3>5. CacheSeen(g, n)'
      BY <1>6, <1>7, <3>1 DEF CacheSeen
    <3>6. ProgramSeen(g, n)'
      BY <1>6, <1>7, <3>1, <3>3 DEF ProgramSeen
    <3> QED
      BY <3>4, <3>5, <3>6
  <2> QED
    BY <2>1, <2>2 DEF WatchKinds
<1> QED
  BY <1>8, <1>9

-----------------------------------------------------------------------------
(* A batch of the session.                                                 *)

(* The dirty flags r make the next build read f.                           *)
Touched(r, f) == r.dirty /\ r.dirtyFile \in {NoFile, f}

(* mark_files_changed marks every file it is given, alone or with all the  *)
(* others, and unmarks none.                                               *)
LEMMA MarkTouches ==
  ASSUME NEW p \in Marks, NEW S \in SUBSET Files, NEW kind, NEW r, r = MarkFilesChanged(p, S, kind)
  PROVE  /\ \A f \in Files : f \in S \/ Touched(p, f) => Touched(r, f)
         /\ S # {} /\ kind = "deleted" => r.dirty /\ r.dirtyFile = NoFile
<1> DEFINE hit    == S \cap {f \in Files : program[f] # NoText}
           missed == S \ hit
           single == hit \cup (IF p.dirtyFile = NoFile THEN {} ELSE {p.dirtyFile})
<1>1. r = IF S = {} \/ (p.dirty /\ p.dirtyFile = NoFile) THEN p
          ELSE [dirty |-> TRUE,
                dirtyFile |-> IF missed = {} /\ kind # "deleted" /\ Cardinality(single) = 1
                              THEN CHOOSE f \in single : TRUE ELSE NoFile]
  BY DEF MarkFilesChanged
<1>2. single \subseteq Files
  BY DEF Marks
<1>3. Cardinality(single) = 1 => \A f \in single : single = {f}
  <2>1. IsFiniteSet(single)
    BY <1>2, FilesAssumption, FS_Subset
  <2> HIDE DEF single
  <2> SUFFICES ASSUME Cardinality(single) = 1, NEW f \in single PROVE single = {f}
    OBVIOUS
  <2>2. PICK h : single = {h}
    BY <2>1, FS_Singleton
  <2> QED
    BY <2>2
<1>4. missed = {} => \A f \in S : f \in single
  OBVIOUS
<1>5. p.dirtyFile # NoFile => p.dirtyFile \in single
  OBVIOUS
<1> HIDE DEF missed, single
<1>6. ASSUME NEW f \in Files, f \in S \/ Touched(p, f) PROVE Touched(r, f)
  <2>1. CASE S = {} \/ (p.dirty /\ p.dirtyFile = NoFile)
    BY <1>1, <1>6, <2>1 DEF Touched
  <2>2. CASE ~(S = {} \/ (p.dirty /\ p.dirtyFile = NoFile))
    <3>1. /\ r.dirty
          /\ r.dirtyFile = IF missed = {} /\ kind # "deleted" /\ Cardinality(single) = 1
                           THEN CHOOSE h \in single : TRUE ELSE NoFile
      BY <1>1, <2>2
    <3>2. f \in S \/ f = p.dirtyFile
      BY <1>6, <2>2 DEF Touched
    <3>3. CASE missed = {} /\ kind # "deleted" /\ Cardinality(single) = 1
      <4>1. f \in single \/ f = NoFile
        BY <1>4, <1>5, <3>2, <3>3
      <4>2. CASE f \in single
        <5>1. single = {f}
          BY <1>3, <3>3, <4>2
        <5> QED
          BY <3>1, <3>3, <5>1 DEF Touched
      <4>3. CASE f \notin single
        <5>1. f = NoFile /\ f \in S => FALSE
          BY <1>4, <3>3, <4>3
        <5>2. Touched(p, f) /\ f = NoFile
          BY <1>6, <4>1, <4>3, <5>1
        <5> QED
          BY <2>2, <5>2 DEF Touched
      <4> QED
        BY <4>2, <4>3
    <3>4. CASE ~(missed = {} /\ kind # "deleted" /\ Cardinality(single) = 1)
      BY <3>1, <3>4 DEF Touched
    <3> QED
      BY <3>3, <3>4
  <2> QED
    BY <2>1, <2>2
<1>7. S # {} /\ kind = "deleted" => r.dirty /\ r.dirtyFile = NoFile
  BY <1>1
<1> QED
  BY <1>6, <1>7

(* did_change_files touches the files of its summary, and those that were  *)
(* touched before.                                                         *)
LEMMA ChangeTouches ==
  ASSUME TypeOK, NEW s \in Summary, NEW f \in Files,
         f \in s.changed \cup s.deleted \cup s.created \/ ~Untouched(f)
  PROVE  Touched(DidChangeFiles(s), f)
<1> DEFINE p  == [dirty |-> dirty, dirtyFile |-> dirtyFile]
           m1 == MarkFilesChanged(p, s.changed, "changed")
           m2 == MarkFilesChanged(m1, s.deleted, "deleted")
           m3 == MarkFilesChanged(m2, s.created, "created")
<1>1. p \in Marks /\ (~Untouched(f) => Touched(p, f))
  BY DEF TypeOK, Marks, Untouched, Touched
<1>2. s.changed \in SUBSET Files /\ s.deleted \in SUBSET Files /\ s.created \in SUBSET Files
  BY DEF Summary
<1> HIDE DEF p
<1>3. m1 \in Marks /\ (f \in s.changed \/ Touched(p, f) => Touched(m1, f))
  BY <1>1, <1>2, MarkType, MarkTouches
<1> HIDE DEF m1
<1>4. m2 \in Marks /\ (f \in s.deleted \/ Touched(m1, f) => Touched(m2, f))
  BY <1>2, <1>3, MarkType, MarkTouches
<1> HIDE DEF m2
<1>5. f \in s.created \/ Touched(m2, f) => Touched(m3, f)
  BY <1>2, <1>4, MarkTouches
<1>6. DidChangeFiles(s) = IF ExcessiveNonCreate(s) THEN [dirty |-> TRUE, dirtyFile |-> NoFile] ELSE m3
  BY DEF DidChangeFiles, p, m1, m2
<1> HIDE DEF m3
<1> QED
  BY <1>1, <1>3, <1>4, <1>5, <1>6 DEF Touched

(* An excessive batch that changes or deletes a file makes the next build  *)
(* read everything.                                                        *)
LEMMA ExcessiveTouches ==
  ASSUME TypeOK, NEW s \in Summary, Excessive(s), s.changed \cup s.deleted # {},
         s.created \cap s.changed = {}
  PROVE  DidChangeFiles(s).dirty /\ DidChangeFiles(s).dirtyFile = NoFile
<1> DEFINE p  == [dirty |-> dirty, dirtyFile |-> dirtyFile]
           m1 == MarkFilesChanged(p, s.changed, "changed")
           m2 == MarkFilesChanged(m1, s.deleted, "deleted")
           m3 == MarkFilesChanged(m2, s.created, "created")
<1>1. p \in Marks
  BY DEF TypeOK, Marks
<1>2. s.changed \in SUBSET Files /\ s.deleted \in SUBSET Files /\ s.created \in SUBSET Files
  BY DEF Summary
<1>3. DidChangeFiles(s) = IF ExcessiveNonCreate(s) THEN [dirty |-> TRUE, dirtyFile |-> NoFile] ELSE m3
  BY DEF DidChangeFiles
<1> HIDE DEF p
<1>4. m1 \in Marks /\ \A f \in Files : f \in s.changed \/ Touched(p, f) => Touched(m1, f)
  <2>1. m1 \in Marks
    BY <1>1, <1>2, MarkType
  <2>2. \A f \in Files : f \in s.changed \/ Touched(p, f) => Touched(m1, f)
    <3>1. PICK S \in SUBSET Files : S = s.changed
      BY <1>2
    <3>2. PICK r : r = MarkFilesChanged(p, S, "changed")
      OBVIOUS
    <3>3. \A f \in Files : f \in S \/ Touched(p, f) => Touched(r, f)
      BY <1>1, <3>2, MarkTouches
    <3> QED
      BY <3>1, <3>2, <3>3
  <2> QED
    BY <2>1, <2>2
<1> HIDE DEF m1
<1>5. /\ m2 \in Marks /\ \A f \in Files : f \in s.deleted \/ Touched(m1, f) => Touched(m2, f)
      /\ s.deleted # {} => m2.dirty /\ m2.dirtyFile = NoFile
  <2>1. m2 \in Marks
    BY <1>2, <1>4, MarkType
  <2>2. ASSUME NEW f \in Files, f \in s.deleted \/ Touched(m1, f) PROVE Touched(m2, f)
    BY <1>2, <1>4, <2>2, MarkTouches
  <2>3. s.deleted # {} => m2.dirty /\ m2.dirtyFile = NoFile
    BY <1>2, <1>4, MarkTouches
  <2> QED
    BY <2>1, <2>2, <2>3
<1> HIDE DEF m2
<1>6. \A f \in Files : f \in s.created \/ Touched(m2, f) => Touched(m3, f)
  <2> SUFFICES ASSUME NEW f \in Files, f \in s.created \/ Touched(m2, f) PROVE Touched(m3, f)
    OBVIOUS
  <2> QED
    BY <1>2, <1>5, MarkTouches
<1> HIDE DEF m3
<1>7. CASE ExcessiveNonCreate(s)
  BY <1>3, <1>7
<1>8. CASE ~ExcessiveNonCreate(s)
  <2>1. s.created # {}
    <3>1. IsFiniteSet(s.created) /\ IsFiniteSet(s.changed) /\ IsFiniteSet(s.deleted)
      BY <1>2, FilesAssumption, FS_Subset
    <3>2. Cardinality(s.created) \in Nat /\ Cardinality(s.changed) \in Nat /\ Cardinality(s.deleted) \in Nat
      BY <3>1, FS_CardinalityType
    <3>3. Cardinality(s.created) # 0
      BY <1>8, <3>2, ThresholdAssumption DEF Excessive, ExcessiveNonCreate
    <3> QED
      BY <3>3, FS_EmptySet
  <2>2. PICK h \in Files : h \in s.created /\ h \notin s.changed
    BY <1>2, <2>1
  <2>3. Touched(m3, h)
    BY <1>6, <2>2
  <2>4. CASE s.deleted # {}
    <3>2. m2.dirty /\ m2.dirtyFile = NoFile
      BY <1>5, <2>4
    <3>4. m3 = m2
      BY <3>2 DEF m3, MarkFilesChanged
    <3> QED
      BY <1>3, <1>8, <3>2, <3>4
  <2>5. CASE s.deleted = {}
    <3>1. PICK g \in Files : g \in s.changed
      BY <1>2, <2>5
    <3>2. Touched(m3, g)
      BY <1>4, <1>5, <1>6, <3>1
    <3>3. g # h
      BY <2>2, <3>1
    <3> QED
      BY <1>3, <1>8, <2>3, <3>2, <3>3 DEF Touched
  <2> QED
    BY <2>4, <2>5
<1> QED
  BY <1>7, <1>8

(* The parts of update_snapshot_inner for a batch whose events are those   *)
(* an editor and a watcher can send.                                       *)
Batched(batch, ev, s, over, u) ==
  /\ ev \in [Files -> Events] /\ s = ProcessChanges(batch, ev) /\ s \in Summary
  /\ over = NewOverlays(ev)
  /\ u = IF Excessive(s) THEN BulkUpdate(s) ELSE FileUpdate(s, over)
  /\ \A f \in Files :
       /\ Reported(batch, f, ev[f])
       /\ ~(ev[f].created /\ ev[f].watchChanged)
       /\ ev[f].open = NoText => \E b : EditorSeen(overlays[f].text, ev[f], b)

(* The files excepted after the batch.                                     *)
BulkAfter(s, u) ==
  IF Excessive(s)
  THEN bulk \cup s.opened \cup s.closed
         \cup ((s.changed \cup s.deleted) \ (u.summary.changed \cup u.summary.deleted))
  ELSE bulk \ (u.summary.changed \cup u.summary.deleted)

(* What a file's events e make of its overlay and its part in the summary. *)
LEMMA SummaryOf ==
  ASSUME TypeOK, NEW batch, NEW ev, NEW s, NEW over, NEW u, Batched(batch, ev, s, over, u),
         NEW f \in Files, NEW e, e = ev[f]
  PROVE  /\ e.open # NoText =>
              /\ over[f].text = e.open
              /\ f \notin s.closed \cup s.created \cup s.deleted
              /\ f \in s.opened <=> overlays[f].text = NoText
              /\ f \in s.changed <=> overlays[f].text # NoText /\ e.open # overlays[f].text
         /\ e.open = NoText =>
              /\ f \notin s.opened
              /\ f \in s.closed <=> e.closed
              /\ e.closed => overlays[f].text # NoText
              /\ e.closed \/ overlays[f].text = NoText => over[f].text = NoText
              /\ ~e.closed /\ overlays[f].text # NoText =>
                   over[f].text = IF e.changes # NoText THEN e.changes ELSE overlays[f].text
              /\ e.changes # NoText => f \in s.changed /\ ~e.closed /\ overlays[f].text # NoText
              /\ e.closed \/ overlays[f].text = NoText =>
                   /\ f \in s.changed <=> e.watchChanged
                   /\ f \in s.created <=> e.created
                   /\ f \in s.deleted <=> e.deleted
              /\ ~e.closed /\ overlays[f].text # NoText => f \notin s.created \cup s.deleted
<1>1. /\ e \in Events /\ s = ProcessChanges(batch, ev) /\ over[f] = NewOverlay(f, e)
      /\ e.open = NoText => \E b : EditorSeen(overlays[f].text, e, b)
  BY DEF Batched, NewOverlays
<1>2. /\ f \in s.opened <=> e.open # NoText /\ ~IsOpen(f)
      /\ f \in s.closed <=> e.open = NoText /\ e.closed
      /\ f \in s.changed <=> IF e.open # NoText THEN IsOpen(f) /\ e.open # overlays[f].text
                             ELSE \/ e.changes # NoText
                                  \/ e.watchChanged /\ ~(IsOpen(f) /\ ~e.closed)
      /\ f \in s.created <=> e.open = NoText /\ e.created /\ ~(IsOpen(f) /\ ~e.closed)
      /\ f \in s.deleted <=> e.open = NoText /\ e.deleted /\ ~(IsOpen(f) /\ ~e.closed)
  BY <1>1 DEF ProcessChanges
<1>3. e.open = NoText =>
        /\ e.closed => overlays[f].text # NoText
        /\ e.changes # NoText => ~e.closed /\ overlays[f].text # NoText
  BY <1>1 DEF EditorSeen
<1>4. over[f].text = IF e.open # NoText THEN e.open
                     ELSE IF e.closed \/ overlays[f].text = NoText THEN NoText
                     ELSE IF e.changes # NoText THEN e.changes ELSE overlays[f].text
  BY <1>1 DEF NewOverlay, NoOverlay, IsOpen
<1>5. IsOpen(f) <=> overlays[f].text # NoText
  BY DEF IsOpen
<1>6. e.closed \in BOOLEAN /\ e.watchChanged \in BOOLEAN /\ e.created \in BOOLEAN /\ e.deleted \in BOOLEAN
  BY <1>1 DEF Events
<1>7. CASE e.open # NoText
  BY <1>2, <1>4, <1>5, <1>7
<1>8. CASE e.open = NoText
  <2>1. f \notin s.opened /\ (f \in s.closed <=> e.closed) /\ (e.closed => overlays[f].text # NoText)
    BY <1>2, <1>3, <1>8
  <2>2. /\ e.closed \/ overlays[f].text = NoText => over[f].text = NoText
        /\ ~e.closed /\ overlays[f].text # NoText =>
             over[f].text = IF e.changes # NoText THEN e.changes ELSE overlays[f].text
    BY <1>4, <1>8
  <2>3. e.changes # NoText => f \in s.changed /\ ~e.closed /\ overlays[f].text # NoText
    BY <1>2, <1>3, <1>8
  <2>4. e.closed \/ overlays[f].text = NoText =>
          /\ f \in s.changed <=> e.watchChanged
          /\ f \in s.created <=> e.created
          /\ f \in s.deleted <=> e.deleted
    BY <1>2, <1>5, <1>6, <1>8, <2>3
  <2>5. ~e.closed /\ overlays[f].text # NoText => f \notin s.created \cup s.deleted
    BY <1>2, <1>5, <1>8
  <2> QED
    BY <1>8, <2>1, <2>2, <2>3, <2>4, <2>5
<1> QED
  BY <1>7, <1>8

(* What mark_dirty_files and convert_open_and_close_to_changes make of it. *)
LEMMA FileUpdated ==
  ASSUME TypeOK, NEW s \in Summary, NEW over, NEW u, u = FileUpdate(s, over), NEW f \in Files
  PROVE  /\ f \in s.closed => u.cache[f] = FromDisk(f)
         /\ f \notin s.closed /\ f \in s.deleted => u.cache[f] = NotCached
         /\ f \notin s.closed \cup s.deleted =>
              IF f \in s.changed /\ IsCached(f) THEN u.cache[f].reload ELSE u.cache[f] = cache[f]
         /\ f \in s.changed => f \in u.summary.changed
         /\ f \in s.created => f \in u.summary.created
         /\ f \in s.deleted => f \in u.summary.deleted
         /\ f \in s.opened => \/ f \in u.summary.created \cup u.summary.changed
                              \/ over[f].text = cache[f].text
         /\ f \in s.closed => \/ f \in u.summary.changed \cup u.summary.deleted
                              \/ disk[f] = overlays[f].text
         /\ f \in u.summary.changed \cup u.summary.deleted => f \in s.changed \cup s.deleted \cup s.opened \cup s.closed
<1> DEFINE R == Reload(s.changed)
           marked == [g \in Files |-> IF g \in s.deleted THEN NotCached ELSE R[g]]
           gone   == {g \in s.closed : disk[g] = NoText}
           c      == [g \in Files |-> IF g \in s.closed THEN FromDisk(g) ELSE marked[g]]
           created == s.created \cup {g \in s.opened : marked[g] = NotCached}
           changed == s.changed \cup {g \in s.opened : /\ marked[g] # NotCached
                                                      /\ over[g].text # cache[g].text}
                        \cup {g \in s.closed \ gone : disk[g] # overlays[g].text}
           deleted == s.deleted \cup gone
<1>1. u = [cache |-> c, summary |-> [s EXCEPT !.created = created, !.changed = changed, !.deleted = deleted]]
  BY DEF FileUpdate
<1>2. R[f] = IF f \in s.changed /\ IsCached(f) THEN [cache[f] EXCEPT !.reload = TRUE] ELSE cache[f]
  BY DEF Reload
<1> HIDE DEF R
<1>3. c[f] = IF f \in s.closed THEN FromDisk(f)
             ELSE IF f \in s.deleted THEN NotCached
             ELSE IF f \in s.changed /\ IsCached(f)
             THEN [cache[f] EXCEPT !.reload = TRUE] ELSE cache[f]
  BY <1>2
<1> HIDE DEF c, marked
<1>4. /\ f \in s.changed => f \in changed
      /\ f \in s.created => f \in created
      /\ f \in s.deleted => f \in deleted
      /\ f \in s.opened => f \in created \cup changed \/ over[f].text = cache[f].text
      /\ f \in s.closed => f \in changed \cup deleted \/ disk[f] = overlays[f].text
      /\ f \in changed \cup deleted => f \in s.changed \cup s.deleted \cup s.opened \cup s.closed
  OBVIOUS
<1> HIDE DEF created, changed, deleted
<1>5. u.cache = c /\ u.summary.created = created /\ u.summary.changed = changed /\ u.summary.deleted = deleted
  <2>1. PICK t : t = [s EXCEPT !.created = created, !.changed = changed, !.deleted = deleted]
    OBVIOUS
  <2>2. t.created = created /\ t.changed = changed /\ t.deleted = deleted
    BY <2>1 DEF Summary
  <2>3. u.cache = c /\ u.summary = t
    BY <1>1, <2>1
  <2> QED
    BY <2>2, <2>3
<1>6. cache[f] \in Cached
  BY DEF TypeOK
<1>7. f \notin s.closed \cup s.deleted =>
        IF f \in s.changed /\ IsCached(f) THEN c[f].reload ELSE c[f] = cache[f]
  BY <1>3, <1>6 DEF Cached
<1>8. (f \in s.closed => c[f] = FromDisk(f)) /\ (f \notin s.closed /\ f \in s.deleted => c[f] = NotCached)
  BY <1>3
<1> QED
  BY <1>4, <1>5, <1>7, <1>8

(* What clone_snapshot makes of an excessive batch.                        *)
LEMMA BulkUpdated ==
  ASSUME TypeOK, NEW s \in Summary, NEW u, u = BulkUpdate(s)
  PROVE  \/ /\ \A f \in s.changed \cup s.deleted : ~IsCached(f)
            /\ u.cache = cache /\ u.summary.changed = {} /\ u.summary.deleted = {}
            /\ u.summary.created = s.created
         \/ /\ s.changed \cup s.deleted # {} /\ u.summary = s
            /\ \A f \in Files : u.cache[f].text = cache[f].text
            /\ \A f \in s.watched : IsCached(f) => u.cache[f].reload
<1> DEFINE overlap == \E f \in s.changed \cup s.deleted : IsCached(f)
<1>1. CASE ~overlap
  BY <1>1 DEF BulkUpdate, Summary
<1>2. CASE overlap
  <2>1. u = [cache |-> IF s.watched \subseteq NodeModules THEN Reload(NodeModules) ELSE Reload(Files),
             summary |-> s]
    BY <1>2 DEF BulkUpdate
  <2>2. s.watched \subseteq Files
    BY DEF Summary
  <2>3. PICK X : s.watched \subseteq X /\ u.cache = Reload(X)
    BY <2>1, <2>2
  <2>4. \A f \in Files : cache[f] \in Cached
    BY DEF TypeOK
  <2>5. \A f \in Files : u.cache[f] = IF f \in X /\ IsCached(f) THEN [cache[f] EXCEPT !.reload = TRUE] ELSE cache[f]
    BY <2>3 DEF Reload
  <2>6. \A f \in Files : u.cache[f].text = cache[f].text /\ (f \in X /\ IsCached(f) => u.cache[f].reload)
    BY <2>4, <2>5 DEF Cached
  <2> QED
    BY <1>2, <2>1, <2>2, <2>3, <2>6
<1> QED
  BY <1>1, <1>2

(* A file that the next build need not read is seen in the snapshot as it  *)
(* was before the batch, and its events say nothing.                       *)
LEMMA BatchUntouched ==
  ASSUME TypeOK, NEW batch, NEW ev, NEW s, NEW over, NEW u, Batched(batch, ev, s, over, u),
         u.summary \in Summary,
         NEW f \in Files, NEW e, e = ev[f],
         ~Touched(DidChangeFiles(u.summary), f), f \notin BulkAfter(s, u)
  PROVE  /\ f \notin bulk /\ Untouched(f)
         /\ over[f].text # NoText => over[f].text = IF overlays[f].text # NoText THEN overlays[f].text ELSE cache[f].text
         /\ over[f].text = NoText => u.cache[f].text = IF overlays[f].text # NoText THEN overlays[f].text ELSE cache[f].text
         /\ over[f].text = NoText =>
              \/ /\ e.open = NoText /\ overlays[f].text = NoText /\ u.cache[f] = cache[f]
                 /\ ~e.watchChanged /\ ~e.created /\ ~e.deleted
              \/ u.cache[f] = FromDisk(f)
<1>1. f \notin u.summary.changed \cup u.summary.deleted \cup u.summary.created /\ Untouched(f)
  BY ChangeTouches
<1>2. /\ e.open # NoText =>
           /\ over[f].text = e.open
           /\ f \notin s.closed \cup s.created \cup s.deleted
           /\ f \in s.opened <=> overlays[f].text = NoText
           /\ f \in s.changed <=> overlays[f].text # NoText /\ e.open # overlays[f].text
      /\ e.open = NoText =>
           /\ f \notin s.opened
           /\ f \in s.closed <=> e.closed
           /\ e.closed => overlays[f].text # NoText
           /\ e.closed \/ overlays[f].text = NoText => over[f].text = NoText
           /\ ~e.closed /\ overlays[f].text # NoText =>
                over[f].text = IF e.changes # NoText THEN e.changes ELSE overlays[f].text
           /\ e.changes # NoText => f \in s.changed /\ ~e.closed /\ overlays[f].text # NoText
           /\ e.closed \/ overlays[f].text = NoText =>
                /\ f \in s.changed <=> e.watchChanged
                /\ f \in s.created <=> e.created
                /\ f \in s.deleted <=> e.deleted
           /\ ~e.closed /\ overlays[f].text # NoText => f \notin s.created \cup s.deleted
  BY SummaryOf
<1>3. s \in Summary /\ u = IF Excessive(s) THEN BulkUpdate(s) ELSE FileUpdate(s, over)
  BY DEF Batched
<1>4. overlays[f].text = NoText /\ f \notin s.opened /\ f \notin s.closed => e.open = NoText /\ ~e.closed
  BY <1>2
<1>5. CASE ~Excessive(s)
  <2>1. u = FileUpdate(s, over)
    BY <1>3, <1>5
  <2>2. /\ f \in s.closed => u.cache[f] = FromDisk(f)
        /\ f \notin s.closed /\ f \in s.deleted => u.cache[f] = NotCached
        /\ f \notin s.closed \cup s.deleted =>
             IF f \in s.changed /\ IsCached(f) THEN u.cache[f].reload ELSE u.cache[f] = cache[f]
        /\ f \in s.changed => f \in u.summary.changed
        /\ f \in s.created => f \in u.summary.created
        /\ f \in s.deleted => f \in u.summary.deleted
        /\ f \in s.opened => \/ f \in u.summary.created \cup u.summary.changed
                             \/ over[f].text = cache[f].text
        /\ f \in s.closed => \/ f \in u.summary.changed \cup u.summary.deleted
                             \/ disk[f] = overlays[f].text
    BY <1>3, <2>1, FileUpdated
  <2>3. f \notin s.changed \cup s.created \cup s.deleted
    BY <1>1, <2>2
  <2>4. f \notin bulk
    BY <1>1, <1>5 DEF BulkAfter
  <2>5. FromDisk(f).text = disk[f]
    BY DEF FromDisk
  <2>6. u.cache[f] = IF f \in s.closed THEN FromDisk(f) ELSE cache[f]
    BY <2>2, <2>3
  <2>7. /\ f \in s.opened => over[f].text = cache[f].text
        /\ f \in s.closed => disk[f] = overlays[f].text
    BY <1>1, <2>2
  <2>8. CASE e.open # NoText
    BY <1>1, <1>2, <2>3, <2>4, <2>7, <2>8
  <2>9. CASE e.open = NoText /\ e.closed
    BY <1>1, <1>2, <2>4, <2>5, <2>6, <2>7, <2>9
  <2>10. CASE e.open = NoText /\ ~e.closed
    BY <1>1, <1>2, <2>3, <2>4, <2>6, <2>10
  <2> QED
    BY <2>8, <2>9, <2>10
<1>6. CASE Excessive(s)
  <2>1. f \notin bulk /\ f \notin s.opened \cup s.closed /\ f \notin s.changed \cup s.deleted
    BY <1>1, <1>6 DEF BulkAfter
  <2>2. u = BulkUpdate(s)
    BY <1>3, <1>6
  <2>3. \/ u.cache = cache /\ u.summary.created = s.created
        \/ s.changed \cup s.deleted # {} /\ u.summary = s
    BY <1>3, <2>2, BulkUpdated
  <2>4. ~(s.changed \cup s.deleted # {} /\ u.summary = s)
    <3> SUFFICES ASSUME s.changed \cup s.deleted # {}, u.summary = s PROVE FALSE
      OBVIOUS
    <3>1. s.created \cap s.changed = {}
      <4> SUFFICES ASSUME NEW g \in Files, g \in s.created, g \in s.changed PROVE FALSE
        BY <1>3 DEF Summary
      <4>1. PICK d : d = ev[g]
        OBVIOUS
      <4>2. d.open = NoText
        BY <4>1, SummaryOf
      <4>3. d.closed \/ overlays[g].text = NoText
        BY <4>1, <4>2, SummaryOf
      <4>4. d.created /\ d.watchChanged
        BY <4>1, <4>2, <4>3, SummaryOf
      <4> QED
        BY <4>1, <4>4 DEF Batched
    <3>2. DidChangeFiles(s).dirty /\ DidChangeFiles(s).dirtyFile = NoFile
      BY <1>3, <1>6, <3>1, ExcessiveTouches
    <3> QED
      BY <3>2 DEF Touched
  <2>5. u.cache = cache /\ f \notin s.created
    BY <1>1, <2>3, <2>4
  <2>6. CASE e.open # NoText
    BY <1>1, <1>2, <2>1, <2>6
  <2>7. CASE e.open = NoText
    BY <1>1, <1>2, <2>1, <2>5, <2>7
  <2> QED
    BY <2>6, <2>7
<1> QED
  BY <1>5, <1>6

(* A cached text that is not read again comes from the disk, or the events *)
(* of its file said neither that it changed nor that it was deleted.       *)
LEMMA BatchCached ==
  ASSUME TypeOK, NEW batch, NEW ev, NEW s, NEW over, NEW u, Batched(batch, ev, s, over, u),
         NEW f \in Files, NEW e, e = ev[f], f \notin BulkAfter(s, u),
         over[f].text = NoText, u.cache[f].text # NoText, ~u.cache[f].reload
  PROVE  \/ ~Excessive(s) /\ f \in s.closed /\ u.cache[f] = FromDisk(f)
         \/ /\ f \notin bulk /\ e.open = NoText /\ overlays[f].text = NoText /\ u.cache[f] = cache[f]
            /\ ~e.watchChanged /\ ~e.deleted /\ (Excessive(s) \/ f \notin s.closed)
<1>2. /\ e.open # NoText => over[f].text = e.open
      /\ e.open = NoText =>
           /\ f \notin s.opened
           /\ f \in s.closed <=> e.closed
           /\ ~e.closed /\ overlays[f].text # NoText =>
                over[f].text = IF e.changes # NoText THEN e.changes ELSE overlays[f].text
           /\ e.closed \/ overlays[f].text = NoText =>
                /\ f \in s.changed <=> e.watchChanged
                /\ f \in s.deleted <=> e.deleted
  BY SummaryOf
<1>3. s \in Summary /\ u = IF Excessive(s) THEN BulkUpdate(s) ELSE FileUpdate(s, over)
  BY DEF Batched
<1>4. e.open = NoText /\ f \notin s.opened /\ (~e.closed => overlays[f].text = NoText)
  BY <1>2
<1>5. cache[f] \in Cached
  BY DEF TypeOK
<1>6. CASE ~Excessive(s)
  <2>1. u = FileUpdate(s, over)
    BY <1>3, <1>6
  <2>2. /\ f \in s.closed => u.cache[f] = FromDisk(f)
        /\ f \notin s.closed /\ f \in s.deleted => u.cache[f] = NotCached
        /\ f \notin s.closed \cup s.deleted =>
             IF f \in s.changed /\ IsCached(f) THEN u.cache[f].reload ELSE u.cache[f] = cache[f]
        /\ f \in u.summary.changed \cup u.summary.deleted => f \in s.changed \cup s.deleted \cup s.opened \cup s.closed
    BY <1>3, <2>1, FileUpdated
  <2>3. CASE f \in s.closed
    BY <1>6, <2>2, <2>3
  <2>4. CASE f \notin s.closed
    <3>1. f \notin s.deleted
      BY <2>2, <2>4 DEF NotCached
    <3>2. f \notin s.changed
      <4>1. CASE IsCached(f)
        BY <1>5, <2>2, <2>4, <3>1, <4>1 DEF Cached
      <4>2. CASE ~IsCached(f)
        BY <2>2, <2>4, <3>1, <4>2 DEF IsCached
      <4> QED
        BY <4>1, <4>2
    <3>3. u.cache[f] = cache[f]
      BY <2>2, <2>4, <3>1, <3>2
    <3>4. f \notin bulk
      BY <1>4, <1>6, <2>2, <2>4, <3>1, <3>2 DEF BulkAfter
    <3> QED
      BY <1>2, <1>4, <2>4, <3>1, <3>2, <3>3, <3>4
  <2> QED
    BY <2>3, <2>4
<1>7. CASE Excessive(s)
  <2>1. f \notin bulk /\ f \notin s.closed
    BY <1>7 DEF BulkAfter
  <2>2. ~e.closed /\ overlays[f].text = NoText
    BY <1>2, <1>4, <2>1
  <2>3. u = BulkUpdate(s)
    BY <1>3, <1>7
  <2>4. u.cache[f].text = cache[f].text /\ IsCached(f)
    BY <1>3, <2>3, BulkUpdated DEF IsCached
  <2>5. ~e.watchChanged /\ ~e.deleted
    <3> SUFFICES ASSUME e.watchChanged \/ e.deleted PROVE FALSE
      OBVIOUS
    <3>1. f \in s.changed \cup s.deleted
      BY <1>2, <1>4, <2>2
    <3>2. f \in s.watched
      <4>1. Reported(batch, f, e)
        BY DEF Batched
      <4>2. PICK i \in DOMAIN batch : batch[i].file = f /\ batch[i].kind \in WatchKinds
        BY <4>1 DEF Reported
      <4>3. s.watched = {batch[j].file : j \in {k \in DOMAIN batch : batch[k].kind \in WatchKinds}}
        BY DEF Batched, ProcessChanges
      <4> QED
        BY <4>2, <4>3
    <3> QED
      BY <1>3, <2>3, <2>4, <3>1, <3>2, BulkUpdated
  <2>6. u.cache[f] = cache[f]
    <3>1. u.cache[f] = cache[f] \/ u.cache[f] = [cache[f] EXCEPT !.reload = TRUE]
      BY <2>3 DEF BulkUpdate, Reload
    <3> QED
      BY <1>5, <3>1 DEF Cached
  <2> QED
    BY <1>4, <1>7, <2>1, <2>2, <2>5, <2>6
<1> QED
  BY <1>6, <1>7

(* update_snapshot_inner: what is known of the files after a batch.        *)
LEMMA BatchFollowed ==
  ASSUME TypeOK, NEW batch \in Seq(Change), NEW requested \in BOOLEAN, NEW cloned \in BOOLEAN,
         UpdateSnapshot(batch, requested, cloned), disk' = disk, watchq' = watchq,
         NEW ev \in [Files -> Events], ev = FileEvents(batch),
         \A f \in Files :
           /\ Reported(batch, f, ev[f])
           /\ ~(ev[f].created /\ ev[f].watchChanged)
           /\ ev[f].open = NoText => CacheSeen(f, ev[f]) /\ \E b : EditorSeen(overlays[f].text, ev[f], b)
           /\ \E e : ProgramSeen(f, e) /\ (ev[f].open = NoText => e = ev[f])
  PROVE  \A f \in Files : CacheSeen(f, NoEvents)' /\ ProgramSeen(f, NoEvents)'
<1>1. PICK s, over, u, p :
        /\ s = ProcessChanges(batch, ev) /\ over = NewOverlays(ev)
        /\ u = IF Excessive(s) THEN BulkUpdate(s) ELSE FileUpdate(s, over)
        /\ p = DidChangeFiles(u.summary)
  OBVIOUS
<1>2. PICK build, read, disks, fresh :
        /\ build = (requested /\ p.dirty)
        /\ read = IF build THEN FilesRead(p, u.cache, over, cloned) ELSE {}
        /\ disks = {g \in read : over[g].text = NoText}
        /\ fresh = {g \in disks : u.cache[g].text = NoText \/ u.cache[g].reload}
                     \cup IF Excessive(s) THEN {} ELSE s.closed
  OBVIOUS
<1>3. /\ overlays' = over
      /\ cache' = [g \in Files |-> IF g \in disks THEN ReadDisk(u.cache, g) ELSE u.cache[g]]
      /\ program' = [g \in Files |-> IF g \notin read THEN program[g]
                                     ELSE IF over[g].text # NoText THEN over[g].text
                                     ELSE cache'[g].text]
      /\ dirty' = (p.dirty /\ ~build)
      /\ dirtyFile' = IF build THEN NoFile ELSE p.dirtyFile
      /\ early' = (early \ fresh) \cup {g \in fresh : Unreported(g)}
      /\ bulk' = BulkAfter(s, u)
  <2>1. /\ overlays' = over
        /\ cache' = [g \in Files |-> IF g \in disks THEN ReadDisk(u.cache, g) ELSE u.cache[g]]
        /\ program' = [g \in Files |-> IF g \notin read THEN program[g]
                                       ELSE IF over[g].text # NoText THEN over[g].text
                                       ELSE cache'[g].text]
        /\ dirty' = (p.dirty /\ ~build)
        /\ dirtyFile' = IF build THEN NoFile ELSE p.dirtyFile
        /\ early' = (early \ fresh) \cup {g \in fresh : Unreported(g)}
    BY <1>1, <1>2 DEF UpdateSnapshot
  <2>2. bulk' = BulkAfter(s, u)
    BY <1>1 DEF UpdateSnapshot, BulkAfter
  <2> QED
    BY <2>1, <2>2
<1>4. s \in Summary
  BY <1>1, SummaryType
<1>5. u.cache \in [Files -> Cached] /\ u.summary \in Summary
  <2>1. u \in Update
    BY <1>1, <1>4, BulkType, FileType
  <2> QED
    BY <2>1 DEF Update
<1>6. p.dirty \in BOOLEAN /\ p.dirtyFile \in Files \cup {NoFile}
  BY <1>1, <1>5, DidChangeType DEF Marks
<1>7. Batched(batch, ev, s, over, u)
  BY <1>1, <1>4 DEF Batched
<1> SUFFICES ASSUME NEW f \in Files PROVE CacheSeen(f, NoEvents)' /\ ProgramSeen(f, NoEvents)'
  OBVIOUS
<1>8. PICK e : e = ev[f] /\ e \in Events
  OBVIOUS
<1>9. build \in BOOLEAN /\ (build => requested /\ p.dirty) /\ (read # {} => build) /\ (build /\ Touched(p, f) => f \in read)
  <2>1. build /\ Touched(p, f) => f \in read
    BY <1>2 DEF Touched, FilesRead
  <2> QED
    BY <1>2, <1>6, <2>1
<1>10. f \in disks => cache'[f] = (IF u.cache[f].text # NoText /\ ~u.cache[f].reload THEN u.cache[f] ELSE FromDisk(f))
  BY <1>3 DEF ReadDisk
<1>11. f \notin disks => cache'[f] = u.cache[f]
  BY <1>3
<1>12. FromDisk(f).text = disk[f] /\ FromDisk(f).reload = FALSE
  BY DEF FromDisk
<1>13. f \in disks <=> f \in read /\ over[f].text = NoText
  BY <1>2
<1>14. \A K : Queueing(f, K)' <=> Queueing(f, K)
  BY DEF Queueing, IsEvent
<1>15. DeletedFirst(f)' <=> DeletedFirst(f)
  BY DEF DeletedFirst, IsEvent
<1>16. ~NoEvents.created /\ ~NoEvents.deleted /\ ~NoEvents.watchChanged
  BY DEF NoEvents
<1>17. CacheSeen(f, NoEvents)'
  <2> SUFFICES ASSUME f \notin early' \cup bulk', over[f].text = NoText, cache'[f].text # NoText, ~cache'[f].reload
               PROVE  /\ DeletedFirst(f)
                      /\ disk[f] = NoText => Queueing(f, {"watchDelete"})
                      /\ cache'[f].text = disk[f] \/ Queueing(f, {"watchChange", "watchDelete"})
    BY <1>3, <1>14, <1>15, <1>16 DEF CacheSeen, IsCached
  <2>1. ASSUME f \in fresh, cache'[f] = FromDisk(f)
        PROVE  /\ DeletedFirst(f)
               /\ disk[f] = NoText => Queueing(f, {"watchDelete"})
               /\ cache'[f].text = disk[f]
    <3>1. ~Unreported(f)
      BY <1>3, <2>1
    <3>2. DeletedFirst(f)
      BY <3>1 DEF Unreported, DeletedFirst, IsEvent
    <3> QED
      BY <1>12, <2>1, <3>2
  <2>2. CASE f \in disks /\ (u.cache[f].text = NoText \/ u.cache[f].reload)
    <3>1. f \in fresh /\ cache'[f] = FromDisk(f)
      BY <1>2, <1>10, <2>2
    <3> QED
      BY <2>1, <3>1
  <2>3. CASE ~(f \in disks /\ (u.cache[f].text = NoText \/ u.cache[f].reload))
    <3>1. cache'[f] = u.cache[f]
      BY <1>10, <1>11, <2>3
    <3>2. \/ ~Excessive(s) /\ f \in s.closed /\ u.cache[f] = FromDisk(f)
          \/ /\ f \notin bulk /\ e.open = NoText /\ overlays[f].text = NoText /\ u.cache[f] = cache[f]
             /\ ~e.watchChanged /\ ~e.deleted /\ (Excessive(s) \/ f \notin s.closed)
      BY <1>3, <1>7, <1>8, <3>1, BatchCached
    <3>3. CASE ~Excessive(s) /\ f \in s.closed /\ u.cache[f] = FromDisk(f)
      <4>1. f \in fresh
        BY <1>2, <3>3
      <4> QED
        BY <2>1, <3>1, <3>3, <4>1
    <3>4. CASE /\ f \notin bulk /\ e.open = NoText /\ overlays[f].text = NoText /\ u.cache[f] = cache[f]
               /\ ~e.watchChanged /\ ~e.deleted /\ (Excessive(s) \/ f \notin s.closed)
      <4>1. f \notin fresh
        BY <1>2, <2>3, <3>4
      <4>2. f \notin early
        BY <1>3, <4>1
      <4>3. CacheSeen(f, e) /\ IsCached(f) /\ ~cache[f].reload
        BY <1>8, <3>1, <3>4 DEF IsCached
      <4> QED
        BY <3>1, <3>4, <4>2, <4>3 DEF CacheSeen
    <3> QED
      BY <3>2, <3>3, <3>4
  <2> QED
    BY <2>2, <2>3
<1>18. ProgramSeen(f, NoEvents)'
  <2> SUFFICES ASSUME Untouched(f)', f \notin bulk'
      PROVE  /\ program'[f] = IF over[f].text # NoText THEN over[f].text ELSE cache'[f].text
             /\ over[f].text = NoText => ~cache'[f].reload
             /\ over[f].text = NoText /\ cache'[f].text = NoText /\ disk[f] # NoText =>
                  Queueing(f, {"watchCreate", "watchChange"})
    BY <1>3, <1>14 DEF ProgramSeen, IsCached
  <2>1. CASE f \in read
    <3>1. program'[f] = IF over[f].text # NoText THEN over[f].text ELSE cache'[f].text
      BY <1>3, <2>1
    <3>2. over[f].text = NoText => ~cache'[f].reload /\ (cache'[f].text = NoText => disk[f] = NoText)
      BY <1>10, <1>12, <1>13, <2>1
    <3> QED
      BY <3>1, <3>2
  <2>2. CASE f \notin read
    <3>1. ~Touched(p, f)
      <4>1. CASE build
        BY <1>9, <2>2, <4>1
      <4>2. CASE ~build
        BY <1>3, <4>2 DEF Untouched, Touched
      <4> QED
        BY <1>9, <4>1, <4>2
    <3>2. program'[f] = program[f] /\ cache'[f] = u.cache[f]
      BY <1>3, <1>11, <1>13, <2>2
    <3>3. /\ f \notin bulk /\ Untouched(f)
          /\ over[f].text # NoText => over[f].text = IF overlays[f].text # NoText THEN overlays[f].text ELSE cache[f].text
          /\ over[f].text = NoText => u.cache[f].text = IF overlays[f].text # NoText THEN overlays[f].text ELSE cache[f].text
          /\ over[f].text = NoText =>
               \/ /\ e.open = NoText /\ overlays[f].text = NoText /\ u.cache[f] = cache[f]
                  /\ ~e.watchChanged /\ ~e.created /\ ~e.deleted
               \/ u.cache[f] = FromDisk(f)
      BY <1>1, <1>3, <1>5, <1>7, <1>8, <3>1, BatchUntouched
    <3>4. PICK d : ProgramSeen(f, d) /\ (e.open = NoText => d = e)
      BY <1>8
    <3>5. /\ program[f] = IF overlays[f].text # NoText THEN overlays[f].text ELSE cache[f].text
          /\ overlays[f].text = NoText => ~cache[f].reload
          /\ overlays[f].text = NoText /\ cache[f].text = NoText /\ disk[f] # NoText =>
               d.created \/ d.watchChanged \/ Queueing(f, {"watchCreate", "watchChange"})
      BY <3>3, <3>4 DEF ProgramSeen, IsCached
    <3>6. program'[f] = IF over[f].text # NoText THEN over[f].text ELSE cache'[f].text
      BY <3>2, <3>3, <3>5
    <3>7. over[f].text = NoText => ~cache'[f].reload
      BY <1>12, <3>2, <3>3, <3>5
    <3>8. over[f].text = NoText /\ cache'[f].text = NoText /\ disk[f] # NoText =>
            Queueing(f, {"watchCreate", "watchChange"})
      BY <1>12, <3>2, <3>3, <3>4, <3>5
    <3> QED
      BY <3>6, <3>7, <3>8
  <2> QED
    BY <2>1, <2>2
<1> QED
  BY <1>17, <1>18

-----------------------------------------------------------------------------
(* The steps, one by one.                                                  *)

(* Nothing is known of a file that does not depend on its events, the      *)
(* disk, the queue and the session's state.                                *)
LEMMA SeenUnchanged ==
  ASSUME UNCHANGED <<disk, watchq, overlays, cache, projectVars, early, bulk>>
  PROVE  /\ Alternating' <=> Alternating
         /\ \A f, e : /\ WatchSeen(f, e)' <=> WatchSeen(f, e)
                      /\ CacheSeen(f, e)' <=> CacheSeen(f, e)
                      /\ ProgramSeen(f, e)' <=> ProgramSeen(f, e)
<1>1. \A i, f, K : IsEvent(i, f, K)' <=> IsEvent(i, f, K)
  BY DEF IsEvent
<1>2. \A f, K : Queueing(f, K)' <=> Queueing(f, K)
  BY DEF Queueing, IsEvent
<1>3. \A f : DeletedFirst(f)' <=> DeletedFirst(f)
  BY DEF DeletedFirst, IsEvent
<1>4. Alternating' <=> Alternating
  BY DEF Alternating, IsEvent
<1>5. \A f, e : WatchSeen(f, e)' <=> WatchSeen(f, e)
  BY <1>2, <1>3 DEF WatchSeen
<1>6. \A f, e : CacheSeen(f, e)' <=> CacheSeen(f, e)
  BY <1>2, <1>3 DEF CacheSeen, IsCached
<1>7. \A f, e : ProgramSeen(f, e)' <=> ProgramSeen(f, e)
  BY <1>2 DEF ProgramSeen, IsCached, Untouched, projectVars
<1> QED
  BY <1>4, <1>5, <1>6, <1>7

(* One more change in the batch.                                           *)
LEMMA ReportedMore ==
  ASSUME NEW b \in Seq(Change), NEW c \in Change, NEW f, NEW e, NEW n, Reported(b, f, e),
         \/ n.watchChanged \/ n.deleted => e.watchChanged \/ e.deleted
         \/ c.file = f /\ c.kind \in WatchKinds
  PROVE  Reported(Append(b, c), f, n)
<1>1. PICK d : d = Append(b, c)
  OBVIOUS
<1>2. /\ Len(b) + 1 \in DOMAIN d /\ d[Len(b) + 1] = c
      /\ \A i \in DOMAIN b : i \in DOMAIN d /\ d[i] = b[i]
  BY <1>1
<1> QED
  BY <1>1, <1>2 DEF Reported

(* An editor's event leaves what the watcher said, or takes a change away. *)
LEMMA FoldedEditor ==
  ASSUME NEW e \in Events, e.open = NoText, NEW c \in Change, c.kind \in {"close", "change", "save"},
         NEW n, n = FoldEvent(e, c)
  PROVE  n.created = e.created /\ n.deleted = e.deleted /\ (n.watchChanged => e.watchChanged)
<1>1. CASE c.kind = "close"
  BY <1>1 DEF FoldEvent, Events
<1>2. CASE c.kind = "change"
  BY <1>2 DEF FoldEvent, Events
<1>3. CASE c.kind = "save"
  BY <1>3 DEF FoldEvent, Events
<1> QED
  BY <1>1, <1>2, <1>3

(* That is as good for a file with an overlay.                             *)
LEMMA SeenWithLess ==
  ASSUME NEW f, NEW e, NEW n, WatchSeen(f, e)', ProgramSeen(f, e)', overlays'[f].text # NoText,
         n.created = e.created, n.deleted = e.deleted, n.watchChanged => e.watchChanged
  PROVE  WatchSeen(f, n)' /\ CacheSeen(f, n)' /\ ProgramSeen(f, n)'
<1>1. WatchSeen(f, n)'
  BY DEF WatchSeen
<1>2. CacheSeen(f, n)'
  BY DEF CacheSeen
<1>3. ProgramSeen(f, n)'
  BY DEF ProgramSeen
<1> QED
  BY <1>1, <1>2, <1>3

(* A write of another program.                                             *)
LEMMA WriteFollowed ==
  ASSUME IInv, Followed, NEW f \in Files, NEW x \in Texts \cup {NoText}, WriteFile(f, x)
  PROVE  Followed'
<1>1. /\ x # disk[f] /\ disk' = [disk EXCEPT ![f] = x] /\ watchq' = Append(watchq, WatchEvent(f, x))
      /\ UNCHANGED <<pending, overlays, buffer, cache, projectVars, early, bulk, panicked>>
  BY DEF WriteFile
<1>2. TypeOK /\ FileEvents(pending) \in [Files -> Events] /\ x \in Text
  BY DEF IInv, EventsTyped, Text
<1>3. Alternating'
  BY <1>1, <1>2, WriteAlternates DEF Followed
<1>4. ASSUME NEW g \in Files, NEW e, e = FileEvents(pending)[g] PROVE FileSeen(g, e)'
  <2>1. e \in Events /\ FileSeen(g, e)
    BY <1>2, <1>4 DEF Followed, FileSeen
  <2>2. WatchSeen(g, e)' /\ CacheSeen(g, e)' /\ ProgramSeen(g, e)'
    <3>1. UNCHANGED <<overlays, cache, projectVars, early, bulk>>
      BY <1>1
    <3> QED
      BY <1>1, <1>2, <2>1, <3>1, WriteSeen DEF FileSeen
  <2>3. Reported(pending, g, e)'
    BY <1>1, <2>1 DEF FileSeen, Reported
  <2> QED
    BY <2>2, <2>3 DEF FileSeen
<1>5. FileEvents(pending)' = FileEvents(pending)
  BY <1>1
<1> QED
  BY <1>3, <1>4, <1>5 DEF Followed, FileSeen

(* did_change_watched_files                                                *)
LEMMA DeliverFollowed ==
  ASSUME IInv, Followed, DidChangeWatchedFiles
  PROVE  Followed'
<1>0. PICK c : c = Head(watchq)
  OBVIOUS
<1>1. /\ watchq # <<>> /\ watchq' = Tail(watchq) /\ pending' = Append(pending, c)
      /\ UNCHANGED <<disk, overlays, buffer, ops, cache, projectVars, early, bulk, panicked>>
  BY <1>0 DEF DidChangeWatchedFiles
<1>2. TypeOK /\ EventsTyped /\ FileEvents(pending) \in [Files -> Events]
  BY DEF IInv, EventsTyped
<1>3. c \in Change /\ c.kind \in WatchKinds
  <2>1. watchq \in Seq(Change) /\ pending \in Seq(Change)
    BY <1>2 DEF TypeOK
  <2>2. 1 \in DOMAIN watchq /\ c = watchq[1] /\ c \in Change
    BY <1>0, <1>1, <2>1
  <2> QED
    BY <2>2 DEF IInv, WatchedOnly
<1>4. /\ FileEvents(Append(pending, c)) \in [Files -> Events]
      /\ FileEvents(Append(pending, c))[c.file] = FoldEvent(FileEvents(pending)[c.file], c)
      /\ \A g \in Files : g # c.file => FileEvents(Append(pending, c))[g] = FileEvents(pending)[g]
  BY <1>2, <1>3, QueuedType
<1>5. Alternating'
  BY <1>1, <1>2, TailAlternates DEF Followed
<1>6. ASSUME NEW g \in Files, NEW n, n = FileEvents(Append(pending, c))[g] PROVE FileSeen(g, n)'
  <2>1. PICK e : e = FileEvents(pending)[g]
    OBVIOUS
  <2>2. e \in Events /\ FileSeen(g, e) /\ n \in Events /\ n = IF c.file = g THEN FoldEvent(e, c) ELSE e
    BY <1>2, <1>4, <1>6, <2>1 DEF Followed, FileSeen
  <2>3. e.open = NoText
    BY <2>1 DEF IInv, BuffersSeen, EditorSeen
  <2>4. WatchSeen(g, n)' /\ CacheSeen(g, n)' /\ ProgramSeen(g, n)'
    <3>1. UNCHANGED <<disk, overlays, cache, projectVars, early, bulk>>
      BY <1>1
    <3> QED
      BY <1>0, <1>1, <1>2, <1>3, <2>2, <2>3, <3>1, DeliverSeen DEF Followed, FileSeen
  <2>5. Reported(Append(pending, c), g, n)
    <3>1. pending \in Seq(Change) /\ Reported(pending, g, e)
      BY <1>2, <2>2 DEF TypeOK, FileSeen
    <3> QED
      BY <1>3, <2>2, <3>1, ReportedMore
  <2>6. Reported(pending, g, n)'
    BY <1>1, <2>5 DEF Reported
  <2> QED
    BY <2>4, <2>6 DEF FileSeen
<1>7. FileEvents(pending)' = FileEvents(Append(pending, c))
  BY <1>1
<1> QED
  BY <1>5, <1>6, <1>7 DEF Followed, FileSeen

(* did_change_file, did_close_file and did_save_file                       *)
LEMMA EditorFollowed ==
  ASSUME IInv, Followed, NEW f \in Files, buffer[f] # NoText,
         NEW c \in Change, c.file = f, c.kind \in {"close", "change", "save"},
         pending' = Append(pending, c), UNCHANGED <<overlays, cache, projectVars, early, bulk>>,
         \/ UNCHANGED <<disk, watchq>>
         \/ \E x \in Text : /\ x # disk[f] /\ disk' = [disk EXCEPT ![f] = x]
                            /\ watchq' = Append(watchq, WatchEvent(f, x))
  PROVE  Followed'
<1>1. TypeOK /\ EventsTyped /\ FileEvents(pending) \in [Files -> Events]
  BY DEF IInv, EventsTyped
<1>2. /\ FileEvents(Append(pending, c)) \in [Files -> Events]
      /\ FileEvents(Append(pending, c))[f] = FoldEvent(FileEvents(pending)[f], c)
      /\ \A g \in Files : g # f => FileEvents(Append(pending, c))[g] = FileEvents(pending)[g]
  BY <1>1, QueuedType
<1>3. Alternating' /\ \A g \in Files : \A e :
        e = FileEvents(pending)[g] => WatchSeen(g, e)' /\ CacheSeen(g, e)' /\ ProgramSeen(g, e)'
  <2>1. CASE UNCHANGED <<disk, watchq>>
    <3>1. Alternating'
      BY <2>1, SeenUnchanged DEF Followed
    <3> SUFFICES ASSUME NEW g \in Files, NEW e, e = FileEvents(pending)[g]
                 PROVE  WatchSeen(g, e)' /\ CacheSeen(g, e)' /\ ProgramSeen(g, e)'
      BY <3>1
    <3>2. WatchSeen(g, e) /\ CacheSeen(g, e) /\ ProgramSeen(g, e)
      BY DEF Followed, FileSeen
    <3> QED
      BY <2>1, <3>2, SeenUnchanged
  <2>2. ASSUME NEW x \in Text, x # disk[f], disk' = [disk EXCEPT ![f] = x], watchq' = Append(watchq, WatchEvent(f, x))
        PROVE  Alternating' /\ \A g \in Files : \A e :
        e = FileEvents(pending)[g] => WatchSeen(g, e)' /\ CacheSeen(g, e)' /\ ProgramSeen(g, e)'
    <3>1. Alternating'
      BY <1>1, <2>2, WriteAlternates DEF Followed
    <3> SUFFICES ASSUME NEW g \in Files, NEW e, e = FileEvents(pending)[g]
                 PROVE  WatchSeen(g, e)' /\ CacheSeen(g, e)' /\ ProgramSeen(g, e)'
      BY <3>1
    <3>2. e \in Events /\ WatchSeen(g, e) /\ CacheSeen(g, e) /\ ProgramSeen(g, e)
      BY <1>1 DEF Followed, FileSeen
    <3> QED
      BY <1>1, <2>2, <3>2, WriteSeen
  <2> QED
    BY <2>1, <2>2
<1>4. overlays[f].text # NoText /\ FileEvents(pending)[f].open = NoText
  BY DEF IInv, BuffersSeen, EditorSeen
<1>5. ASSUME NEW g \in Files, NEW n, n = FileEvents(Append(pending, c))[g] PROVE FileSeen(g, n)'
  <2>1. PICK e : e = FileEvents(pending)[g]
    OBVIOUS
  <2>2. e \in Events /\ FileSeen(g, e) /\ WatchSeen(g, e)' /\ CacheSeen(g, e)' /\ ProgramSeen(g, e)'
    BY <1>1, <1>3, <2>1 DEF Followed
  <2>3. g = f => n.created = e.created /\ n.deleted = e.deleted /\ (n.watchChanged => e.watchChanged)
    <3> SUFFICES ASSUME g = f PROVE n.created = e.created /\ n.deleted = e.deleted /\ (n.watchChanged => e.watchChanged)
      OBVIOUS
    <3>1. n = FoldEvent(e, c) /\ e.open = NoText
      BY <1>2, <1>4, <1>5, <2>1
    <3> QED
      BY <2>2, <3>1, FoldedEditor
  <2>4. g # f => n = e
    BY <1>2, <1>5, <2>1
  <2>5. WatchSeen(g, n)' /\ CacheSeen(g, n)' /\ ProgramSeen(g, n)'
    <3>1. CASE g # f
      BY <2>2, <2>4, <3>1
    <3>2. CASE g = f
      <4>1. overlays'[g].text # NoText
        BY <1>4, <3>2
      <4> QED
        BY <2>2, <2>3, <3>2, <4>1, SeenWithLess
    <3> QED
      BY <3>1, <3>2
  <2>6. Reported(Append(pending, c), g, n)
    <3>1. pending \in Seq(Change) /\ Reported(pending, g, e)
      BY <1>1, <2>2 DEF TypeOK, FileSeen
    <3>2. n.watchChanged \/ n.deleted => e.watchChanged \/ e.deleted
      BY <2>3, <2>4
    <3> QED
      BY <3>1, <3>2, ReportedMore
  <2>7. Reported(pending, g, n)'
    BY <2>6 DEF Reported
  <2> QED
    BY <2>5, <2>7 DEF FileSeen
<1>6. FileEvents(pending)' = FileEvents(Append(pending, c))
  OBVIOUS
<1> QED
  BY <1>3, <1>5, <1>6 DEF Followed

(* After a batch no event is pending.                                      *)
LEMMA NothingPending ==
  ASSUME Alternating, pending' = <<>>, disk' = disk, watchq' = watchq,
         \A f \in Files : CacheSeen(f, NoEvents)' /\ ProgramSeen(f, NoEvents)'
  PROVE  Followed'
<1>1. FileEvents(pending)' = [f \in Files |-> NoEvents]
  BY EventsOfNone
<1>2. Alternating'
  BY DEF Alternating, IsEvent
<1>3. ASSUME NEW f \in Files PROVE FileSeen(f, NoEvents)'
  <2>1. WatchSeen(f, NoEvents)'
    BY DEF WatchSeen, NoEvents
  <2>2. Reported(pending, f, NoEvents)'
    BY DEF Reported, NoEvents
  <2> QED
    BY <2>1, <2>2 DEF FileSeen
<1>4. ASSUME NEW f \in Files PROVE FileSeen(f, FileEvents(pending)[f])'
  <2>1. PICK n : n = FileEvents(pending)'[f]
    OBVIOUS
  <2>2. n = NoEvents
    BY <1>1, <2>1
  <2>3. FileSeen(f, n)'
    BY <1>3, <2>2
  <2> QED
    BY <2>1, <2>3
<1> QED
  BY <1>2, <1>4 DEF Followed

(* A request, or an idle cache clean.                                      *)
LEMMA PendingFollowed ==
  ASSUME IInv, Followed, NEW requested \in BOOLEAN, NEW cloned \in BOOLEAN,
         UpdateSnapshot(pending, requested, cloned), UNCHANGED <<disk, buffer, watchq, ops>>
  PROVE  Followed'
<1>1. TypeOK /\ FileEvents(pending) \in [Files -> Events] /\ pending \in Seq(Change)
  BY DEF IInv, EventsTyped, TypeOK
<1>2. pending' = <<>>
  BY PendingProcessed
<1>3. PICK b, ev : b = pending /\ ev = FileEvents(pending)
  OBVIOUS
<1>4. \A f \in Files :
        /\ Reported(b, f, ev[f])
        /\ ~(ev[f].created /\ ev[f].watchChanged)
        /\ ev[f].open = NoText => CacheSeen(f, ev[f]) /\ \E t : EditorSeen(overlays[f].text, ev[f], t)
        /\ \E e : ProgramSeen(f, e) /\ (ev[f].open = NoText => e = ev[f])
  <2> SUFFICES ASSUME NEW f \in Files
      PROVE  /\ Reported(b, f, ev[f])
             /\ ~(ev[f].created /\ ev[f].watchChanged)
             /\ CacheSeen(f, ev[f]) /\ EditorSeen(overlays[f].text, ev[f], buffer[f])
             /\ ProgramSeen(f, ev[f])
    OBVIOUS
  <2>1. FileSeen(f, ev[f])
    BY <1>3 DEF Followed
  <2>2. EditorSeen(overlays[f].text, ev[f], buffer[f])
    BY <1>3 DEF IInv, BuffersSeen
  <2> QED
    BY <1>3, <2>1, <2>2 DEF FileSeen, WatchSeen
<1>5. \A f \in Files : CacheSeen(f, NoEvents)' /\ ProgramSeen(f, NoEvents)'
  BY <1>1, <1>3, <1>4, BatchFollowed
<1> QED
  BY <1>2, <1>5, NothingPending DEF Followed

(* did_open_file                                                           *)
LEMMA OpenFollowed ==
  ASSUME IInv, Followed, NEW f \in Files, NEW x \in Texts, NEW cloned \in BOOLEAN, DidOpenFile(f, x, cloned)
  PROVE  Followed'
<1> USE TextsAssumption
<1>0. PICK c : c = Chg("open", f, x)
  OBVIOUS
<1>1. c \in Change /\ c.file = f /\ c.kind = "open" /\ c.text = x
  BY <1>0 DEF Chg, Change, Kinds, WatchKinds
<1>2. TypeOK /\ EventsTyped /\ FileEvents(pending) \in [Files -> Events] /\ pending \in Seq(Change)
  BY DEF IInv, EventsTyped, TypeOK
<1>3. PICK b, ev : b = Append(pending, c) /\ ev = FileEvents(b)
  OBVIOUS
<1>4. b \in Seq(Change)
  BY <1>1, <1>2, <1>3
<1>5. /\ ev \in [Files -> Events] /\ ev[f] = FoldEvent(FileEvents(pending)[f], c)
      /\ \A g \in Files : g # f => ev[g] = FileEvents(pending)[g]
  BY <1>1, <1>2, <1>3, QueuedType
<1>6. UpdateSnapshot(b, TRUE, cloned) /\ disk' = disk /\ watchq' = watchq
  BY <1>0, <1>3 DEF DidOpenFile
<1>7. pending' = <<>>
  BY <1>2, <1>3, <1>4, <1>5, <1>6, UpdateType
<1>8. ev[f].open = x /\ ~ev[f].created /\ ~ev[f].watchChanged /\ ~ev[f].deleted
  <2>1. FileEvents(pending)[f] \in Events /\ FileEvents(pending)[f].open = NoText
    BY <1>2 DEF IInv, BuffersSeen, EditorSeen
  <2> QED
    BY <1>1, <1>5, <2>1 DEF FoldEvent, NoEvents, Events
<1>9. \A g \in Files :
        /\ Reported(b, g, ev[g])
        /\ ~(ev[g].created /\ ev[g].watchChanged)
        /\ ev[g].open = NoText => CacheSeen(g, ev[g]) /\ \E t : EditorSeen(overlays[g].text, ev[g], t)
        /\ \E e : ProgramSeen(g, e) /\ (ev[g].open = NoText => e = ev[g])
  <2> SUFFICES ASSUME NEW g \in Files
      PROVE  /\ Reported(b, g, ev[g])
             /\ ~(ev[g].created /\ ev[g].watchChanged)
             /\ ev[g].open = NoText => CacheSeen(g, ev[g]) /\ \E t : EditorSeen(overlays[g].text, ev[g], t)
             /\ \E e : ProgramSeen(g, e) /\ (ev[g].open = NoText => e = ev[g])
    OBVIOUS
  <2>1. PICK e : e = FileEvents(pending)[g]
    OBVIOUS
  <2>2. FileSeen(g, e) /\ EditorSeen(overlays[g].text, e, buffer[g])
    BY <2>1 DEF Followed, IInv, BuffersSeen
  <2>3. CASE g = f
    <3>1. Reported(b, g, ev[g])
      BY <1>8, <2>3 DEF Reported
    <3>2. ev[g].open # NoText
      BY <1>8, <2>3
    <3> QED
      BY <1>8, <2>2, <2>3, <3>1, <3>2 DEF FileSeen
  <2>4. CASE g # f
    <3>1. ev[g] = e
      BY <1>5, <2>1, <2>4
    <3>2. Reported(b, g, e)
      <4>1. Reported(pending, g, e)
        BY <2>2 DEF FileSeen
      <4> QED
        BY <1>1, <1>2, <1>3, <4>1, ReportedMore
    <3> QED
      BY <2>2, <3>1, <3>2 DEF FileSeen, WatchSeen
  <2> QED
    BY <2>3, <2>4
<1>10. \A g \in Files : CacheSeen(g, NoEvents)' /\ ProgramSeen(g, NoEvents)'
  BY <1>2, <1>3, <1>4, <1>5, <1>6, <1>9, BatchFollowed
<1> QED
  BY <1>6, <1>7, <1>10, NothingPending DEF Followed

(* The project is loaded from the disk.                                    *)
LEMMA InitFollowed == Init => Followed
<1> SUFFICES ASSUME Init PROVE Followed
  OBVIOUS
<1>1. FileEvents(pending) = [f \in Files |-> NoEvents]
  BY EventsOfNone DEF Init
<1>2. DOMAIN watchq = {}
  BY DEF Init
<1>3. Alternating
  BY <1>2 DEF Alternating
<1>4. ASSUME NEW f \in Files PROVE FileSeen(f, NoEvents)
  <2>1. WatchSeen(f, NoEvents) /\ Reported(pending, f, NoEvents)
    BY DEF WatchSeen, Reported, NoEvents
  <2>2. /\ cache[f].text = disk[f] /\ cache[f].reload = FALSE /\ program[f] = disk[f]
        /\ overlays[f].text = NoText
    BY DEF Init, NoOverlay
  <2>3. CacheSeen(f, NoEvents)
    BY <1>2, <2>2 DEF CacheSeen, NoEvents, DeletedFirst, IsCached
  <2>4. ProgramSeen(f, NoEvents)
    BY <2>2 DEF ProgramSeen, IsCached
  <2> QED
    BY <2>1, <2>3, <2>4 DEF FileSeen
<1> QED
  BY <1>1, <1>3, <1>4 DEF Followed

(* One case per action of the specification.                               *)
LEMMA NextFollowed ==
  ASSUME IInv, Followed, [Next]_vars
  PROVE  Followed'
<1> USE TextsAssumption
<1>1. CASE UNCHANGED vars
  <2>1. UNCHANGED <<disk, watchq, overlays, cache, projectVars, early, bulk>> /\ pending' = pending
    BY <1>1 DEF vars
  <2>2. Alternating'
    BY <2>1, SeenUnchanged DEF Followed
  <2>3. ASSUME NEW f \in Files, NEW e, e = FileEvents(pending)[f] PROVE FileSeen(f, e)'
    <3>1. FileSeen(f, e)
      BY <2>3 DEF Followed
    <3>2. Reported(pending, f, e)'
      BY <2>1, <3>1 DEF FileSeen, Reported
    <3> QED
      BY <2>1, <3>1, <3>2, SeenUnchanged DEF FileSeen
  <2>4. FileEvents(pending)' = FileEvents(pending)
    BY <2>1
  <2> QED
    BY <2>2, <2>3, <2>4 DEF Followed
<1>2. CASE \E f \in Files, x \in Texts \cup {NoText} : WriteFile(f, x)
  BY <1>2, WriteFollowed
<1>3. ASSUME NEW f \in Files, NEW x \in Texts, DidChangeFile(f, x) PROVE Followed'
  <2>1. PICK c : c = Chg("change", f, x)
    OBVIOUS
  <2>2. c \in Change /\ c.file = f /\ c.kind \in {"close", "change", "save"}
    BY <2>1 DEF Chg, Change, Kinds
  <2>3. /\ buffer[f] # NoText /\ pending' = Append(pending, c)
        /\ UNCHANGED <<overlays, cache, projectVars, early, bulk>> /\ UNCHANGED <<disk, watchq>>
    BY <1>3, <2>1 DEF DidChangeFile
  <2> QED
    BY <2>2, <2>3, EditorFollowed
<1>4. ASSUME NEW f \in Files, NEW x \in Texts, NEW c \in BOOLEAN, DidOpenFile(f, x, c) PROVE Followed'
  BY <1>4, OpenFollowed
<1>5. ASSUME NEW f \in Files, DidCloseFile(f) PROVE Followed'
  <2>1. PICK c : c = Chg("close", f, NoText)
    OBVIOUS
  <2>2. c \in Change /\ c.file = f /\ c.kind \in {"close", "change", "save"}
    BY <2>1 DEF Chg, Change, Kinds
  <2>3. /\ buffer[f] # NoText /\ pending' = Append(pending, c)
        /\ UNCHANGED <<overlays, cache, projectVars, early, bulk>> /\ UNCHANGED <<disk, watchq>>
    BY <1>5, <2>1 DEF DidCloseFile
  <2> QED
    BY <2>2, <2>3, EditorFollowed
<1>6. ASSUME NEW f \in Files, DidSaveFile(f) PROVE Followed'
  <2>1. PICK c, x : c = Chg("save", f, NoText) /\ x = buffer[f]
    OBVIOUS
  <2>2. c \in Change /\ c.file = f /\ c.kind \in {"close", "change", "save"}
    BY <2>1 DEF Chg, Change, Kinds
  <2>3. /\ buffer[f] # NoText /\ pending' = Append(pending, c)
        /\ UNCHANGED <<overlays, cache, projectVars, early, bulk>>
        /\ disk' = [disk EXCEPT ![f] = x]
        /\ watchq' = IF disk[f] = x THEN watchq ELSE Append(watchq, WatchEvent(f, x))
    BY <1>6, <2>1 DEF DidSaveFile
  <2>4. x \in Text /\ disk \in [Files -> Text]
    BY <2>1 DEF IInv, TypeOK, Text
  <2>5. \/ UNCHANGED <<disk, watchq>>
        \/ /\ x # disk[f] /\ disk' = [disk EXCEPT ![f] = x]
           /\ watchq' = Append(watchq, WatchEvent(f, x))
    <3>1. CASE disk[f] = x
      <4>1. disk' = disk
        BY <2>3, <2>4, <3>1
      <4> QED
        BY <2>3, <3>1, <4>1
    <3>2. CASE disk[f] # x
      BY <2>3, <3>2
    <3> QED
      BY <3>1, <3>2
  <2> QED
    BY <2>2, <2>3, <2>4, <2>5, EditorFollowed
<1>7. CASE DidChangeWatchedFiles
  BY <1>7, DeliverFollowed
<1>8. ASSUME NEW c \in BOOLEAN, Request(c) PROVE Followed'
  BY <1>8, PendingFollowed DEF Request
<1>9. CASE IdleCacheClean
  BY <1>9, PendingFollowed DEF IdleCacheClean
<1> QED
  BY <1>1, <1>2, <1>3, <1>4, <1>5, <1>6, <1>7, <1>8, <1>9 DEF Next

(* The invariant holds of every behaviour.                                 *)
THEOREM ProjectFollowsDisk == Spec => []Followed
<1>1. IInv /\ Followed /\ [Next]_vars => Followed'
  BY NextFollowed
<1> QED
  BY <1>1, InitFollowed, ProjectFilesInvariant, PTL DEF Spec

(* Once the watcher's events are in, a program that is not dirty is made   *)
(* of the current texts: the folding of events, the cache of disk files,   *)
(* the single-file update and the bulk path lose no change, but for the    *)
(* two kinds of files the property excepts.                                *)
THEOREM ProgramsAreCurrent == Spec => []ProgramCurrent
<1>1. IInv /\ Followed => ProgramCurrent
  <2> SUFFICES ASSUME IInv, Followed, Settled, NEW f \in Files, f \notin early \cup bulk
      PROVE  /\ ~dirty => program[f] = Current(f)
             /\ IsCached(f) /\ ~cache[f].reload /\ buffer[f] = NoText => cache[f].text = disk[f]
    BY DEF ProgramCurrent
  <2>1. FileEvents(pending)[f] = NoEvents
    BY EventsOfNone DEF Settled
  <2>2. DOMAIN watchq = {}
    BY DEF Settled
  <2>3. \A K : ~Queueing(f, K)
    BY <2>2 DEF Queueing
  <2>4. overlays[f].text = buffer[f]
    <3>1. EditorSeen(overlays[f].text, NoEvents, buffer[f])
      BY <2>1 DEF IInv, BuffersSeen
    <3> QED
      BY <3>1 DEF EditorSeen, NoEvents
  <2>5. CacheSeen(f, NoEvents) /\ ProgramSeen(f, NoEvents)
    BY <2>1 DEF Followed, FileSeen
  <2>6. IsCached(f) /\ ~cache[f].reload /\ buffer[f] = NoText => cache[f].text = disk[f]
    BY <2>3, <2>4, <2>5 DEF CacheSeen, NoEvents
  <2>7. ~dirty =>
          /\ program[f] = IF buffer[f] # NoText THEN buffer[f] ELSE cache[f].text
          /\ buffer[f] = NoText => ~cache[f].reload
          /\ buffer[f] = NoText /\ ~IsCached(f) => disk[f] = NoText
    BY <2>3, <2>4, <2>5 DEF ProgramSeen, Untouched, NoEvents
  <2> QED
    BY <2>6, <2>7 DEF Current, IsCached
<1> QED
  BY <1>1, ProjectFilesInvariant, ProjectFollowsDisk, PTL
=============================================================================
