-------------------------- MODULE FileLoadingProof --------------------------
(***************************************************************************)
(* What the browser of FileLoading shows, for any paths, sessions and      *)
(* bounds.  A load is told apart by nothing but its generation, and the    *)
(* history outlives the loads that filled it; the invariant therefore says *)
(* what a load of the current generation, and every entry of the history,  *)
(* would put on the page.                                                  *)
(***************************************************************************)
EXTENDS FileLoading, SequenceTheorems, TLAPS

AnySite   == [kind : {"dir", "file", "none"}, pages : Nat, version : Nat]
AnyView   == [state : {"Initial", "Loading", "Folder", "File"}, path : Sites, page : Nat,
              version : Nat, session : Nat]
AnyEntry  == [path : Paths, view : AnyView]
AnyAnswer == [code : {"ok"}, kind : {"dir", "file"}, pages : Nat, version : Nat,
              dirs : SUBSET Paths]
             \cup [code : {"waiting", "error", "401", "cancelled"}]
AnyTask   == [step : {"get", "list", "restore"}, path : Paths, page : Nat, generation : Nat,
              session : Nat, answer : AnyAnswer]

\* The shape of the state.
Shape ==
  /\ server \in [Paths -> AnySite] /\ floor \in [Paths -> Nat] /\ closed \subseteq Paths
  /\ session \in Nat /\ issued \in Nat /\ generation \in Nat
  /\ pathname \in Sites /\ (mounted => pathname \in Paths)
  /\ history \in Seq(AnyEntry) /\ view \in AnyView /\ pending \subseteq AnyTask

OneEntryEach(h) == \A i, j \in DOMAIN h : h[i].path = h[j].path => i = j

\* What may be shown for a path, and kept for it.
EntryFits(e) ==
  /\ Shown(e.view) /\ e.view.session = session
  /\ ~stray => e.view.path = e.path /\ e.view.version >= floor[e.path]

HistoryFits == \A i \in DOMAIN history : EntryFits(history[i])

ViewFits ==
  Shown(view) =>
    /\ view.session = session
    /\ ~stray => view.path = pathname /\ view.version >= floor[view.path]

\* Loads are no younger than the generation; one that is as young is for what
\* the address bar shows, and brings nothing older than what was asked for.
TaskFits(t) ==
  /\ t.generation <= generation
  /\ t.generation = generation =>
       /\ t.session = session
       /\ ~stray => t.path = pathname
       /\ t.answer.code = "ok" => t.answer.version >= floor[t.path]

TasksFit == \A t \in pending : TaskFits(t)

FloorsReached == \A p \in Paths : floor[p] <= server[p].version

IInv ==
  /\ Shape
  /\ OneEntryEach(history)
  /\ HistoryFits
  /\ ViewFits
  /\ TasksFit
  /\ FloorsReached

-----------------------------------------------------------------------------
(***************************************************************************)
(* The history as a map.                                                   *)
(***************************************************************************)

\* Dropping a path's entry leaves the others, and no entry of the path.
LEMMA WithoutKeeps ==
  ASSUME NEW h \in Seq(AnyEntry), OneEntryEach(h), NEW p
  PROVE  /\ Without(h, p) \in Seq(AnyEntry)
         /\ OneEntryEach(Without(h, p))
         /\ \A i \in DOMAIN Without(h, p) :
              /\ Without(h, p)[i].path # p
              /\ \E j \in DOMAIN h : Without(h, p)[i] = h[j]
<1>1. CASE ~HasHistory(h, p)
  BY <1>1 DEF Without, HasHistory
<1>2. CASE HasHistory(h, p)
  <2> DEFINE k == IndexOf(h, p)
             s == SubSeq(h, 1, k - 1)
             t == SubSeq(h, k + 1, Len(h))
             w == s \o t
  <2>1. k \in 1 .. Len(h) /\ h[k].path = p
    BY <1>2 DEF HasHistory, IndexOf
  <2>2. Without(h, p) = w
    BY <1>2 DEF Without, RemoveAt
  <2> HIDE DEF k
  <2>3. s \in Seq(AnyEntry) /\ Len(s) = k - 1 /\ \A i \in 1 .. k - 1 : s[i] = h[i]
    BY <2>1
  <2>4. /\ t \in Seq(AnyEntry) /\ Len(t) = Len(h) - k
        /\ \A i \in 1 .. Len(h) - k : t[i] = h[k + i]
    BY <2>1
  <2> HIDE DEF s, t
  <2>5. /\ w \in Seq(AnyEntry) /\ Len(w) = Len(h) - 1
        /\ \A i \in 1 .. Len(h) - 1 : w[i] = IF i <= k - 1 THEN s[i] ELSE t[i - (k - 1)]
    <3>1. /\ w \in Seq(AnyEntry) /\ Len(w) = Len(s) + Len(t)
          /\ \A i \in 1 .. Len(s) + Len(t) : w[i] = IF i <= Len(s) THEN s[i] ELSE t[i - Len(s)]
      BY <2>3, <2>4, ConcatProperties, Zenon
    <3> HIDE DEF w
    <3>2. Len(s) + Len(t) = Len(h) - 1
      BY <2>1, <2>3, <2>4
    <3> QED BY <2>3, <3>1, <3>2
  <2>6. \A i \in 1 .. Len(h) - 1 : w[i] = IF i < k THEN h[i] ELSE h[i + 1]
    <3> TAKE i \in 1 .. Len(h) - 1
    <3>1. CASE i < k
      BY <2>1, <2>3, <2>5, <3>1
    <3>2. CASE ~(i < k)
      <4>1. w[i] = t[i - (k - 1)] /\ i - (k - 1) \in 1 .. Len(h) - k
        BY <2>1, <2>5, <3>2
      <4>2. t[i - (k - 1)] = h[k + (i - (k - 1))] /\ k + (i - (k - 1)) = i + 1
        BY <2>1, <2>4, <4>1
      <4> QED BY <3>2, <4>1, <4>2
    <3> QED BY <3>1, <3>2
  <2> HIDE DEF w
  <2>7. DOMAIN w = 1 .. Len(h) - 1 /\ DOMAIN h = 1 .. Len(h) /\ Len(h) \in Nat
    BY <2>5
  <2>8. \A i \in DOMAIN w : w[i].path # p /\ \E j \in DOMAIN h : w[i] = h[j]
    BY <2>1, <2>6, <2>7 DEF OneEntryEach
  <2>9. OneEntryEach(w)
    <3> SUFFICES ASSUME NEW i \in DOMAIN w, NEW j \in DOMAIN w, w[i].path = w[j].path
                 PROVE  i = j
      BY DEF OneEntryEach
    <3> DEFINE f(n) == IF n < k THEN n ELSE n + 1
    <3>1. f(i) \in DOMAIN h /\ f(j) \in DOMAIN h /\ w[i] = h[f(i)] /\ w[j] = h[f(j)]
      BY <2>1, <2>6, <2>7
    <3>2. f(i) = f(j)
      BY <3>1 DEF OneEntryEach
    <3> QED BY <2>1, <2>7, <3>2
  <2> QED BY <2>2, <2>5, <2>8, <2>9
<1> QED BY <1>1, <1>2

\* Setting a path's entry leaves others, of other paths; the oldest may go.
LEMMA PutKeeps ==
  ASSUME NEW h \in Seq(AnyEntry), OneEntryEach(h), NEW p \in Paths, NEW v \in AnyView
  PROVE  /\ Put(h, p, v) \in Seq(AnyEntry)
         /\ OneEntryEach(Put(h, p, v))
         /\ \A i \in DOMAIN Put(h, p, v) :
              \/ Put(h, p, v)[i] = [path |-> p, view |-> v]
              \/ \E j \in DOMAIN h : Put(h, p, v)[i] = h[j] /\ h[j].path # p
<1> DEFINE e == [path |-> p, view |-> v]
           w == Without(h, p)
           l == Append(w, e)
<1>1. /\ w \in Seq(AnyEntry) /\ OneEntryEach(w)
      /\ \A i \in DOMAIN w : w[i].path # p /\ \E j \in DOMAIN h : w[i] = h[j]
  BY WithoutKeeps
<1>2. e \in AnyEntry /\ e.path = p
  BY DEF AnyEntry
<1>3. Put(h, p, v) = IF Len(l) > HISTORY_LIMIT THEN Tail(l) ELSE l
  BY DEF Put
<1> HIDE DEF e, w
<1>4. /\ l \in Seq(AnyEntry) /\ Len(l) = Len(w) + 1 /\ Len(w) \in Nat
      /\ l[Len(w) + 1] = e /\ \A i \in 1 .. Len(w) : l[i] = w[i]
      /\ DOMAIN l = 1 .. Len(w) + 1 /\ DOMAIN w = 1 .. Len(w)
  BY <1>1, <1>2
<1> HIDE DEF l
<1>5. OneEntryEach(l)
  BY <1>1, <1>2, <1>4 DEF OneEntryEach
<1>6. \A i \in DOMAIN l : l[i] = e \/ \E j \in DOMAIN h : l[i] = h[j] /\ h[j].path # p
  BY <1>1, <1>4
<1>7. /\ Tail(l) \in Seq(AnyEntry) /\ DOMAIN Tail(l) = 1 .. Len(w)
      /\ \A i \in 1 .. Len(w) : Tail(l)[i] = l[i + 1]
  BY <1>4
<1>8. OneEntryEach(Tail(l))
  BY <1>4, <1>5, <1>7 DEF OneEntryEach
<1>9. \A i \in DOMAIN Tail(l) :
        Tail(l)[i] = e \/ \E j \in DOMAIN h : Tail(l)[i] = h[j] /\ h[j].path # p
  BY <1>4, <1>6, <1>7
<1>10. CASE Len(l) > HISTORY_LIMIT
  BY <1>3, <1>7, <1>8, <1>9, <1>10 DEF e
<1>11. CASE ~(Len(l) > HISTORY_LIMIT)
  BY <1>3, <1>4, <1>5, <1>6, <1>11 DEF e
<1> QED BY <1>10, <1>11

-----------------------------------------------------------------------------
(***************************************************************************)
(* Loads.                                                                  *)
(***************************************************************************)
LEMMA InitInv == Init => IInv
<1> SUFFICES ASSUME Init PROVE IInv
  OBVIOUS
<1>1. Shape
  BY LoadingAssumption DEF Init, Shape, AnySite, AnyView, AnyEntry, AnyTask, InitialView, Sites
<1>2. OneEntryEach(history) /\ HistoryFits /\ ViewFits /\ TasksFit /\ FloorsReached
  BY <1>1 DEF Init, OneEntryEach, HistoryFits, ViewFits, TasksFit, FloorsReached, InitialView,
     Shown, Shape, AnySite
<1> QED BY <1>1, <1>2 DEF IInv

\* A new load of path p, at page, is all there is of the new generation.
LEMMA NewTask ==
  ASSUME IInv, NEW step \in {"get", "list", "restore"}, NEW p \in Paths, NEW page \in Nat,
         NEW loads, \A t \in loads : t \in AnyTask /\ t.generation <= generation,
         NEW g \in Nat, g > generation,
         generation' = g, pending' = loads \cup {Task(step, p, page, g)},
         session' = session, ~stray' => pathname' = p
  PROVE  pending' \subseteq AnyTask /\ TasksFit'
<1> DEFINE n == Task(step, p, page, g)
<1>1. n \in AnyTask /\ pending' = loads \cup {n}
  BY DEF Task, Waiting, AnyTask, AnyAnswer, IInv, Shape
<1>2. n.generation = g /\ n.session = session /\ n.path = p /\ n.answer.code = "waiting"
  BY DEF Task, Waiting
<1> HIDE DEF n
<1>3. \A t \in loads : t.generation < g /\ t.generation \in Nat
  BY DEF AnyTask, IInv, Shape
<1>4. TasksFit'
  <2> SUFFICES ASSUME NEW t \in pending' PROVE TaskFits(t)'
    BY DEF TasksFit
  <2>1. CASE t \in loads
    BY <1>3, <2>1 DEF TaskFits
  <2>2. CASE t = n
    BY <1>2, <2>2 DEF TaskFits
  <2> QED BY <1>1, <2>1, <2>2
<1> QED BY <1>1, <1>4

LEMMA LoadFolderFits ==
  ASSUME IInv, NEW p \in Paths, NEW page \in Nat, NEW g \in Nat, g > generation,
         NEW loads, \A t \in loads : t \in AnyTask /\ t.generation <= generation,
         LoadFolder(p, page, g, loads), session' = session, ~stray' => pathname' = p
  PROVE  view' \in AnyView /\ generation' \in Nat /\ pending' \subseteq AnyTask
         /\ ViewFits' /\ TasksFit'
<1>1. view' \in AnyView /\ view'.state = "Loading" /\ generation' = g
  BY DEF LoadFolder, AnyView, IInv, Shape
<1>2. pending' \subseteq AnyTask /\ TasksFit'
  BY NewTask DEF LoadFolder
<1> QED BY <1>1, <1>2 DEF ViewFits, Shown

\* What is cancelled keeps its generation.
LEMMA CancelFits ==
  ASSUME IInv
  PROVE  \A t \in Cancel(pending) : t \in AnyTask /\ t.generation <= generation
<1> TAKE t \in Cancel(pending)
<1>1. PICK u \in pending : t = u \/ t = [u EXCEPT !.answer = [code |-> "cancelled"]]
  BY DEF Cancel
<1>2. u \in AnyTask /\ u.generation <= generation
  BY DEF IInv, Shape, TasksFit, TaskFits
<1>3. [code |-> "cancelled"] \in AnyAnswer
  BY DEF AnyAnswer
<1> QED BY <1>1, <1>2, <1>3 DEF AnyTask

LEMMA LoadPathFits ==
  ASSUME IInv, NEW p \in Paths, NEW page \in Nat, NEW h, LoadPath(p, page, h),
         session' = session, ~stray' => pathname' = p
  PROVE  /\ view' \in AnyView /\ generation' \in Nat /\ pending' \subseteq AnyTask
         /\ ViewFits' /\ TasksFit' /\ history' = h
<1> DEFINE loads == Cancel(pending)
           g     == generation + 1
<1>1. \A t \in loads : t \in AnyTask /\ t.generation <= generation
  BY CancelFits
<1>2. g \in Nat /\ g > generation /\ g + 1 \in Nat /\ g + 1 > generation
  BY DEF IInv, Shape
<1>3. history' = h
  BY DEF LoadPath
<1>4. \/ RecoverHistory(p, g, loads) \/ LoadFolder(p, page, g + 1, loads) \/ LoadFile(p, g, loads)
  BY DEF LoadPath
<1> HIDE DEF loads, g
<1>5. CASE LoadFolder(p, page, g + 1, loads)
  BY <1>1, <1>2, <1>3, <1>5, LoadFolderFits
<1>6. CASE LoadFile(p, g, loads)
  <2>1. view' \in AnyView /\ view'.state = "Loading" /\ generation' = g
    BY <1>6 DEF LoadFile, AnyView, IInv, Shape
  <2>2. pending' \subseteq AnyTask /\ TasksFit'
    BY <1>1, <1>2, <1>6, NewTask DEF LoadFile
  <2> QED BY <1>2, <1>3, <2>1, <2>2 DEF ViewFits, Shown
<1>7. CASE RecoverHistory(p, g, loads)
  <2>1. view' \in AnyView /\ view'.state = "Initial" /\ generation' = g
    BY <1>7 DEF RecoverHistory, AnyView, IInv, Shape
  <2>2. pending' \subseteq AnyTask /\ TasksFit'
    BY <1>1, <1>2, <1>7, NewTask DEF RecoverHistory
  <2> QED BY <1>2, <1>3, <2>1, <2>2 DEF ViewFits, Shown
<1> QED BY <1>4, <1>5, <1>6, <1>7

\* What is on the page, if it is recorded, fits the path in the address bar.
LEMMA RecordFits ==
  ASSUME IInv, pathname \in Paths, NEW h \in Seq(AnyEntry), OneEntryEach(h),
         \A i \in DOMAIN h : EntryFits(h[i])
  PROVE  /\ Record(h, pathname) \in Seq(AnyEntry) /\ OneEntryEach(Record(h, pathname))
         /\ \A i \in DOMAIN Record(h, pathname) :
              /\ EntryFits(Record(h, pathname)[i])
              /\ \/ Record(h, pathname)[i].path = pathname
                 \/ \E j \in DOMAIN h : Record(h, pathname)[i] = h[j]
<1>1. CASE ~Recordable(view)
  BY <1>1 DEF Record
<1>2. CASE Recordable(view)
  <2> DEFINE e == [path |-> pathname, view |-> view]
  <2>1. Record(h, pathname) = Put(h, pathname, view)
    BY <1>2 DEF Record
  <2>2. EntryFits(e) /\ e.path = pathname
    BY <1>2 DEF Recordable, EntryFits, IInv, ViewFits
  <2>3. /\ Put(h, pathname, view) \in Seq(AnyEntry) /\ OneEntryEach(Put(h, pathname, view))
        /\ \A i \in DOMAIN Put(h, pathname, view) :
             \/ Put(h, pathname, view)[i] = e
             \/ \E j \in DOMAIN h : Put(h, pathname, view)[i] = h[j] /\ h[j].path # pathname
    BY PutKeeps DEF IInv, Shape
  <2> HIDE DEF e
  <2> QED BY <2>1, <2>2, <2>3
<1> QED BY <1>1, <1>2

-----------------------------------------------------------------------------
(***************************************************************************)
(* Steps.                                                                  *)
(***************************************************************************)

\* A history of entries that fit, none of the path whose floor is raised.
LEMMA HistoryAfter ==
  ASSUME IInv, session' = session, stray => stray', history' \in Seq(AnyEntry), NEW p,
         \A q \in Paths \ {p} : floor'[q] = floor[q],
         \A i \in DOMAIN history' :
           /\ history'[i].path # p \/ floor' = floor
           /\ EntryFits(history'[i])
  PROVE  HistoryFits'
<1> SUFFICES ASSUME NEW i \in DOMAIN history' PROVE EntryFits(history[i])'
  BY DEF HistoryFits
<1> DEFINE e == history'[i]
<1>1. e \in AnyEntry
  OBVIOUS
<1>2. e.path \in Paths /\ EntryFits(e) /\ (e.path # p \/ floor' = floor)
  BY <1>1 DEF AnyEntry
<1> HIDE DEF e
<1>3. Shown(e.view) /\ e.view.session = session'
  BY <1>2 DEF EntryFits
<1>4. ~stray' => e.view.path = e.path /\ e.view.version >= floor'[e.path]
  BY <1>2 DEF EntryFits
<1> QED BY <1>3, <1>4 DEF EntryFits, e

\* A session that begins or ends: nothing is left, and nothing is wanted.
LEMMA ResetFits ==
  ASSUME IInv, Reset, pending' \subseteq pending, UNCHANGED <<server, floor, closed, stray>>,
         session' \in Nat, issued' \in Nat, pathname' \in Sites, mounted' => pathname' \in Paths
  PROVE  IInv'
<1>1. generation' = generation + 1 /\ history' = <<>> /\ view' = InitialView
  BY DEF Reset
<1>2. Shape'
  BY <1>1 DEF IInv, Shape, AnyView, InitialView, Sites
<1>3. OneEntryEach(history)' /\ HistoryFits' /\ ViewFits' /\ FloorsReached'
  BY <1>1 DEF OneEntryEach, HistoryFits, ViewFits, InitialView, Shown, IInv, FloorsReached
<1>4. TasksFit'
  <2> SUFFICES ASSUME NEW t \in pending' PROVE TaskFits(t)'
    BY DEF TasksFit
  <2>1. t.generation <= generation /\ t.generation \in Nat /\ generation \in Nat
    BY DEF IInv, Shape, TasksFit, TaskFits, AnyTask
  <2> QED BY <1>1, <2>1 DEF TaskFits
<1> QED BY <1>2, <1>3, <1>4 DEF IInv

\* A step that starts no load, shows nothing and asks for nothing.
LEMMA SteadyFits ==
  ASSUME IInv, pending' \subseteq pending,
         UNCHANGED <<server, floor, session, issued, pathname, mounted, generation, history,
                     view, stray>>,
         closed' \subseteq Paths
  PROVE  IInv'
<1>1. Shape'
  BY DEF IInv, Shape
<1>2. OneEntryEach(history)' /\ HistoryFits' /\ ViewFits' /\ FloorsReached'
  BY DEF IInv, OneEntryEach, HistoryFits, EntryFits, ViewFits, FloorsReached
<1>3. TasksFit'
  BY DEF IInv, TasksFit, TaskFits
<1> QED BY <1>1, <1>2, <1>3 DEF IInv

\* A step that loads a page of the directory shown.
LEMMA PageFits ==
  ASSUME IInv, NEW p \in Paths, ~stray => p = pathname, NEW page \in Nat,
         NEW loads, loads \subseteq pending, LoadFolder(p, page, generation + 1, loads),
         UNCHANGED <<uploads, net, session, mounted, pathname, history, floor>>
  PROVE  IInv'
<1>1. \A t \in loads : t \in AnyTask /\ t.generation <= generation
  BY DEF IInv, Shape, TasksFit, TaskFits
<1>2. generation + 1 \in Nat /\ generation + 1 > generation
  BY DEF IInv, Shape
<1>3. /\ view' \in AnyView /\ generation' \in Nat /\ pending' \subseteq AnyTask
      /\ ViewFits' /\ TasksFit'
  BY <1>1, <1>2, LoadFolderFits DEF uploads
<1>4. Shape'
  BY <1>3 DEF IInv, Shape, uploads, net
<1>5. OneEntryEach(history)' /\ HistoryFits' /\ FloorsReached'
  BY DEF IInv, OneEntryEach, HistoryFits, EntryFits, FloorsReached, uploads, net
<1> QED BY <1>3, <1>4, <1>5 DEF IInv

\* A step that loads a path, with the history as it has left it.
LEMMA LoadFits ==
  ASSUME IInv, NEW p \in Paths, NEW page \in Nat, NEW h \in Seq(AnyEntry), LoadPath(p, page, h),
         OneEntryEach(h), ~stray' => pathname' = p, stray => stray',
         UNCHANGED <<net, session, closed>>, pathname' \in Sites, mounted' => pathname' \in Paths,
         AskAfresh(p) \/ floor' = floor,
         \A i \in DOMAIN h : EntryFits(h[i]) /\ (h[i].path # p \/ floor' = floor)
  PROVE  IInv'
<1>1. /\ view' \in AnyView /\ generation' \in Nat /\ pending' \subseteq AnyTask
      /\ ViewFits' /\ TasksFit' /\ history' = h
  BY LoadPathFits
<1>2. /\ floor' \in [Paths -> Nat] /\ \A q \in Paths \ {p} : floor'[q] = floor[q]
      /\ floor'[p] = server[p].version \/ floor' = floor
  BY DEF AskAfresh, IInv, Shape, AnySite
<1>3. Shape'
  BY <1>1, <1>2 DEF IInv, Shape, net
<1>4. HistoryFits'
  BY <1>1, <1>2, HistoryAfter
<1>5. FloorsReached'
  BY <1>2 DEF IInv, Shape, FloorsReached, net, AnySite
<1>6. OneEntryEach(history)'
  BY <1>1 DEF OneEntryEach
<1> QED BY <1>1, <1>3, <1>4, <1>5, <1>6 DEF IInv

\* The history fits, and what is left of it does.
LEMMA LeftFits ==
  ASSUME IInv, NEW p
  PROVE  /\ Without(history, p) \in Seq(AnyEntry) /\ OneEntryEach(Without(history, p))
         /\ \A i \in DOMAIN Without(history, p) :
              EntryFits(Without(history, p)[i]) /\ Without(history, p)[i].path # p
<1>1. history \in Seq(AnyEntry) /\ OneEntryEach(history) /\ \A i \in DOMAIN history : EntryFits(history[i])
  BY DEF IInv, Shape, HistoryFits
<1> QED BY <1>1, WithoutKeeps

LEMMA FollowLinkFits == ASSUME IInv, NEW p \in Paths, FollowLink(p) PROVE IInv'
<1> DEFINE c == Without(history, p)
           h == Record(c, pathname)
<1>1. c \in Seq(AnyEntry) /\ OneEntryEach(c) /\ \A i \in DOMAIN c : EntryFits(c[i]) /\ c[i].path # p
  BY LeftFits
<1>2. pathname \in Paths /\ p # pathname
  BY DEF FollowLink, IInv, Shape
<1>3. LoadPath(p, 1, h) /\ pathname' = p /\ AskAfresh(p)
  BY DEF FollowLink, Visit
<1>4. UNCHANGED <<closed, stray, net, session, mounted>>
  BY DEF FollowLink, uploads
<1> HIDE DEF c
<1>5. /\ h \in Seq(AnyEntry) /\ OneEntryEach(h)
      /\ \A i \in DOMAIN h : EntryFits(h[i]) /\ (h[i].path = pathname \/ \E j \in DOMAIN c : h[i] = c[j])
  BY <1>1, <1>2, RecordFits
<1> HIDE DEF h
<1>6. \A i \in DOMAIN h : h[i].path # p
  BY <1>1, <1>2, <1>5
<1>7. p \in Sites
  BY DEF Sites
<1>8. stray' = stray
  BY <1>4
<1> QED BY <1>2, <1>3, <1>4, <1>5, <1>6, <1>7, <1>8, LoadFits

LEMMA TraverseFits == ASSUME IInv, NEW p \in Paths, Traverse(p) PROVE IInv'
<1> DEFINE h == Record(history, pathname)
<1>1. history \in Seq(AnyEntry) /\ OneEntryEach(history) /\ \A i \in DOMAIN history : EntryFits(history[i])
  BY DEF IInv, Shape, HistoryFits
<1>2. pathname \in Paths
  BY DEF Traverse, IInv, Shape
<1>3. LoadPath(p, 1, h) /\ pathname' = p /\ floor' = floor
  BY DEF Traverse, Visit
<1>4. UNCHANGED <<closed, stray, net, session, mounted>>
  BY DEF Traverse, uploads
<1>5. h \in Seq(AnyEntry) /\ OneEntryEach(h) /\ \A i \in DOMAIN h : EntryFits(h[i])
  BY <1>1, <1>2, RecordFits
<1> HIDE DEF h
<1>6. p \in Sites
  BY DEF Sites
<1> QED BY <1>3, <1>4, <1>5, <1>6, LoadFits

\* A directory refreshed in the address bar's place, or while it is not there.
LEMMA RefreshFits ==
  ASSUME IInv, NEW p \in Paths, RefreshPath(p), stray => stray', ~stray' => p = pathname
  PROVE  IInv'
<1> DEFINE h == Without(history, p)
<1>1. h \in Seq(AnyEntry) /\ OneEntryEach(h) /\ \A i \in DOMAIN h : EntryFits(h[i]) /\ h[i].path # p
  BY LeftFits
<1>2. LoadPath(p, view.page, h) /\ AskAfresh(p) /\ UNCHANGED <<net, session, mounted, pathname, closed>>
  BY DEF RefreshPath
<1>3. view.page \in Nat /\ pathname' \in Sites /\ (mounted' => pathname' \in Paths)
  BY <1>2 DEF IInv, Shape, AnyView
<1> HIDE DEF h
<1> QED BY <1>1, <1>2, <1>3, LoadFits

LEMMA MountFits == ASSUME IInv, Mount PROVE IInv'
<1>1. history \in Seq(AnyEntry) /\ OneEntryEach(history) /\ \A i \in DOMAIN history : EntryFits(history[i])
  BY DEF IInv, Shape, HistoryFits
<1>2. pathname \in Paths /\ pathname \in Sites
  BY DEF Mount, IInv, Shape, Sites
<1>3. /\ LoadPath(pathname, 1, history) /\ pathname' = pathname /\ floor' = floor
      /\ UNCHANGED <<closed, stray, net, session>>
  BY DEF Mount, Visit, uploads
<1> QED BY <1>1, <1>2, <1>3, LoadFits

LEMMA LinkToHereFits == ASSUME IInv, LinkToHere PROVE IInv'
<1>1. /\ history' = Without(history, pathname)
      /\ UNCHANGED <<closed, stray, server, issued, session, mounted, pathname, generation, view,
                     pending, floor>>
  BY DEF LinkToHere, uploads, net
<1>2. /\ history' \in Seq(AnyEntry) /\ OneEntryEach(history')
      /\ \A i \in DOMAIN history' : EntryFits(history'[i])
  BY <1>1, LeftFits
<1>3. Shape'
  BY <1>1, <1>2 DEF IInv, Shape
<1>4. HistoryFits'
  BY <1>1, <1>2, HistoryAfter
<1>5. OneEntryEach(history)'
  BY <1>2 DEF OneEntryEach
<1>6. ViewFits' /\ TasksFit' /\ FloorsReached'
  BY <1>1 DEF IInv, ViewFits, TasksFit, TaskFits, FloorsReached
<1> QED BY <1>3, <1>4, <1>5, <1>6 DEF IInv

\* An answer has what is on the server, which nobody has asked to be newer.
LEMMA AnswerFits == ASSUME IInv, NEW t \in pending, Answer(t) PROVE IInv'
<1> DEFINE r == Reply(t)
           u == [t EXCEPT !.answer = r]
<1>1. /\ pending' = (pending \ {t}) \cup {u}
      /\ UNCHANGED <<closed, stray, server, issued, session, mounted, pathname, generation, view,
                     history, floor>>
  BY DEF Answer, uploads, net
<1>2. t \in AnyTask /\ TaskFits(t) /\ t.path \in Paths
  BY DEF IInv, Shape, TasksFit, AnyTask
<1>3. r \in AnyAnswer /\ (r.code = "ok" => r.version = server[t.path].version)
  <2>1. server[t.path] \in AnySite
    BY <1>2 DEF IInv, Shape
  <2>2. CASE t.session \notin live
    BY <2>2 DEF Reply, AnyAnswer
  <2>3. CASE t.session \in live /\ ~(server[t.path].kind = "dir" \/ (server[t.path].kind = "file" /\ t.step = "get"))
    BY <2>3 DEF Reply, AnyAnswer
  <2>4. CASE t.session \in live /\ (server[t.path].kind = "dir" \/ (server[t.path].kind = "file" /\ t.step = "get"))
    BY <1>2, <2>1, <2>4 DEF Reply, AnyAnswer, AnySite
  <2> QED BY <2>2, <2>3, <2>4
<1> HIDE DEF r
<1>4. u \in AnyTask /\ u.answer = r /\ u.path = t.path /\ u.generation = t.generation /\ u.session = t.session
  BY <1>2, <1>3 DEF AnyTask
<1>5. floor[t.path] <= server[t.path].version
  BY <1>2 DEF IInv, FloorsReached
<1> HIDE DEF u
<1>6. TasksFit'
  <2> SUFFICES ASSUME NEW v \in pending' PROVE TaskFits(v)'
    BY DEF TasksFit
  <2>1. CASE v = u
    BY <1>1, <1>2, <1>3, <1>4, <1>5, <2>1 DEF TaskFits
  <2>2. CASE v \in pending
    BY <1>1, <2>2 DEF IInv, TasksFit, TaskFits
  <2> QED BY <1>1, <2>1, <2>2
<1>7. Shape'
  BY <1>1, <1>4 DEF IInv, Shape
<1>8. OneEntryEach(history)' /\ HistoryFits' /\ ViewFits' /\ FloorsReached'
  BY <1>1 DEF IInv, OneEntryEach, HistoryFits, EntryFits, ViewFits, FloorsReached
<1> QED BY <1>6, <1>7, <1>8 DEF IInv

LEMMA ChangeFits == ASSUME IInv, NEW p \in Paths, Change(p) PROVE IInv'
<1>1. PICK s \in Shapes : server' = [server EXCEPT ![p] = [kind |-> s.kind, pages |-> s.pages,
                                                           version |-> @.version + 1]]
  BY DEF Change
<1>2. UNCHANGED <<closed, stray, issued, session, mounted, pathname, generation, view, history,
                  floor, pending>>
  BY DEF Change, uploads
<1>3. s.kind \in {"dir", "file", "none"} /\ s.pages \in Nat
  BY LoadingAssumption DEF Shapes
<1>4. server \in [Paths -> AnySite] /\ server[p].version \in Nat
  BY DEF IInv, Shape, AnySite
<1>5. server' \in [Paths -> AnySite]
  BY <1>1, <1>3, <1>4 DEF AnySite
<1>6. FloorsReached'
  <2> SUFFICES ASSUME NEW q \in Paths PROVE floor[q] <= server'[q].version
    BY <1>2 DEF FloorsReached
  <2>1. floor[q] <= server[q].version /\ floor[q] \in Nat /\ server[q].version \in Nat
    BY <1>4 DEF IInv, Shape, FloorsReached, AnySite
  <2>2. server'[q].version = server[q].version \/ server'[q].version = server[q].version + 1
    BY <1>1, <1>4
  <2> QED BY <2>1, <2>2
<1>7. Shape'
  BY <1>2, <1>5 DEF IInv, Shape
<1>8. OneEntryEach(history)' /\ HistoryFits' /\ ViewFits' /\ TasksFit'
  BY <1>2 DEF IInv, OneEntryEach, HistoryFits, EntryFits, ViewFits, TasksFit, TaskFits
<1> QED BY <1>6, <1>7, <1>8 DEF IInv

\* What a wanted answer puts on the page is of the path and new enough.
LEMMA ShowsFits ==
  ASSUME IInv, NEW t \in pending, Current(t), t.answer.code = "ok",
         NEW state \in {"Folder", "File"}, NEW page \in Nat, view' = Contents(t, state, page),
         pending' = Done(t),
         UNCHANGED <<closed, stray, server, issued, session, mounted, pathname, generation,
                     history, floor>>
  PROVE  IInv'
<1>1. t \in AnyTask /\ TaskFits(t) /\ t.path \in Paths /\ t.answer \in AnyAnswer /\ t.session \in Nat
  BY DEF IInv, Shape, TasksFit, AnyTask
<1>2. t.answer.version \in Nat
  BY <1>1 DEF AnyAnswer
<1>3. view' \in AnyView
  BY <1>1, <1>2 DEF Contents, AnyView, Sites
<1>4. ViewFits'
  BY <1>1 DEF ViewFits, TaskFits, Current, Contents
<1>5. Shape'
  BY <1>3 DEF IInv, Shape, Done
<1>6. OneEntryEach(history)' /\ HistoryFits' /\ TasksFit' /\ FloorsReached'
  BY DEF IInv, OneEntryEach, HistoryFits, EntryFits, TasksFit, TaskFits, FloorsReached, Done
<1> QED BY <1>4, <1>5, <1>6 DEF IInv

LEMMA RestoredFits == ASSUME IInv, NEW t \in pending, Restored(t) PROVE IInv'
<1>1. /\ pending' \subseteq pending
      /\ UNCHANGED <<closed, stray, server, issued, session, mounted, pathname, generation, floor>>
  BY DEF Restored, Done, uploads, net
<1>2. CASE ~(Current(t) /\ HasHistory(history, t.path))
  <2>1. UNCHANGED <<history, view>>
    BY <1>2 DEF Restored
  <2>2. closed' \subseteq Paths
    BY <1>1 DEF IInv, Shape
  <2> QED BY <1>1, <2>1, <2>2, SteadyFits
<1>3. CASE Current(t) /\ HasHistory(history, t.path)
  <2> DEFINE e == EntryOf(history, t.path)
             v == e.view
  <2>1. history' = Put(history, t.path, v) /\ view' = v
    BY <1>3 DEF Restored
  <2>2. IndexOf(history, t.path) \in DOMAIN history /\ e.path = t.path
    BY <1>3 DEF HasHistory, IndexOf, EntryOf
  <2>3. e \in AnyEntry /\ EntryFits(e)
    BY <2>2 DEF EntryOf, IInv, Shape, HistoryFits
  <2>4. t.path \in Paths /\ (~stray => t.path = pathname)
    BY <1>3 DEF IInv, Shape, TasksFit, TaskFits, Current, AnyTask
  <2> HIDE DEF e
  <2>5. v \in AnyView /\ [path |-> t.path, view |-> v] = e
    BY <2>2, <2>3 DEF AnyEntry
  <2>6. /\ history' \in Seq(AnyEntry) /\ OneEntryEach(history')
        /\ \A i \in DOMAIN history' : history'[i] = e \/ \E j \in DOMAIN history : history'[i] = history[j]
    <3>1. history \in Seq(AnyEntry) /\ OneEntryEach(history)
      BY DEF IInv, Shape
    <3> HIDE DEF v
    <3>2. \A i \in DOMAIN Put(history, t.path, v) :
            \/ Put(history, t.path, v)[i] = [path |-> t.path, view |-> v]
            \/ \E j \in DOMAIN history : Put(history, t.path, v)[i] = history[j]
      BY <2>4, <2>5, <3>1, PutKeeps
    <3>3. Put(history, t.path, v) \in Seq(AnyEntry) /\ OneEntryEach(Put(history, t.path, v))
      BY <2>4, <2>5, <3>1, PutKeeps
    <3> QED BY <2>1, <2>5, <3>2, <3>3
  <2>7. \A i \in DOMAIN history' : EntryFits(history'[i])
    BY <2>3, <2>6 DEF IInv, HistoryFits
  <2>8. HistoryFits'
    BY <1>1, <2>6, <2>7, HistoryAfter
  <2>9. ViewFits'
    BY <1>1, <2>1, <2>2, <2>3, <2>4 DEF ViewFits, EntryFits
  <2>10. Shape'
    BY <1>1, <2>1, <2>5, <2>6 DEF IInv, Shape
  <2>11. TasksFit' /\ FloorsReached'
    BY <1>1 DEF IInv, TasksFit, TaskFits, FloorsReached
  <2>12. OneEntryEach(history)'
    BY <2>6 DEF OneEntryEach
  <2> QED BY <2>8, <2>9, <2>10, <2>11, <2>12 DEF IInv
<1> QED BY <1>2, <1>3

-----------------------------------------------------------------------------
(***************************************************************************)
(* The invariant, and what it is for.                                      *)
(***************************************************************************)
LEMMA UserInv == ASSUME IInv, User PROVE IInv'
<1>1. ASSUME NEW p \in Paths, FollowLink(p) PROVE IInv'
  BY <1>1, FollowLinkFits
<1>2. ASSUME NEW p \in Paths, Traverse(p) PROVE IInv'
  BY <1>2, TraverseFits
<1>3. ASSUME NEW p \in Paths, Hover(p) PROVE IInv'
  <2>1. /\ UNCHANGED <<closed, stray, server, issued, session, mounted, pathname, generation,
                       history, view, pending, floor>>
        /\ pending' \subseteq pending
    BY <1>3 DEF Hover, uploads, net
  <2>2. closed' \subseteq Paths
    BY <2>1 DEF IInv, Shape
  <2> QED BY <2>1, <2>2, SteadyFits
<1>4. ASSUME NEW p \in Paths, SignIn(p) PROVE IInv'
  <2>1. issued + 1 \in Nat /\ p \in Sites
    BY DEF IInv, Shape, Sites
  <2>2. /\ Reset /\ issued' = issued + 1 /\ session' = issued + 1 /\ pathname' = p
        /\ UNCHANGED <<closed, stray, server, mounted, pending, floor>>
    BY <1>4 DEF SignIn, uploads
  <2> QED BY <2>1, <2>2, ResetFits
<1>5. ASSUME NEW p \in Paths, LateRefresh(p) PROVE IInv'
  BY <1>5, RefreshFits DEF LateRefresh
<1>6. CASE LinkToHere
  BY <1>6, LinkToHereFits
<1>7. CASE Refresh
  <2>1. pathname \in Paths /\ RefreshPath(pathname) /\ stray' = stray
    BY <1>7 DEF Refresh, IInv, Shape
  <2> QED BY <2>1, RefreshFits
<1>8. CASE CloseDialog
  <2>1. /\ UNCHANGED <<stray, server, issued, session, mounted, pathname, generation, history,
                       view, pending, floor>>
        /\ closed' = closed \cup {pathname} /\ pending' \subseteq pending
    BY <1>8 DEF CloseDialog, net
  <2>2. closed' \subseteq Paths
    BY <1>8, <2>1 DEF CloseDialog, IInv, Shape
  <2> QED BY <2>1, <2>2, SteadyFits
<1>9. CASE SignOut
  <2>1. /\ Reset /\ session' = 0 /\ pathname' = Login /\ mounted' = FALSE
        /\ UNCHANGED <<closed, stray, server, issued, pending, floor>>
    BY <1>9 DEF SignOut, ToLogin, uploads
  <2>2. issued' \in Nat /\ pathname' \in Sites
    BY <2>1 DEF IInv, Shape, Sites
  <2> QED BY <2>1, <2>2, ResetFits
<1>10. ASSUME NEW page \in 1 .. MaxPages, GoPage(page) PROVE IInv'
  <2>1. pathname \in Paths /\ page \in Nat
    BY <1>10, LoadingAssumption DEF GoPage, IInv, Shape
  <2> QED BY <1>10, <2>1, PageFits DEF GoPage
<1> QED
  BY <1>1, <1>2, <1>3, <1>4, <1>5, <1>6, <1>7, <1>8, <1>9, <1>10 DEF User

LEMMA ContinueInv == ASSUME IInv, NEW t \in pending, Continue(t) PROVE IInv'
<1>1. t \in AnyTask /\ TaskFits(t) /\ t.path \in Paths /\ t.page \in Nat /\ t.answer \in AnyAnswer
  BY DEF IInv, Shape, TasksFit, AnyTask
<1>2. CASE Expired(t)
  <2>1. /\ Reset /\ session' = 0 /\ pathname' = Login /\ mounted' = FALSE
        /\ pending' \subseteq pending /\ UNCHANGED <<closed, stray, server, issued, floor>>
    BY <1>2 DEF Expired, ToLogin, Done, uploads, net
  <2>2. issued' \in Nat /\ pathname' \in Sites
    BY <2>1 DEF IInv, Shape, Sites
  <2> QED BY <2>1, <2>2, ResetFits
<1>3. CASE Superseded(t) \/ Failed(t)
  <2>1. /\ pending' \subseteq pending
        /\ UNCHANGED <<closed, stray, server, issued, session, mounted, pathname, generation,
                       history, view, floor>>
    BY <1>3 DEF Superseded, Failed, Done, uploads, net
  <2>2. closed' \subseteq Paths
    BY <2>1 DEF IInv, Shape
  <2> QED BY <2>1, <2>2, SteadyFits
<1>4. CASE GotFile(t)
  <2>1. view.page \in Nat
    BY DEF IInv, Shape, AnyView
  <2>2. /\ Current(t) /\ t.answer.code = "ok" /\ view' = Contents(t, "File", view.page)
        /\ pending' = Done(t)
        /\ UNCHANGED <<closed, stray, server, issued, session, mounted, pathname, generation,
                       history, floor>>
    BY <1>4 DEF GotFile, uploads, net
  <2> QED BY <2>1, <2>2, ShowsFits
<1>5. CASE GotDirectory(t)
  <2>1. /\ Current(t) /\ LoadFolder(t.path, 1, generation + 1, Done(t))
        /\ UNCHANGED <<uploads, net, session, mounted, pathname, history, floor>>
    BY <1>5 DEF GotDirectory
  <2>2. (~stray => t.path = pathname) /\ Done(t) \subseteq pending
    BY <1>1, <2>1 DEF TaskFits, Current, Done
  <2> QED BY <1>1, <2>1, <2>2, PageFits
<1>6. CASE PastTheEnd(t)
  <2>1. /\ Current(t) /\ LoadFolder(t.path, t.answer.pages, generation + 1, Done(t))
        /\ UNCHANGED <<uploads, net, session, mounted, pathname, history, floor>>
        /\ t.answer.code = "ok"
    BY <1>6 DEF PastTheEnd
  <2>2. (~stray => t.path = pathname) /\ Done(t) \subseteq pending
    BY <1>1, <2>1 DEF TaskFits, Current, Done
  <2>3. t.answer.pages \in Nat
    BY <1>1, <2>1 DEF AnyAnswer
  <2> QED BY <1>1, <2>1, <2>2, <2>3, PageFits
<1>7. CASE Listed(t)
  <2>1. /\ Current(t) /\ t.answer.code = "ok" /\ view' = Contents(t, "Folder", t.page)
        /\ pending' = Done(t)
        /\ UNCHANGED <<closed, stray, server, issued, session, mounted, pathname, generation,
                       history, floor>>
    BY <1>7 DEF Listed, uploads, net
  <2> QED BY <1>1, <2>1, ShowsFits
<1>8. CASE Restored(t)
  BY <1>8, RestoredFits
<1> QED BY <1>2, <1>3, <1>4, <1>5, <1>6, <1>7, <1>8 DEF Continue

LEMMA NextInv == IInv /\ [Next]_vars => IInv'
<1> SUFFICES ASSUME IInv, [Next]_vars PROVE IInv'
  OBVIOUS
<1>1. CASE User
  BY <1>1, UserInv
<1>2. CASE Mount
  BY <1>2, MountFits
<1>3. CASE MountRefused
  <2>1. /\ Reset /\ session' = 0 /\ pathname' = Login /\ mounted' = FALSE
        /\ pending' \subseteq pending /\ UNCHANGED <<closed, stray, server, issued, floor>>
    BY <1>3 DEF MountRefused, ToLogin, uploads, net
  <2>2. issued' \in Nat /\ pathname' \in Sites
    BY <2>1 DEF IInv, Shape, Sites
  <2> QED BY <2>1, <2>2, ResetFits
<1>4. CASE Revoke \/ UNCHANGED vars
  <2>1. /\ pending' \subseteq pending
        /\ UNCHANGED <<closed, stray, server, issued, session, mounted, pathname, generation,
                       history, view, floor>>
    BY <1>4 DEF Revoke, vars, uploads
  <2>2. closed' \subseteq Paths
    BY <2>1 DEF IInv, Shape
  <2> QED BY <2>1, <2>2, SteadyFits
<1>5. ASSUME NEW p \in Paths, Change(p) PROVE IInv'
  BY <1>5, ChangeFits
<1>6. ASSUME NEW t \in pending, Answer(t) PROVE IInv'
  BY <1>6, AnswerFits
<1>7. ASSUME NEW t \in pending, Continue(t) PROVE IInv'
  BY <1>7, ContinueInv
<1> QED BY <1>1, <1>2, <1>3, <1>4, <1>5, <1>6, <1>7 DEF Next

THEOREM Invariant == Spec => []IInv
<1> QED BY InitInv, NextInv, PTL DEF Spec

(***************************************************************************)
(* Nothing that was loaded with one session's token is shown, or kept for  *)
(* the back button, in another: every load under way when a session ends   *)
(* has an older generation than resetSessionState leaves.                  *)
(***************************************************************************)
THEOREM NothingOfOtherSessions == Spec => []NothingOfOthers
<1>1. IInv => NothingOfOthers
  BY DEF IInv, NothingOfOthers, ViewFits, HistoryFits, EntryFits
<1> QED BY <1>1, Invariant, PTL

(***************************************************************************)
(* What is shown is of the path in the address bar, and each entry of the  *)
(* history of its own, unless an upload dialog that was closed in another  *)
(* directory has refreshed that directory.                                 *)
(***************************************************************************)
THEOREM ShownIsOfTheAddress == Spec => []ShownIsCurrentButForStrays
<1>1. IInv => ShownIsCurrentButForStrays
  BY DEF IInv, ShownIsCurrentButForStrays, ShownIsCurrent, ViewFits, HistoryFits, EntryFits
<1> QED BY <1>1, Invariant, PTL

(***************************************************************************)
(* After a refresh of a path or a link to it, nothing older than it was    *)
(* then is shown or kept for it: the answers to what was asked before are  *)
(* of an older generation, and its history entry is gone.                  *)
(***************************************************************************)
THEOREM NothingOlderShown == Spec => []NothingOlder
<1>1. IInv => NothingOlder
  BY DEF IInv, NothingOlder, ViewFits, HistoryFits, EntryFits
<1> QED BY <1>1, Invariant, PTL

=============================================================================
