----------------------------- MODULE DialogsProof ---------------------------
(***************************************************************************)
(* What the dialogs of the browser promise, and the listing they act on.   *)
(*                                                                         *)
(* FolderView: what they act on, for any directories, names and bounds.    *)
(* The selection may come from the listing, from a range, from a row's     *)
(* menu or from the history, and the filter that hides rows changes at     *)
(* other times; a dialog reads the selection long after it was opened.     *)
(* The rows themselves are a page of a listing in the order indicated,     *)
(* whichever of the loads, the history and the menus set that order.       *)
(*                                                                         *)
(* FolderTree: the destination that is shown and the directories that are  *)
(* listed, for any directories and any number of listings and requests     *)
(* under way.                                                              *)
(***************************************************************************)
EXTENDS FolderView, FolderTree, SequenceTheorems, FiniteSetTheorems, TLAPS

ViewFields == {"state", "rows", "sel", "page", "pages", "rev", "of"}

\* The shape of the state, as far as the steps depend on it.
Shape ==
  /\ pathname \in Dirs /\ filter \subseteq Names
  /\ DOMAIN view = ViewFields
  /\ DOMAIN history = Dirs
  /\ DOMAIN dialog = {"kind", "dir", "names", "left"}

\* An entry was recorded without a filter, or without a selection.
EntryInSight(v) ==
  /\ DOMAIN v = ViewFields
  /\ v.sel \subseteq {i \in DOMAIN v.rows : v.rows[i] \in Everything}

HistoryInSight == \A d \in Dirs : history[d] # NoEntry => EntryInSight(history[d])

\* While the history is being restored no filter is set and no row shown, and
\* its entry stays.
Restoring ==
  load.step = "restore" =>
    view.state = "Initial" /\ filter = Everything /\ history[pathname] # NoEntry

\* A dialog that was not left reads what it was opened for, or less: nothing
\* is restored from the history under it.
Aimed(d) ==
  d.kind # "none" /\ ~d.left =>
    /\ load.step # "restore"
    /\ d.dir = pathname
    /\ d.kind # "mkdir" => Selected \subseteq d.names

IInv ==
  /\ Shape
  /\ SelectedVisible
  /\ HistoryInSight
  /\ Restoring
  /\ Aimed(dialog)
  /\ ActsOnWhatItWasOpenedFor

-----------------------------------------------------------------------------
LEMMA InitInv == Init => IInv
BY FolderAssumption DEF Init, IInv, Shape, SelectedVisible, HistoryInSight, Restoring, Aimed,
   ActsOnWhatItWasOpenedFor, FirstView, NoDialog, NoEntry, ViewFields, Everything, Visible

\* loadPath keeps rows and selection, and decides between the history and the
\* server.
LEMMA LoadPathKeeps ==
  ASSUME NEW v, NEW d, NEW page, NEW h,
         DOMAIN v = ViewFields, LoadPath(v, d, page, h)
  PROVE  /\ DOMAIN view' = ViewFields
         /\ view'.sel = v.sel /\ view'.rows = v.rows
         /\ view'.state = IF h[d] # NoEntry THEN "Initial" ELSE "Loading"
<1> DEFINE s == [v EXCEPT !.rev = sort[d]]
<1>1. DOMAIN s = ViewFields /\ s.sel = v.sel /\ s.rows = v.rows
  BY DEF ViewFields
<1>2. CASE h[d] # NoEntry
  <2>1. view' = [s EXCEPT !.state = "Initial"]
    BY <1>2 DEF LoadPath
  <2> HIDE DEF s
  <2> QED BY <1>1, <1>2, <2>1 DEF ViewFields
<1>3. CASE h[d] = NoEntry
  <2>1. view' = [s EXCEPT !.state = "Loading"]
    BY <1>3 DEF LoadPath, LoadFolder
  <2> HIDE DEF s
  <2> QED BY <1>1, <1>3, <2>1 DEF ViewFields
<1> QED BY <1>2, <1>3

LEMMA LoadPathLoads ==
  ASSUME NEW v, NEW d, NEW page, NEW h, LoadPath(v, d, page, h)
  PROVE  /\ history' = h
         /\ load'.step = "restore" <=> h[d] # NoEntry
BY DEF LoadPath, LoadFolder, NoLoad

\* What a visit leaves behind is in sight when no filter is set.
LEMMA VisitKeeps ==
  ASSUME IInv, NEW d \in Dirs, NEW h, Visit(d, h), DOMAIN h = Dirs,
         \A c \in Dirs : h[c] # NoEntry => EntryInSight(h[c])
  PROVE  Shape' /\ SelectedVisible' /\ HistoryInSight' /\ Restoring' /\ Aimed(dialog)'
<1> USE DEF IInv
<1> DEFINE v == AfterClear
           r == Record(h, pathname, v)
<1>1. EntryInSight(v)
  BY DEF AfterClear, Unselected, EntryInSight, Shape, SelectedVisible, Visible, ViewFields
<1>2. DOMAIN r = Dirs /\ \A c \in Dirs : r[c] # NoEntry => EntryInSight(r[c])
  BY <1>1 DEF Record
<1>3. LoadPath(v, d, 1, r)
  BY DEF Visit
<1>4. /\ DOMAIN view' = ViewFields
      /\ view'.sel = v.sel /\ view'.rows = v.rows
      /\ view'.state = IF r[d] # NoEntry THEN "Initial" ELSE "Loading"
  <2> HIDE DEF v, r
  <2> QED BY <1>1, <1>3, LoadPathKeeps DEF EntryInSight
<1>5. history' = r /\ (load'.step = "restore" <=> r[d] # NoEntry)
  <2> HIDE DEF v, r
  <2> QED BY <1>3, LoadPathLoads
<1>6. pathname' = d /\ filter' = Everything
  BY DEF Visit
<1>7. DOMAIN dialog' = DOMAIN dialog /\ (dialog'.kind = "none" \/ dialog'.left)
  BY DEF Visit, Shape
<1> HIDE DEF v, r
<1>8. Shape'
  BY <1>2, <1>4, <1>5, <1>6, <1>7 DEF Shape, Everything
<1>9. SelectedVisible'
  BY <1>1, <1>4, <1>6 DEF SelectedVisible, Visible, EntryInSight
<1>10. HistoryInSight' /\ Restoring'
  BY <1>2, <1>4, <1>5, <1>6 DEF HistoryInSight, Restoring
<1>11. Aimed(dialog)'
  BY <1>7 DEF Aimed
<1> QED BY <1>8, <1>9, <1>10, <1>11

\* A refresh forgets what it would restore.
LEMMA RefreshKeeps ==
  ASSUME IInv, RefreshHere, UNCHANGED <<pathname, filter>>,
         dialog' = dialog \/ dialog' = NoDialog
  PROVE  Shape' /\ SelectedVisible' /\ HistoryInSight' /\ Restoring' /\ Aimed(dialog)'
<1> USE DEF IInv
<1> DEFINE h == Forget(history, pathname)
<1>1. /\ DOMAIN h = Dirs /\ h[pathname] = NoEntry
      /\ \A c \in Dirs : h[c] # NoEntry => EntryInSight(h[c])
  BY DEF Forget, Shape, HistoryInSight
<1>2. LoadPath(view, pathname, view.page, h)
  BY DEF RefreshHere
<1> HIDE DEF h
<1>3. DOMAIN view' = ViewFields /\ view'.sel = view.sel /\ view'.rows = view.rows
  BY <1>2, LoadPathKeeps DEF Shape
<1>4. history' = h /\ load'.step # "restore"
  BY <1>1, <1>2, LoadPathLoads
<1>5. Shape'
  BY <1>1, <1>3, <1>4 DEF Shape, NoDialog
<1>6. SelectedVisible' /\ HistoryInSight' /\ Restoring'
  BY <1>1, <1>3, <1>4 DEF SelectedVisible, Visible, HistoryInSight, Restoring
<1>7. Aimed(dialog)'
  BY <1>3, <1>4 DEF Aimed, NoDialog, Selected
<1> QED BY <1>5, <1>6, <1>7

\* A listing comes without a selection; a page past the last is asked for again.
LEMMA ListAnsweredKeeps ==
  ASSUME IInv, NEW s, ListAnswered(s)
  PROVE  Shape' /\ SelectedVisible' /\ HistoryInSight' /\ Restoring' /\ Aimed(dialog)'
<1> USE DEF IInv
<1>1. UNCHANGED <<pathname, history, dialog>> /\ load.step = "list"
  BY DEF ListAnswered
<1>2. CASE load.page > Pages(s)
  <2>1. LoadFolder(view, Pages(s), load.rev) /\ UNCHANGED filter
    BY <1>2 DEF ListAnswered
  <2>2. load'.step = "list" /\ view' = [view EXCEPT !.state = "Loading"]
    BY <2>1 DEF LoadFolder
  <2>3. DOMAIN view' = ViewFields /\ view'.sel = view.sel /\ view'.rows = view.rows
    BY <2>2 DEF Shape, ViewFields
  <2>4. Shape' /\ SelectedVisible' /\ HistoryInSight' /\ Restoring'
    BY <1>1, <2>1, <2>2, <2>3
    DEF Shape, SelectedVisible, Visible, HistoryInSight, Restoring
  <2>5. Aimed(dialog)'
    BY <1>1, <2>2, <2>3 DEF Aimed, Selected
  <2> QED BY <2>4, <2>5
<1>3. CASE ~(load.page > Pages(s))
  <2> DEFINE v == [view EXCEPT !.state = "Folder", !.rows = Rows(pathname, s, load.page, load.rev),
                     !.sel = {}, !.page = load.page, !.pages = Pages(s), !.of = pathname]
             f == IF view.page = load.page THEN filter ELSE Everything
  <2>1. SetFilter(v, f) /\ load' = NoLoad
    BY <1>3 DEF ListAnswered
  <2>2. DOMAIN v = ViewFields /\ v.sel = {}
    BY DEF Shape, ViewFields
  <2>3. f \subseteq Names
    BY DEF Shape, Everything
  <2> HIDE DEF v, f
  <2>4. DOMAIN view' = ViewFields /\ view'.sel = {} /\ filter' = f
    BY <2>1, <2>2 DEF SetFilter, Unselected, ViewFields
  <2>5. Shape' /\ SelectedVisible' /\ HistoryInSight' /\ Restoring'
    BY <1>1, <2>1, <2>3, <2>4
    DEF Shape, SelectedVisible, HistoryInSight, Restoring, NoLoad
  <2>6. Aimed(dialog)'
    BY <1>1, <2>1, <2>4 DEF Aimed, Selected, NoLoad
  <2> QED BY <2>5, <2>6
<1> QED BY <1>2, <1>3

\* The history gives back a selection that no filter hides, to no dialog.
LEMMA RestoredKeeps ==
  ASSUME IInv, Restored
  PROVE  Shape' /\ SelectedVisible' /\ HistoryInSight' /\ Restoring' /\ Aimed(dialog)'
<1> USE DEF IInv
<1>1. UNCHANGED <<pathname, filter, history, dialog>>
      /\ load.step = "restore" /\ load' = NoLoad /\ view' = history[pathname]
  BY DEF Restored
<1>2. filter = Everything /\ EntryInSight(view')
  BY <1>1 DEF Restoring, HistoryInSight, Shape
<1>3. Shape' /\ SelectedVisible' /\ HistoryInSight' /\ Restoring'
  BY <1>1, <1>2 DEF Shape, SelectedVisible, Visible, HistoryInSight, Restoring, NoLoad,
     EntryInSight
<1>4. Aimed(dialog)'
  BY <1>1 DEF Aimed
<1> QED BY <1>3, <1>4

\* A step at the listing that changes at most the selection, and that to rows
\* in sight, with no dialog or one that is opened for them.
LEMMA SelectingKeeps ==
  ASSUME IInv, AtListing, UNCHANGED <<pathname, history, load>>,
         DOMAIN view' = ViewFields,
         filter' \subseteq Names, SelectedVisible',
         \/ dialog' = dialog
         \/ \E kind, names : Opens(kind, names) /\ (kind # "mkdir" => Selected' \subseteq names)
  PROVE  Shape' /\ SelectedVisible' /\ HistoryInSight' /\ Restoring' /\ Aimed(dialog)'
<1> USE DEF IInv
<1>1. load.step # "restore"
  BY DEF AtListing, Restoring
<1>2. DOMAIN dialog' = {"kind", "dir", "names", "left"}
  BY DEF Shape, Opens
<1>3. Shape' /\ HistoryInSight' /\ Restoring'
  BY <1>1, <1>2 DEF Shape, HistoryInSight, Restoring
<1>4. Aimed(dialog)'
  BY <1>1 DEF Aimed, AtListing, Opens
<1> QED BY <1>3, <1>4

\* The selections the user makes at the listing.
LEMMA AtRowKeeps ==
  ASSUME IInv, NEW i, CtrlClick(i) \/ ShiftClick(i) \/ \E kind \in Kinds : RowMenu(i, kind)
  PROVE  Shape' /\ SelectedVisible' /\ HistoryInSight' /\ Restoring' /\ Aimed(dialog)'
<1> USE DEF IInv
<1>1. AtListing /\ i \in Visible /\ UNCHANGED <<pathname, history, load, filter>>
  BY DEF CtrlClick, ShiftClick, RowMenu, Browsing
<1>2. PICK sel : sel \subseteq Visible /\ view' = [view EXCEPT !.sel = sel]
                 /\ (dialog' = dialog \/ (sel = {i} /\ \E kind : Opens(kind, {view.rows[i]})))
  <2>1. CASE CtrlClick(i)
    <3>1. WithIndex(i, i \notin view.sel) \subseteq Visible
      BY <1>1 DEF WithIndex, SelectedVisible
    <3> QED BY <2>1, <3>1 DEF CtrlClick
  <2>2. CASE ShiftClick(i)
    <3>1. SelectRange(i) \subseteq Visible
      BY <1>1 DEF SelectRange, SelectedVisible
    <3> QED BY <2>2, <3>1 DEF ShiftClick
  <2>3. CASE \E kind \in Kinds : RowMenu(i, kind)
    BY <1>1, <2>3 DEF RowMenu
  <2> QED BY <2>1, <2>2, <2>3
<1>3. DOMAIN view' = ViewFields /\ view'.sel = sel /\ view'.rows = view.rows
  BY <1>2 DEF Shape, ViewFields
<1>4. SelectedVisible'
  BY <1>1, <1>2, <1>3 DEF SelectedVisible, Visible
<1>5. CASE dialog' = dialog
  BY <1>1, <1>3, <1>4, <1>5, SelectingKeeps DEF Shape
<1>6. CASE sel = {i} /\ \E kind : Opens(kind, {view.rows[i]})
  <2>1. Selected' \subseteq {view.rows[i]}
    BY <1>3, <1>6 DEF Selected
  <2> QED BY <1>1, <1>3, <1>4, <1>6, <2>1, SelectingKeeps DEF Shape
<1> QED BY <1>2, <1>5, <1>6

\* The steps at the listing that are no click on a row.
LEMMA BarKeeps ==
  ASSUME IInv, CancelSelection \/ AddFolder \/ (\E kind \in Kinds : SelectionBar(kind))
  PROVE  Shape' /\ SelectedVisible' /\ HistoryInSight' /\ Restoring' /\ Aimed(dialog)'
<1> USE DEF IInv
<1>1. AtListing /\ UNCHANGED <<pathname, history, load, filter>>
  BY DEF CancelSelection, AddFolder, SelectionBar, Browsing
<1>2. filter' \subseteq Names
  BY <1>1 DEF Shape
<1>3. CASE CancelSelection
  <2>1. DOMAIN view' = ViewFields /\ view'.sel = {} /\ dialog' = dialog
    BY <1>3 DEF CancelSelection, Unselected, Shape, ViewFields
  <2>2. SelectedVisible'
    BY <2>1 DEF SelectedVisible
  <2> QED BY <1>1, <1>2, <2>1, <2>2, SelectingKeeps
<1>4. CASE AddFolder
  <2>1. UNCHANGED view /\ Opens("mkdir", {})
    BY <1>4 DEF AddFolder
  <2>2. SelectedVisible' /\ DOMAIN view' = ViewFields
    BY <1>1, <2>1 DEF SelectedVisible, Visible, Shape
  <2> QED BY <1>1, <1>2, <2>1, <2>2, SelectingKeeps
<1>5. CASE \E kind \in Kinds : SelectionBar(kind)
  <2>1. PICK kind \in Kinds : SelectionBar(kind)
    BY <1>5
  <2> DEFINE names == {view.rows[i] : i \in view.sel \cap Visible}
  <2>2. UNCHANGED view /\ Opens(kind, names)
    BY <2>1 DEF SelectionBar
  <2>3. Selected' \subseteq names
    BY <2>2 DEF Selected, SelectedVisible
  <2>4. SelectedVisible' /\ DOMAIN view' = ViewFields
    BY <1>1, <2>2 DEF SelectedVisible, Visible, Shape
  <2> HIDE DEF names
  <2> QED BY <1>1, <1>2, <2>2, <2>3, <2>4, SelectingKeeps
<1> QED BY <1>3, <1>4, <1>5

\* Searching drops the selection with every change of the filter.
LEMMA SearchKeepsInSight ==
  ASSUME IInv, NEW f \in Filters \cup {Everything}, Search(f)
  PROVE  Shape' /\ SelectedVisible' /\ HistoryInSight' /\ Restoring' /\ Aimed(dialog)'
<1> USE DEF IInv
<1>1. AtListing /\ UNCHANGED <<pathname, history, load, dialog>> /\ filter' \subseteq Names
  BY FolderAssumption DEF Search, Browsing, SetFilter, Everything
<1>2. DOMAIN view' = ViewFields /\ view'.sel = {}
  BY DEF Search, SetFilter, Unselected, Shape, ViewFields
<1>3. SelectedVisible'
  BY <1>2 DEF SelectedVisible
<1> QED BY <1>1, <1>2, <1>3, SelectingKeeps

\* Sorting and paging ask for other rows, and keep the ones there are till then.
LEMMA ReloadKeeps ==
  ASSUME IInv, (\E rev : SortBy(rev)) \/ (\E page \in 1 .. view.pages : Go(page))
  PROVE  Shape' /\ SelectedVisible' /\ HistoryInSight' /\ Restoring' /\ Aimed(dialog)'
<1> USE DEF IInv
<1>1. /\ AtListing /\ UNCHANGED <<pathname, history, dialog, filter>>
      /\ load'.step # "restore"
  <2>1. ASSUME NEW rev, SortBy(rev)
        PROVE  AtListing /\ UNCHANGED <<pathname, history, dialog, filter>> /\ load'.step # "restore"
    BY <2>1 DEF SortBy, LoadFolder
  <2>2. ASSUME NEW page, Go(page)
        PROVE  AtListing /\ UNCHANGED <<pathname, history, dialog, filter>> /\ load'.step # "restore"
    BY <2>2 DEF Go, LoadFolder
  <2> QED BY <2>1, <2>2
<1>2. DOMAIN view' = ViewFields /\ view'.rows = view.rows /\ view'.sel \subseteq view.sel
  <2>1. CASE \E rev : SortBy(rev)
    <3>1. PICK rev : SortBy(rev)
      BY <2>1
    <3> DEFINE v == [view EXCEPT !.rev = rev]
    <3>2. DOMAIN v = ViewFields /\ v.rows = view.rows /\ v.sel = view.sel
      BY DEF Shape, ViewFields
    <3>3. view' = [v EXCEPT !.state = "Loading"]
      BY <3>1 DEF SortBy, LoadFolder
    <3> HIDE DEF v
    <3> QED BY <3>2, <3>3 DEF ViewFields
  <2>2. CASE \E page \in 1 .. view.pages : Go(page)
    <3> DEFINE v == Unselected(view)
    <3>1. DOMAIN v = ViewFields /\ v.rows = view.rows /\ v.sel = {}
      BY DEF Shape, ViewFields, Unselected
    <3>2. view' = [v EXCEPT !.state = "Loading"]
      BY <2>2 DEF Go, LoadFolder
    <3> HIDE DEF v
    <3> QED BY <3>1, <3>2 DEF ViewFields
  <2> QED BY <2>1, <2>2
<1>3. Shape' /\ HistoryInSight' /\ Restoring'
  BY <1>1, <1>2 DEF Shape, HistoryInSight, Restoring
<1>4. SelectedVisible'
  BY <1>1, <1>2 DEF SelectedVisible, Visible
<1>5. Aimed(dialog)'
  BY <1>1 DEF Aimed, AtListing
<1> QED BY <1>3, <1>4, <1>5

\* Steps that leave everything alone but the dialog, which they may close, and
\* the load, which they may end.
LEMMA ClosingKeeps ==
  ASSUME IInv, UNCHANGED <<pathname, view, filter, history>>,
         load' = load \/ load' = NoLoad, dialog' = dialog \/ dialog' = NoDialog
  PROVE  Shape' /\ SelectedVisible' /\ HistoryInSight' /\ Restoring' /\ Aimed(dialog)'
<1> USE DEF IInv
<1>1. Shape' /\ SelectedVisible' /\ HistoryInSight' /\ Restoring'
  BY DEF Shape, SelectedVisible, Visible, HistoryInSight, Restoring, NoLoad, NoDialog
<1>2. Aimed(dialog)'
  BY DEF Aimed, NoLoad, NoDialog, Selected
<1> QED BY <1>1, <1>2

\* A request is for what its dialog was opened for when it is sent, and does
\* not change after that.
LEMMA RequestsKeep ==
  ASSUME IInv, [Next]_vars
  PROVE  ActsOnWhatItWasOpenedFor'
<1> USE DEF IInv
<1>1. requests' \subseteq requests \/ Confirm
  BY DEF Next, vars, AtRow, ListAnswered, ListFails, Restored, CtrlClick, ShiftClick, OpenRow,
     RowMenu, CancelSelection, Search, ClickTitle, SortMenu, SortBy, Go, FollowLink, Traverse, Visit, UploadEnds,
     SelectionBar, AddFolder, Cancel, Answered, Browsing
<1>2. CASE requests' \subseteq requests
  BY <1>2 DEF ActsOnWhatItWasOpenedFor
<1>3. CASE Confirm
  <2> DEFINE r == [id |-> sent, kind |-> dialog.kind, dir |-> pathname,
                   names |-> Operands, rowsOf |-> view.of, aim |-> dialog]
  <2>1. requests' = requests \cup {r} /\ dialog.kind # "none"
    BY <1>3 DEF Confirm
  <2>2. Operands \subseteq (IF dialog.kind = "mkdir" THEN {} ELSE Selected)
    BY DEF Operands, Renamed, Selected
  <2>3. ~r.aim.left => r.dir = r.aim.dir /\ r.names \subseteq r.aim.names
    BY <2>1, <2>2 DEF Aimed
  <2> HIDE DEF r
  <2> QED BY <2>1, <2>3 DEF ActsOnWhatItWasOpenedFor
<1> QED BY <1>1, <1>2, <1>3

LEMMA NextInv == IInv /\ [Next]_vars => IInv'
<1> SUFFICES ASSUME IInv, [Next]_vars
             PROVE  Shape' /\ SelectedVisible' /\ HistoryInSight' /\ Restoring' /\ Aimed(dialog)'
  BY RequestsKeep DEF IInv
<1>1. ASSUME NEW s, ListAnswered(s)
      PROVE  Shape' /\ SelectedVisible' /\ HistoryInSight' /\ Restoring' /\ Aimed(dialog)'
  BY <1>1, ListAnsweredKeeps
<1>2. CASE Restored
  BY <1>2, RestoredKeeps
<1>3. ASSUME NEW i, AtRow(i)
      PROVE  Shape' /\ SelectedVisible' /\ HistoryInSight' /\ Restoring' /\ Aimed(dialog)'
  <2>1. CASE OpenRow(i)
    <3> DEFINE d == Target[pathname][view.rows[i]]
    <3>1. d \in Dirs /\ Visit(d, Forget(history, d))
      <4>1. view.rows[i] \in Names /\ d # NoDir
        BY <2>1 DEF OpenRow, Visible, IInv, Shape
      <4>2. pathname \in Dirs
        BY DEF IInv, Shape
      <4>3. Target \in [Dirs -> [Names -> Dirs \cup {NoDir}]]
        BY FolderAssumption
      <4>4. d \in Dirs
        BY <4>1, <4>2, <4>3
      <4> QED BY <2>1, <4>4 DEF OpenRow
    <3> HIDE DEF d
    <3>2. /\ DOMAIN Forget(history, d) = Dirs
          /\ \A c \in Dirs : Forget(history, d)[c] # NoEntry => EntryInSight(Forget(history, d)[c])
      BY <3>1 DEF Forget, IInv, Shape, HistoryInSight
    <3> QED BY <3>1, <3>2, VisitKeeps
  <2>2. CASE ~OpenRow(i)
    BY <1>3, <2>2, AtRowKeeps DEF AtRow
  <2> QED BY <2>1, <2>2
<1>4. CASE CancelSelection \/ AddFolder \/ (\E kind \in Kinds : SelectionBar(kind))
  BY <1>4, BarKeeps
<1>5. CASE \E f \in Filters \cup {Everything} : Search(f)
  BY <1>5, SearchKeepsInSight
<1>6. CASE ClickTitle \/ (\E rev \in BOOLEAN : SortMenu(rev)) \/ (\E page \in 1 .. view.pages : Go(page))
  BY <1>6, ReloadKeeps DEF ClickTitle, SortMenu
<1>7. ASSUME NEW d \in Dirs, FollowLink(d) \/ Traverse(d)
      PROVE  Shape' /\ SelectedVisible' /\ HistoryInSight' /\ Restoring' /\ Aimed(dialog)'
  <2>1. PICK h \in {history, Forget(history, d)} : Visit(d, h)
    BY <1>7 DEF FollowLink, Traverse
  <2>2. DOMAIN h = Dirs /\ \A c \in Dirs : h[c] # NoEntry => EntryInSight(h[c])
    BY DEF Forget, IInv, Shape, HistoryInSight
  <2> QED BY <2>1, <2>2, VisitKeeps
<1>8. CASE UploadEnds
  BY <1>8, RefreshKeeps DEF UploadEnds
<1>9. CASE ListFails \/ Cancel \/ Confirm \/ UNCHANGED vars
  BY <1>9, ClosingKeeps DEF ListFails, Cancel, Confirm, Browsing, vars
<1>10. ASSUME NEW r \in requests, NEW ok \in BOOLEAN, Answered(r, ok)
       PROVE  Shape' /\ SelectedVisible' /\ HistoryInSight' /\ Restoring' /\ Aimed(dialog)'
  BY <1>10, RefreshKeeps, ClosingKeeps DEF Answered
<1> QED BY <1>1, <1>2, <1>3, <1>4, <1>5, <1>6, <1>7, <1>8, <1>9, <1>10 DEF Next

\* A row that the filter hides is never selected: what the selection bar
\* counts and the dialogs send is in sight, for any history, filter and range.
THEOREM SelectionInSight == Spec => []SelectedVisible
<1>1. IInv => SelectedVisible
  BY DEF IInv
<1> QED BY <1>1, InitInv, NextInv, PTL DEF Spec

\* A dialog that no navigation has overtaken acts where it was opened, on
\* nothing but the rows highlighted then, however many refreshes there are
\* while it is open.
THEOREM ActsAsOpened == Spec => []ActsOnWhatItWasOpenedFor
<1>1. IInv => ActsOnWhatItWasOpenedFor
  BY DEF IInv
<1> QED BY <1>1, InitInv, NextInv, PTL DEF Spec

-----------------------------------------------------------------------------
(***************************************************************************)
(* The rows.  Any set of names can be put in order: a name's place is one  *)
(* more than the number of names that come before it.                      *)
(***************************************************************************)
InOrder(d, rows, rev) ==
  \A i, j \in DOMAIN rows : i < j => Before(d, rows[i], rows[j], rev)

LEMMA BeforeIsOrder ==
  ASSUME NEW d \in Dirs, NEW rev \in BOOLEAN
  PROVE  /\ \A m \in Names : ~ Before(d, m, m, rev)
         /\ \A m, n \in Names : m # n => Before(d, m, n, rev) \/ Before(d, n, m, rev)
         /\ \A k, m, n \in Names : Before(d, k, m, rev) /\ Before(d, m, n, rev) => Before(d, k, n, rev)
<1>1. \A n \in Names : n \in Nat
  BY FolderAssumption
<1> DEFINE D == {k \in Names : Target[d][k] # NoDir}
<1>2. \A m, n \in Names : Before(d, m, n, rev) <=> \/ m \in D /\ n \notin D
                                                  \/ /\ m \in D <=> n \in D
                                                     /\ rev => m > n
                                                     /\ ~rev => m < n
  BY DEF Before
<1> HIDE DEF D
<1>3. \A m \in Names : ~ Before(d, m, m, rev)
  BY <1>1, <1>2
<1>4. \A m, n \in Names : m # n => Before(d, m, n, rev) \/ Before(d, n, m, rev)
  BY <1>1, <1>2
<1>5. ASSUME NEW k \in Names, NEW m \in Names, NEW n \in Names,
             Before(d, k, m, rev), Before(d, m, n, rev)
      PROVE  Before(d, k, n, rev)
  BY <1>1, <1>2, <1>5
<1> QED BY <1>3, <1>4, <1>5

LEMMA OrderExists ==
  ASSUME NEW d \in Dirs, NEW rev \in BOOLEAN, NEW s \in SUBSET Names
  PROVE  /\ IsFiniteSet(s) /\ Cardinality(s) \in Nat
         /\ \E f \in SetToSeqs(s) : InOrder(d, f, rev)
<1> DEFINE n == Cardinality(s)
           Earlier(x) == {y \in s : Before(d, y, x, rev)}
           rank == [x \in s |-> Cardinality(Earlier(x)) + 1]
<1>1. IsFiniteSet(s) /\ n \in Nat
  BY FolderAssumption, FS_Subset, FS_CardinalityType
<1>2. ASSUME NEW x \in s
      PROVE  IsFiniteSet(Earlier(x)) /\ Cardinality(Earlier(x)) \in Nat /\ Cardinality(Earlier(x)) < n
  <2> DEFINE T == Earlier(x)
  <2>1. T \in SUBSET s /\ x \notin T
    BY BeforeIsOrder
  <2>2. T # s
    BY <2>1
  <2> HIDE DEF T
  <2>3. IsFiniteSet(T) /\ Cardinality(T) <= n /\ (Cardinality(s) = Cardinality(T) => s = T)
    BY <1>1, <2>1, FS_Subset
  <2>4. Cardinality(T) \in Nat
    BY <2>3, FS_CardinalityType
  <2>5. Cardinality(T) < n
    BY <1>1, <2>2, <2>3, <2>4
  <2> QED BY <2>3, <2>4, <2>5 DEF T
<1>3. ASSUME NEW x \in s, NEW y \in s, Before(d, x, y, rev)
      PROVE  rank[x] < rank[y]
  <2> DEFINE T == Earlier(x)
             U == Earlier(y)
  <2>1. T \in SUBSET U /\ x \in U /\ x \notin T
    BY <1>3, BeforeIsOrder
  <2>2. IsFiniteSet(U) /\ Cardinality(U) \in Nat /\ IsFiniteSet(T) /\ Cardinality(T) \in Nat
    BY <1>2
  <2>3. rank[x] = Cardinality(T) + 1 /\ rank[y] = Cardinality(U) + 1
    OBVIOUS
  <2> HIDE DEF T, U, rank
  <2>4. Cardinality(T) <= Cardinality(U) /\ (Cardinality(U) = Cardinality(T) => U = T)
    BY <2>1, <2>2, FS_Subset
  <2>5. Cardinality(T) < Cardinality(U)
    BY <2>1, <2>2, <2>4
  <2> QED BY <2>2, <2>3, <2>5
<1>4. ASSUME NEW x \in s PROVE rank[x] \in 1 .. n
  <2> DEFINE c == Cardinality(Earlier(x))
  <2>1. rank[x] = c + 1
    OBVIOUS
  <2>2. c \in Nat /\ c < n
    BY <1>2
  <2> HIDE DEF c, rank, n
  <2> QED BY <1>1, <2>1, <2>2
<1>5. rank \in [s -> 1 .. n]
  BY <1>4
<1> HIDE DEF rank
<1>6. \A x, y \in s : rank[x] = rank[y] => x = y
  <2> SUFFICES ASSUME NEW x \in s, NEW y \in s, rank[x] = rank[y], x # y PROVE FALSE
    OBVIOUS
  <2>1. Before(d, x, y, rev) \/ Before(d, y, x, rev)
    BY BeforeIsOrder
  <2>2. rank[x] \in Nat /\ rank[y] \in Nat
    BY <1>1, <1>4
  <2> QED BY <1>3, <2>1, <2>2
<1>7. rank \in Injection(s, 1 .. n)
  BY <1>5, <1>6 DEF Injection, IsInjective
<1>8. rank \in Surjection(s, 1 .. n)
  <2>1. IsFiniteSet(1 .. n) /\ Cardinality(1 .. n) = n
    BY <1>1, FS_Interval
  <2> HIDE DEF n
  <2>2. Cardinality(s) = Cardinality(1 .. n)
    BY <2>1 DEF n
  <2> QED BY <1>7, <2>1, <2>2, FS_Injection
<1>9. \A i \in 1 .. n : \E x \in s : rank[x] = i
  BY <1>8 DEF Surjection
<1> DEFINE f == [i \in 1 .. n |-> CHOOSE x \in s : rank[x] = i]
<1>10. \A i \in 1 .. n : f[i] \in s /\ rank[f[i]] = i
  BY <1>9
<1>11. f \in [1 .. n -> s]
  BY <1>10
<1> HIDE DEF f
<1>12. \A i, j \in 1 .. n : i # j => f[i] # f[j]
  BY <1>10
<1>13. f \in SetToSeqs(s)
  BY <1>11, <1>12 DEF SetToSeqs
<1>14. InOrder(d, f, rev)
  <2> SUFFICES ASSUME NEW i \in 1 .. n, NEW j \in 1 .. n, i < j
               PROVE  Before(d, f[i], f[j], rev)
    BY <1>11 DEF InOrder
  <2>1. f[i] \in s /\ f[j] \in s /\ f[i] # f[j] /\ rank[f[i]] = i /\ rank[f[j]] = j
    BY <1>1, <1>10, <1>12
  <2>2. ~ Before(d, f[j], f[i], rev)
    BY <1>1, <1>3, <2>1
  <2> QED BY <2>1, <2>2, BeforeIsOrder
<1> QED BY <1>1, <1>13, <1>14

LEMMA RowsFit ==
  ASSUME NEW d \in Dirs, NEW rev \in BOOLEAN, NEW s \in SUBSET Names, NEW page \in Nat \ {0}
  PROVE  /\ Rows(d, s, page, rev) \in Seq(Names) /\ Len(Rows(d, s, page, rev)) <= PageSize
         /\ InOrder(d, Rows(d, s, page, rev), rev)
<1> DEFINE q == CHOOSE f \in SetToSeqs(s) : \A i, j \in DOMAIN f : i < j => Before(d, f[i], f[j], rev)
           end == page * PageSize
           a == (page - 1) * PageSize
           b == IF end < Len(q) THEN end ELSE Len(q)
           r == SubSeq(q, a + 1, b)
<1>1. Rows(d, s, page, rev) = r
  BY DEF Rows
<1>2. q \in SetToSeqs(s) /\ InOrder(d, q, rev) /\ Cardinality(s) \in Nat
  BY OrderExists DEF InOrder
<1> HIDE DEF q
<1>3. q \in Seq(Names) /\ Len(q) \in Nat /\ DOMAIN q = 1 .. Len(q)
  BY <1>2 DEF SetToSeqs
<1>4. a \in Nat /\ end \in Nat /\ end = a + PageSize
  BY FolderAssumption
<1> HIDE DEF a, end
<1>5. b \in Nat /\ b <= Len(q) /\ b <= a + PageSize
  BY <1>3, <1>4
<1> HIDE DEF b
<1>6. CASE a + 1 <= b
  <2>1. /\ r \in Seq(Names) /\ Len(r) = b - a /\ \A i \in 1 .. b - a : r[i] = q[a + i]
    <3>1. /\ SubSeq(q, a + 1, b) \in Seq(Names) /\ Len(SubSeq(q, a + 1, b)) = b - (a + 1) + 1
          /\ \A i \in 1 .. b - (a + 1) + 1 : SubSeq(q, a + 1, b)[i] = q[(a + 1) + i - 1]
      BY <1>3, <1>4, <1>5, <1>6, SubSeqProperties
    <3>2. b - (a + 1) + 1 = b - a /\ \A i \in 1 .. b - a : (a + 1) + i - 1 = a + i
      BY <1>4, <1>5
    <3> QED BY <3>1, <3>2
  <2> HIDE DEF r
  <2>2. InOrder(d, r, rev)
    <3> SUFFICES ASSUME NEW i \in 1 .. b - a, NEW j \in 1 .. b - a, i < j
                 PROVE  Before(d, r[i], r[j], rev)
      BY <1>4, <1>5, <1>6, <2>1 DEF InOrder
    <3>1. a + i \in DOMAIN q /\ a + j \in DOMAIN q /\ a + i < a + j
      BY <1>3, <1>4, <1>5
    <3> QED BY <1>2, <2>1, <3>1 DEF InOrder
  <2> QED BY <1>1, <1>4, <1>5, <2>1, <2>2, FolderAssumption
<1>7. CASE ~ (a + 1 <= b)
  <2>1. r = <<>>
    BY <1>3, <1>4, <1>5, <1>7, SubSeqEmpty
  <2> HIDE DEF r
  <2>2. r \in Seq(Names) /\ Len(r) = 0 /\ InOrder(d, r, rev)
    BY <2>1, EmptySeq DEF InOrder
  <2> QED BY <1>1, <2>2, FolderAssumption
<1> QED BY <1>6, <1>7

LEMMA PagesFit ==
  ASSUME NEW s \in SUBSET Names
  PROVE  Pages(s) \in Nat \ {0}
<1>1. IsFiniteSet(s)
  BY FolderAssumption, FS_Subset
<1>2. Cardinality(s) \in Nat /\ (s # {} => Cardinality(s) # 0)
  BY <1>1, FS_CardinalityType, FS_EmptySet
<1> DEFINE c == Cardinality(s)
<1> HIDE DEF c
<1>3. c \in Nat /\ (s # {} => c # 0) /\ Pages(s) = IF s = {} THEN 1 ELSE (c + PageSize - 1) \div PageSize
  BY <1>2 DEF Pages, c
<1>4. c # 0 => (c + PageSize - 1) \div PageSize \in Nat \ {0}
  BY <1>3, FolderAssumption
<1> QED BY <1>3, <1>4

-----------------------------------------------------------------------------
(***************************************************************************)
(* What is shown, what is recorded and what is asked for: the order that   *)
(* the next listing will be in is the one the header shows already.        *)
(***************************************************************************)
ShownFits ==
  /\ ViewOK(view)
  /\ view.state = "Folder" => view.of = pathname /\ InOrder(pathname, view.rows, view.rev)

EntryFits(v, d) ==
  DOMAIN v = ViewFields /\ ViewOK(v) /\ v.of = d /\ InOrder(d, v.rows, v.rev)

RecordedFits == \A d \in Dirs : history[d] # NoEntry => EntryFits(history[d], d)

AskedFits ==
  /\ load.step \in {"none", "list", "restore"} /\ load.page \in Nat \ {0} /\ load.rev \in BOOLEAN
  /\ load.step = "list" => load.rev = view.rev
  /\ load.step = "restore" => history[pathname] # NoEntry

Noted ==
  /\ anchor \in 0 .. PageSize /\ sort \in [Dirs -> BOOLEAN]
  /\ dialog.kind \in Kinds \cup {"none"} /\ dialog.names \subseteq Names
  /\ \A r \in requests : r.kind \in Kinds /\ r.dir \in Dirs /\ r.names \subseteq Names
  /\ loads \in Nat /\ sent \in 0 .. MaxRequests

Listed == ShownFits /\ RecordedFits /\ AskedFits

LEMMA ListedInit == Init => Listed /\ Noted
<1> SUFFICES ASSUME Init PROVE Listed /\ Noted
  OBVIOUS
<1>1. ViewOK(view) /\ view.state = "Loading" /\ view.rev = FALSE
  <2>1. <<>> \in Seq(Names) /\ Len(<<>>) = 0 /\ DOMAIN <<>> = {}
    BY EmptySeq
  <2> QED BY <2>1, FolderAssumption DEF Init, FirstView, ViewOK
<1>2. ShownFits /\ RecordedFits
  BY <1>1 DEF Init, ShownFits, RecordedFits
<1>3. AskedFits
  <2>1. load = [step |-> "list", page |-> 1, rev |-> FALSE]
    BY DEF Init
  <2>2. load.step = "list" /\ load.page = 1 /\ load.rev = FALSE
    BY <2>1
  <2>3. load.page \in Nat \ {0}
    BY <2>2
  <2>4. load.step # "restore"
    BY <2>2
  <2> QED BY <1>1, <2>2, <2>3, <2>4, Zenon DEF AskedFits
<1>4. Noted
  BY FolderAssumption DEF Init, Noted, NoDialog, Kinds
<1> QED BY <1>2, <1>3, <1>4 DEF Listed

\* loadFolder asks in the order that is shown.
LEMMA LoadFolderLists ==
  ASSUME NEW v, DOMAIN v = ViewFields, ViewOK(v), NEW page \in Nat \ {0}, LoadFolder(v, page, v.rev)
  PROVE  /\ ViewOK(view') /\ view'.state = "Loading" /\ view'.rev = v.rev /\ view'.of = v.of
         /\ load' = [step |-> "list", page |-> page, rev |-> v.rev]
         /\ ShownFits' /\ AskedFits'
<1>1. /\ view' = [v EXCEPT !.state = "Loading"]
      /\ load' = [step |-> "list", page |-> page, rev |-> v.rev]
  BY DEF LoadFolder
<1>2. ViewOK(view') /\ view'.state = "Loading" /\ view'.rev = v.rev /\ view'.of = v.of
  BY <1>1 DEF ViewOK, ViewFields
<1>3. v.rev \in BOOLEAN
  BY DEF ViewOK
<1> QED BY <1>1, <1>2, <1>3 DEF ShownFits, AskedFits

LEMMA LoadPathLists ==
  ASSUME NEW v, DOMAIN v = ViewFields, ViewOK(v), NEW page \in Nat \ {0}, NEW h,
         LoadPath(v, pathname', page, h), pathname' \in Dirs, sort \in [Dirs -> BOOLEAN]
  PROVE  ShownFits' /\ AskedFits' /\ history' = h
<1> DEFINE d == pathname'
           s == [v EXCEPT !.rev = sort[d]]
<1>1. DOMAIN s = ViewFields /\ ViewOK(s) /\ s.rev = sort[d]
  BY DEF ViewOK, ViewFields
<1>2. CASE h[d] # NoEntry
  <2>1. /\ view' = [s EXCEPT !.state = "Initial"] /\ load' = [NoLoad EXCEPT !.step = "restore"]
        /\ history' = h
    BY <1>2 DEF LoadPath
  <2> HIDE DEF s
  <2>2. ViewOK(view') /\ view'.state = "Initial"
    BY <1>1, <2>1 DEF ViewOK, ViewFields
  <2> QED BY <1>2, <2>1, <2>2 DEF ShownFits, AskedFits, NoLoad
<1>3. CASE h[d] = NoEntry
  <2>1. LoadFolder(s, page, s.rev) /\ history' = h
    BY <1>3 DEF LoadPath
  <2> HIDE DEF s
  <2> QED BY <1>1, <2>1, LoadFolderLists
<1> QED BY <1>2, <1>3

\* A visit records the listing it leaves, if that is one.
LEMMA VisitLists ==
  ASSUME IInv, Listed, Noted, NEW d \in Dirs, NEW h, Visit(d, h),
         h = history \/ h = Forget(history, d)
  PROVE  Listed'
<1> DEFINE v == AfterClear
<1>1. /\ DOMAIN v = ViewFields /\ ViewOK(v) /\ v.rows = view.rows /\ v.of = view.of
      /\ v.rev = view.rev /\ v.state = view.state
  BY DEF AfterClear, Unselected, Listed, ShownFits, ViewOK, IInv, Shape, ViewFields
<1>2. /\ pathname' = d /\ LoadPath(v, d, 1, Record(h, pathname, v)) /\ sort \in [Dirs -> BOOLEAN]
      /\ DOMAIN h = Dirs /\ pathname \in Dirs
  BY DEF Visit, Noted, Forget, IInv, Shape
<1> HIDE DEF v
<1>3. ShownFits' /\ AskedFits' /\ history' = Record(h, pathname, v)
  BY <1>1, <1>2, LoadPathLists
<1>4. \A c \in Dirs : h[c] # NoEntry => EntryFits(h[c], c)
  BY DEF Listed, RecordedFits, Forget, IInv, Shape
<1>5. v.state = "Folder" => EntryFits(v, pathname)
  BY <1>1 DEF Listed, ShownFits, EntryFits
<1>6. RecordedFits'
  BY <1>2, <1>3, <1>4, <1>5 DEF RecordedFits, Record
<1> QED BY <1>3, <1>6 DEF Listed

LEMMA RefreshLists ==
  ASSUME IInv, Listed, Noted, RefreshHere, UNCHANGED pathname
  PROVE  Listed'
<1> DEFINE h == Forget(history, pathname)
<1>1. LoadPath(view, pathname, view.page, h) /\ sort \in [Dirs -> BOOLEAN] /\ pathname' \in Dirs
  BY DEF RefreshHere, Noted, IInv, Shape
<1>2. DOMAIN view = ViewFields /\ ViewOK(view) /\ view.page \in Nat \ {0}
  BY DEF IInv, Shape, Listed, ShownFits, ViewOK
<1>3. \A c \in Dirs : h[c] # NoEntry => EntryFits(h[c], c)
  BY DEF Listed, RecordedFits, Forget, IInv, Shape
<1> HIDE DEF h
<1>4. ShownFits' /\ AskedFits' /\ history' = h
  BY <1>1, <1>2, LoadPathLists
<1>5. RecordedFits'
  BY <1>3, <1>4 DEF RecordedFits
<1> QED BY <1>4, <1>5 DEF Listed

LEMMA AnswerLists ==
  ASSUME IInv, Listed, NEW s \in Contents[pathname], ListAnswered(s)
  PROVE  Listed'
<1>1. UNCHANGED <<pathname, history>> /\ load.step = "list" /\ pathname \in Dirs
  BY DEF ListAnswered, IInv, Shape
<1>2. s \in SUBSET Names /\ Pages(s) \in Nat \ {0}
  BY <1>1, FolderAssumption, PagesFit
<1>3. load.page \in Nat \ {0} /\ load.rev \in BOOLEAN /\ load.rev = view.rev
  BY <1>1 DEF Listed, AskedFits
<1>4. DOMAIN view = ViewFields /\ ViewOK(view)
  BY DEF IInv, Shape, Listed, ShownFits
<1>5. RecordedFits'
  BY <1>1 DEF Listed, RecordedFits
<1>6. CASE load.page > Pages(s)
  <2>1. LoadFolder(view, Pages(s), view.rev)
    BY <1>3, <1>6 DEF ListAnswered
  <2> QED BY <1>2, <1>4, <1>5, <2>1, LoadFolderLists DEF Listed
<1>7. CASE ~ (load.page > Pages(s))
  <2> DEFINE r == Rows(pathname, s, load.page, load.rev)
             v == [view EXCEPT !.state = "Folder", !.rows = r,
                     !.sel = {}, !.page = load.page, !.pages = Pages(s), !.of = pathname]
             f == IF view.page = load.page THEN filter ELSE Everything
  <2>1. SetFilter(v, f) /\ load' = NoLoad
    BY <1>7 DEF ListAnswered
  <2>2. r \in Seq(Names) /\ Len(r) <= PageSize /\ InOrder(pathname, r, load.rev)
    BY <1>1, <1>2, <1>3, RowsFit
  <2>3. load.page \in 1 .. Pages(s)
    BY <1>2, <1>3, <1>7
  <2> HIDE DEF r, f
  <2>4. /\ v.state = "Folder" /\ v.rows = r /\ v.sel = {} /\ v.page = load.page
        /\ v.pages = Pages(s) /\ v.of = pathname /\ v.rev = view.rev /\ DOMAIN v = ViewFields
    BY <1>4 DEF ViewFields
  <2> HIDE DEF v
  <2>5. /\ view'.state = "Folder" /\ view'.rows = r /\ view'.sel = {} /\ view'.page = load.page
        /\ view'.pages = Pages(s) /\ view'.of = pathname /\ view'.rev = view.rev
    BY <2>1, <2>4 DEF SetFilter, Unselected, ViewFields
  <2>6. ViewOK(view')
    BY <1>1, <1>3, <1>4, <2>2, <2>3, <2>5 DEF ViewOK
  <2>7. ShownFits' /\ AskedFits'
    BY <1>1, <1>3, <2>1, <2>2, <2>5, <2>6 DEF ShownFits, AskedFits, NoLoad
  <2> QED BY <1>5, <2>7 DEF Listed
<1> QED BY <1>6, <1>7

\* The history gives back what was recorded of the same directory.
LEMMA RestoredLists ==
  ASSUME IInv, Listed, Restored
  PROVE  Listed'
<1>1. UNCHANGED <<pathname, history>> /\ load' = NoLoad /\ view' = history[pathname]
      /\ load.step = "restore" /\ pathname \in Dirs
  BY DEF Restored, IInv, Shape
<1>2. EntryFits(view', pathname)
  BY <1>1 DEF Listed, AskedFits, RecordedFits
<1> QED BY <1>1, <1>2 DEF Listed, ShownFits, RecordedFits, AskedFits, EntryFits, NoLoad

\* A step that changes of the view at most the selection, and may end a load.
LEMMA SelectionLists ==
  ASSUME IInv, Listed, NEW sel, sel \subseteq DOMAIN view.rows,
         view' = view \/ view' = [view EXCEPT !.sel = sel],
         UNCHANGED <<pathname, history>>, load' = load \/ load' = NoLoad
  PROVE  Listed'
<1>1. /\ view'.state = view.state /\ view'.rows = view.rows /\ view'.sel \subseteq DOMAIN view.rows
      /\ view'.page = view.page /\ view'.pages = view.pages /\ view'.of = view.of
      /\ view'.rev = view.rev
  BY DEF Listed, ShownFits, ViewOK, IInv, Shape, ViewFields
<1>2. ShownFits /\ RecordedFits /\ AskedFits
  BY DEF Listed
<1>3. ShownFits'
  BY <1>1, <1>2 DEF ShownFits, ViewOK, InOrder
<1>4. RecordedFits'
  BY <1>2 DEF RecordedFits
<1>5. AskedFits'
  <2>1. CASE load' = load
    BY <1>1, <1>2, <2>1 DEF AskedFits
  <2>2. CASE load' = NoLoad
    <3>1. load'.step = "none" /\ load'.page = 1 /\ load'.rev = FALSE
      BY <2>2 DEF NoLoad
    <3>2. load'.page \in Nat \ {0}
      BY <3>1
    <3>3. load'.step # "list" /\ load'.step # "restore"
      BY <3>1
    <3> QED BY <3>1, <3>2, <3>3, Zenon DEF AskedFits
  <2> QED BY <2>1, <2>2
<1> QED BY <1>3, <1>4, <1>5 DEF Listed

LEMMA ReloadLists ==
  ASSUME IInv, Listed, (\E rev \in BOOLEAN : SortBy(rev)) \/ (\E page \in 1 .. view.pages : Go(page))
  PROVE  Listed'
<1>1. DOMAIN view = ViewFields /\ ViewOK(view)
  BY DEF IInv, Shape, Listed, ShownFits
<1>2. ASSUME NEW rev \in BOOLEAN, SortBy(rev) PROVE Listed'
  <2> DEFINE v == [view EXCEPT !.rev = rev]
  <2>1. DOMAIN v = ViewFields /\ ViewOK(v) /\ v.rev = rev
    BY <1>1 DEF ViewOK, ViewFields
  <2>2. LoadFolder(v, 1, rev) /\ UNCHANGED <<pathname, history>>
    BY <1>2 DEF SortBy
  <2> HIDE DEF v
  <2> QED BY <2>1, <2>2, LoadFolderLists DEF Listed, RecordedFits
<1>3. ASSUME NEW page \in 1 .. view.pages, Go(page) PROVE Listed'
  <2> DEFINE v == Unselected(view)
  <2>1. DOMAIN v = ViewFields /\ ViewOK(v) /\ v.rev = view.rev
    BY <1>1 DEF ViewOK, ViewFields, Unselected
  <2>2. LoadFolder(v, page, v.rev) /\ UNCHANGED <<pathname, history>>
    BY <1>3, <2>1 DEF Go
  <2>3. page \in Nat \ {0}
    OBVIOUS
  <2> HIDE DEF v
  <2> QED BY <2>1, <2>2, <2>3, LoadFolderLists DEF Listed, RecordedFits
<1> QED BY <1>2, <1>3

LEMMA SearchLists ==
  ASSUME IInv, Listed, NEW f, Search(f)
  PROVE  Listed'
<1>1. /\ view' = view \/ view' = [view EXCEPT !.sel = {}]
      /\ UNCHANGED <<pathname, history, load>>
  BY DEF Search, Browsing, SetFilter, Unselected
<1> QED BY <1>1, SelectionLists

\* What a row is: a place on the page, and a name.
LEMMA RowsNamed ==
  ASSUME ShownFits
  PROVE  /\ \A i \in DOMAIN view.rows : i \in 1 .. PageSize /\ view.rows[i] \in Names
         /\ Visible \subseteq DOMAIN view.rows /\ Selected \subseteq Names
<1>1. view.rows \in Seq(Names) /\ Len(view.rows) <= PageSize /\ view.sel \subseteq DOMAIN view.rows
  BY DEF ShownFits, ViewOK
<1>2. DOMAIN view.rows = 1 .. Len(view.rows) /\ Len(view.rows) \in Nat
  BY <1>1
<1> QED BY <1>1, <1>2, ElementOfSeq, FolderAssumption DEF Visible, Selected

LEMMA ListedNext == IInv /\ Listed /\ Noted /\ [Next]_vars => Listed'
<1> SUFFICES ASSUME IInv, Listed, Noted, [Next]_vars PROVE Listed'
  OBVIOUS
<1>0. view.sel \subseteq DOMAIN view.rows /\ Visible \subseteq DOMAIN view.rows
  BY DEF Listed, ShownFits, ViewOK, Visible
<1>1. ASSUME NEW s \in Contents[pathname], ListAnswered(s) PROVE Listed'
  BY <1>1, AnswerLists
<1>2. CASE Restored
  BY <1>2, RestoredLists
<1>3. ASSUME NEW i \in DOMAIN view.rows, AtRow(i) PROVE Listed'
  <2>1. CASE CtrlClick(i)
    <3>1. WithIndex(i, i \notin view.sel) \subseteq DOMAIN view.rows
      BY <1>0 DEF WithIndex
    <3>2. view' = [view EXCEPT !.sel = WithIndex(i, i \notin view.sel)] /\ UNCHANGED <<pathname, history, load>>
      BY <2>1 DEF CtrlClick, Browsing
    <3> QED BY <3>1, <3>2, SelectionLists
  <2>2. CASE ShiftClick(i)
    <3>1. SelectRange(i) \subseteq DOMAIN view.rows
      BY <1>0 DEF SelectRange
    <3>2. view' = [view EXCEPT !.sel = SelectRange(i)] /\ UNCHANGED <<pathname, history, load>>
      BY <2>2 DEF ShiftClick, Browsing
    <3> QED BY <3>1, <3>2, SelectionLists
  <2>3. CASE \E kind \in Kinds : RowMenu(i, kind)
    <3>1. view' = [view EXCEPT !.sel = {i}] /\ UNCHANGED <<pathname, history, load>>
      BY <2>3 DEF RowMenu, Browsing
    <3>2. {i} \subseteq DOMAIN view.rows
      OBVIOUS
    <3> QED BY <3>1, <3>2, SelectionLists
  <2>4. CASE OpenRow(i)
    <3> DEFINE d == Target[pathname][view.rows[i]]
    <3>1. view.rows[i] \in Names /\ pathname \in Dirs /\ d # NoDir /\ Visit(d, Forget(history, d))
      BY <2>4, RowsNamed DEF OpenRow, Listed, IInv, Shape
    <3>2. Target \in [Dirs -> [Names -> Dirs \cup {NoDir}]]
      BY FolderAssumption
    <3>3. d \in Dirs \cup {NoDir}
      BY <3>1, <3>2
    <3> HIDE DEF d
    <3> QED BY <3>1, <3>3, VisitLists
  <2> QED BY <1>3, <2>1, <2>2, <2>3, <2>4 DEF AtRow
<1>4. CASE CancelSelection \/ AddFolder \/ (\E kind \in Kinds : SelectionBar(kind))
  <2>1. /\ view' = view \/ view' = [view EXCEPT !.sel = {}]
        /\ UNCHANGED <<pathname, history, load>>
    BY <1>4 DEF CancelSelection, AddFolder, SelectionBar, Browsing, Unselected
  <2> QED BY <2>1, SelectionLists
<1>5. ASSUME NEW f, Search(f) PROVE Listed'
  BY <1>5, SearchLists
<1>6. CASE ClickTitle \/ (\E rev \in BOOLEAN : SortMenu(rev)) \/ (\E page \in 1 .. view.pages : Go(page))
  <2>1. (~view.rev) \in BOOLEAN
    BY DEF Listed, ShownFits, ViewOK
  <2> QED BY <1>6, <2>1, ReloadLists DEF ClickTitle, SortMenu
<1>7. ASSUME NEW d \in Dirs, FollowLink(d) \/ Traverse(d) PROVE Listed'
  BY <1>7, VisitLists DEF FollowLink, Traverse
<1>8. CASE UploadEnds
  BY <1>8, RefreshLists DEF UploadEnds
<1>9. CASE ListFails \/ Cancel \/ Confirm \/ UNCHANGED vars
  <2>1. view' = view /\ UNCHANGED <<pathname, history>> /\ (load' = load \/ load' = NoLoad)
    BY <1>9 DEF ListFails, Cancel, Confirm, Browsing, vars
  <2>2. {} \subseteq DOMAIN view.rows
    OBVIOUS
  <2> QED BY <2>1, <2>2, SelectionLists
<1>10. ASSUME NEW r \in requests, NEW ok \in BOOLEAN, Answered(r, ok) PROVE Listed'
  <2>1. UNCHANGED pathname /\ (RefreshHere \/ UNCHANGED <<view, load, history>>)
    BY <1>10 DEF Answered
  <2> QED BY <1>0, <2>1, RefreshLists, SelectionLists
<1> QED BY <1>1, <1>2, <1>3, <1>4, <1>5, <1>6, <1>7, <1>8, <1>9, <1>10 DEF Next

\* The rest, which each step changes in one place.
LEMMA NotedNext == IInv /\ Listed /\ Noted /\ [Next]_vars => Noted'
<1> SUFFICES ASSUME IInv, Listed, Noted, [Next]_vars PROVE Noted'
  OBVIOUS
<1>0. /\ \A i \in DOMAIN view.rows : i \in 0 .. PageSize /\ view.rows[i] \in Names
      /\ Visible \subseteq DOMAIN view.rows /\ Selected \subseteq Names
      /\ pathname \in Dirs /\ PageSize \in Nat /\ MaxRequests \in Nat
      /\ view.sel \subseteq DOMAIN view.rows
      /\ DOMAIN dialog = {"kind", "dir", "names", "left"}
  BY RowsNamed, FolderAssumption DEF Listed, ShownFits, ViewOK, IInv, Shape
<1>1. anchor' \in 0 .. PageSize
  <2>1. anchor' \in {0, anchor} \/ \E i \in DOMAIN view.rows : anchor' = i
    BY DEF Next, vars, AtRow, ListAnswered, SetFilter, ListFails, Restored, CtrlClick, ShiftClick, OpenRow,
       RowMenu, CancelSelection, Search, ClickTitle, SortMenu, SortBy, Go, FollowLink, Traverse,
       UploadEnds, SelectionBar, AddFolder, Cancel, Confirm, Answered
  <2> QED BY <1>0, <2>1 DEF Noted
<1>2. sort' \in [Dirs -> BOOLEAN]
  <2>1. sort' = sort \/ \E rev \in BOOLEAN : sort' = [sort EXCEPT ![pathname] = rev]
    <3>1. (~view.rev) \in BOOLEAN
      BY DEF Listed, ShownFits, ViewOK
    <3> QED BY <3>1 DEF Next, vars, AtRow, ListAnswered, ListFails, Restored, CtrlClick, ShiftClick, OpenRow,
       RowMenu, CancelSelection, Search, ClickTitle, SortMenu, SortBy, Go, FollowLink, Traverse, Visit,
       UploadEnds, SelectionBar, AddFolder, Cancel, Confirm, Answered, Browsing
  <2> QED BY <2>1 DEF Noted
<1>3. dialog'.kind \in Kinds \cup {"none"} /\ dialog'.names \subseteq Names
  <2>1. \/ dialog' = dialog \/ dialog' = NoDialog
        \/ \E left : dialog' = [dialog EXCEPT !.left = left]
        \/ \E kind \in Kinds, names \in SUBSET Names : Opens(kind, names)
    <3>1. "mkdir" \in Kinds /\ {} \in SUBSET Names
      BY DEF Kinds
    <3>2. \A i \in DOMAIN view.rows : {view.rows[i]} \in SUBSET Names
      BY <1>0
    <3>3. {view.rows[i] : i \in view.sel \cap Visible} \in SUBSET Names
      BY <1>0
    <3>4. ASSUME NEW i \in DOMAIN view.rows, NEW kind \in Kinds, RowMenu(i, kind)
          PROVE  \E k \in Kinds, names \in SUBSET Names : Opens(k, names)
      BY <3>2, <3>4 DEF RowMenu
    <3>5. ASSUME NEW kind \in Kinds, SelectionBar(kind)
          PROVE  \E k \in Kinds, names \in SUBSET Names : Opens(k, names)
      BY <3>3, <3>5 DEF SelectionBar
    <3>6. ASSUME AddFolder
          PROVE  \E k \in Kinds, names \in SUBSET Names : Opens(k, names)
      BY <3>1, <3>6 DEF AddFolder
    <3> QED BY <3>4, <3>5, <3>6 DEF Next, vars, AtRow, ListAnswered, ListFails, Restored, CtrlClick, ShiftClick, OpenRow,
       CancelSelection, Search, ClickTitle, SortMenu, SortBy, Go, FollowLink, Traverse, Visit,
       UploadEnds, Cancel, Confirm, Answered, Browsing
  <2>2. NoDialog.kind = "none" /\ NoDialog.names = {}
    BY DEF NoDialog
  <2>3. ASSUME NEW left, dialog' = [dialog EXCEPT !.left = left]
        PROVE  dialog'.kind = dialog.kind /\ dialog'.names = dialog.names
    BY <1>0, <2>3
  <2>4. ASSUME NEW kind \in Kinds, NEW names \in SUBSET Names, Opens(kind, names)
        PROVE  dialog'.kind = kind /\ dialog'.names = names
    BY <2>4 DEF Opens
  <2> QED BY <2>1, <2>2, <2>3, <2>4 DEF Noted
<1>4. /\ \A r \in requests' : r.kind \in Kinds /\ r.dir \in Dirs /\ r.names \subseteq Names
      /\ sent' \in 0 .. MaxRequests
  <2>1. CASE Confirm
    <3> DEFINE r == [id |-> sent, kind |-> dialog.kind, dir |-> pathname,
                     names |-> Operands, rowsOf |-> view.of, aim |-> dialog]
    <3>1. requests' = requests \cup {r} /\ sent' = sent + 1 /\ sent < MaxRequests /\ dialog.kind # "none"
      BY <2>1 DEF Confirm
    <3>2. Operands \subseteq Names
      BY <1>0 DEF Operands, Renamed, Selected
    <3>3. r.kind = dialog.kind /\ r.dir = pathname /\ r.names = Operands
      OBVIOUS
    <3> HIDE DEF r
    <3> QED BY <1>0, <3>1, <3>2, <3>3 DEF Noted
  <2>2. CASE requests' \subseteq requests /\ sent' = sent
    BY <2>2 DEF Noted
  <2>3. Confirm \/ (requests' \subseteq requests /\ sent' = sent)
    BY DEF Next, vars, AtRow, ListAnswered, ListFails, Restored, CtrlClick, ShiftClick, OpenRow,
       RowMenu, CancelSelection, Search, ClickTitle, SortMenu, SortBy, Go, FollowLink, Traverse, Visit,
       UploadEnds, SelectionBar, AddFolder, Cancel, Answered, Browsing
  <2> QED BY <2>1, <2>2, <2>3
<1>5. loads' \in Nat
  <2>1. loads' = loads \/ loads' = loads + 1
    BY DEF Next, vars, AtRow, ListAnswered, ListFails, Restored, CtrlClick, ShiftClick, OpenRow,
       RowMenu, CancelSelection, Search, ClickTitle, SortMenu, SortBy, Go, FollowLink, Traverse, Visit,
       UploadEnds, SelectionBar, AddFolder, Cancel, Confirm, Answered, Browsing, RefreshHere, LoadPath, LoadFolder
  <2> QED BY <2>1 DEF Noted
<1> QED BY <1>1, <1>2, <1>3, <1>4, <1>5 DEF Noted

\* Every value has its type, for any tree, contents and page size: what is
\* shown, recorded or restored is a page the listing has, of its directory.
THEOREM ListingsWellFormed == Spec => []TypeOK
<1>1. IInv /\ Listed /\ Noted => TypeOK
  BY DEF IInv, Shape, Listed, ShownFits, RecordedFits, EntryFits, AskedFits, Noted, TypeOK
<1> QED BY <1>1, InitInv, NextInv, ListedInit, ListedNext, NotedNext, PTL DEF Spec

\* The rows are in the order the header indicates, however loads, restores,
\* visits and changes of the order interleave.
THEOREM OrderIsIndicated == Spec => []InTheOrderIndicated
<1>1. IInv /\ Listed /\ Noted => InTheOrderIndicated
  BY DEF Listed, ShownFits, InOrder, InTheOrderIndicated
<1> QED BY <1>1, InitInv, NextInv, ListedInit, ListedNext, NotedNext, PTL DEF Spec

-----------------------------------------------------------------------------
(***************************************************************************)
(* The tree.  Listings of a node may be answered in any order, fail, or    *)
(* come when the node has gone; what a node must not do is to show the     *)
(* listing it asked for last without a directory it knows to be made.  So  *)
(* the invariant speaks of that listing, awaited or shown.                 *)
(***************************************************************************)
Node == [open : BOOLEAN, isLoaded : BOOLEAN, children : SUBSET (Paths \cup {Nowhere}),
         loading : BOOLEAN, loads : Seq(SUBSET Paths), made : SUBSET Paths,
         last : {"awaited", "shown", "lost"}]

\* The listing asked for last has, or will have, the directories made before.
Lists(n) ==
  /\ n.last = "awaited" => n.loads # <<>> /\ n.made \subseteq n.loads[Len(n.loads)]
  /\ n.last = "shown" => n.made \subseteq n.children

NodeFits(n, p) == n \in Node /\ n.made \subseteq ChildrenIn(dirs, p) /\ Lists(n)

\* A node that shows the input for a name.
Ready(n) == n.open /\ (n.isLoaded \/ n.loads # <<>>)

Kept(ns, c) == c \in DOMAIN ns => Ready(ns[c])

Fit(ns) ==
  /\ ns = [p \in DOMAIN ns |-> ns[p]] /\ DOMAIN ns \subseteq Paths
  /\ \A p \in DOMAIN ns : NodeFits(ns[p], p)

LEMMA LoadFits ==
  ASSUME NEW n, NEW p, dirs \subseteq Paths, n \in Node, n.made \subseteq ChildrenIn(dirs, p)
  PROVE  /\ NodeFits(Load(n, p), p) /\ Load(n, p).loads # <<>>
         /\ Load(n, p).open = n.open /\ Load(n, p).isLoaded = n.isLoaded
  <1> DEFINE m == Load(n, p)
  <1>0. ChildrenIn(dirs, p) \in SUBSET Paths BY DEF ChildrenIn
  <1>1. Append(n.loads, ChildrenIn(dirs, p)) \in Seq(SUBSET Paths) BY <1>0 DEF Node
  <1>2. m \in Node BY <1>1 DEF Load, Node
  <1>3. m.loads = Append(n.loads, ChildrenIn(dirs, p)) BY DEF Load, Node
  <1>4. m.made = n.made BY DEF Load, Node
  <1>5. m.open = n.open /\ m.isLoaded = n.isLoaded /\ m.last = "awaited" BY DEF Load, Node
  <1>6. m.loads # <<>> /\ m.loads[Len(m.loads)] = ChildrenIn(dirs, p)
    BY <1>0, <1>3 DEF Node
  <1> HIDE DEF m
  <1>7. Lists(m) BY <1>4, <1>5, <1>6 DEF Lists
  <1> QED BY <1>2, <1>4, <1>5, <1>6, <1>7 DEF NodeFits, m

LEMMA OpeningFits ==
  ASSUME NEW n, NEW p, dirs \subseteq Paths, NodeFits(n, p)
  PROVE  NodeFits(Opening(n, p), p) /\ Ready(Opening(n, p))
  <1> DEFINE m == [n EXCEPT !.open = TRUE]
  <1>1. m \in Node BY DEF NodeFits, Node
  <1>2. /\ m.made = n.made /\ m.loads = n.loads /\ m.children = n.children
        /\ m.last = n.last /\ m.isLoaded = n.isLoaded /\ m.open = TRUE
    BY DEF NodeFits, Node
  <1> HIDE DEF m
  <1>3. NodeFits(m, p) BY <1>1, <1>2 DEF NodeFits, Lists
  <1>4. /\ NodeFits(Load(m, p), p) /\ Load(m, p).loads # <<>>
        /\ Load(m, p).open = TRUE
    BY <1>2, <1>3, LoadFits DEF NodeFits
  <1>5. Opening(n, p) = IF n.isLoaded THEN m ELSE Load(m, p) BY DEF Opening, m
  <1> QED BY <1>2, <1>3, <1>4, <1>5 DEF Ready

LEMMA ForInputFits ==
  ASSUME NEW n, NEW p, dirs \subseteq Paths, NodeFits(n, p)
  PROVE  NodeFits(ForInput(n, p), p) /\ Ready(ForInput(n, p))
  <1>1. NodeFits(Opening(n, p), p) /\ Ready(Opening(n, p)) BY OpeningFits
  <1>2. /\ NodeFits(Opening(Opening(n, p), p), p)
        /\ Ready(Opening(Opening(n, p), p))
    BY <1>1, OpeningFits
  <1> QED BY <1>1, <1>2 DEF ForInput

LEMMA NewNodeFits ==
  ASSUME NEW p, NEW v, NEW c, dirs \subseteq Paths
  PROVE  NodeFits(NewNode(p, v, c), p) /\ (c = p => Ready(NewNode(p, v, c)))
  <1>1. ClosedNode \in Node BY DEF ClosedNode, Node, Unknown
  <1>2. NodeFits(ClosedNode, p) BY <1>1 DEF NodeFits, Lists, ClosedNode
  <1>3. NodeFits(Opening(ClosedNode, p), p) BY <1>2, OpeningFits
  <1> DEFINE n == IF IsPrefix(p, v) THEN Opening(ClosedNode, p) ELSE ClosedNode
  <1>4. NodeFits(n, p) BY <1>2, <1>3
  <1>5. NewNode(p, v, c) = IF c = p THEN ForInput(n, p) ELSE n BY DEF NewNode
  <1> HIDE DEF n
  <1>6. NodeFits(ForInput(n, p), p) /\ Ready(ForInput(n, p)) BY <1>4, ForInputFits
  <1> QED BY <1>4, <1>5, <1>6

LEMMA MountFits ==
  ASSUME NEW ns, NEW v, NEW c, dirs \subseteq Paths, Fit(ns)
  PROVE  /\ Fit(Mount(ns, v, c))
         /\ DOMAIN ns \subseteq DOMAIN Mount(ns, v, c)
         /\ \A p \in DOMAIN ns : Mount(ns, v, c)[p] = ns[p]
         /\ Kept(ns, c) => Kept(Mount(ns, v, c), c)
  <1> DEFINE shown == UNION {ns[p].children : p \in {x \in DOMAIN ns : ns[x].open}}
             fresh == {q \in shown \ Unknown : q \notin DOMAIN ns}
             ms == Mount(ns, v, c)
  <1>1. ms = [q \in DOMAIN ns \cup fresh |-> IF q \in fresh THEN NewNode(q, v, c) ELSE ns[q]]
    BY DEF Mount
  <1>2. \A q \in DOMAIN ns : q \notin fresh OBVIOUS
  <1> HIDE DEF shown, fresh, ms
  <1>3. DOMAIN ms = DOMAIN ns \cup fresh BY <1>1
  <1>4. \A q \in DOMAIN ns : ms[q] = ns[q] BY <1>1, <1>2
  <1>5. \A q \in fresh : ms[q] = NewNode(q, v, c) BY <1>1
  <1>6. ms = [q \in DOMAIN ms |-> ms[q]] BY <1>1, <1>3
  <1>7. \A q \in DOMAIN ms : NodeFits(ms[q], q)
    <2>1. \A q \in fresh : NodeFits(NewNode(q, v, c), q) BY NewNodeFits
    <2> QED BY <1>3, <1>4, <1>5, <2>1 DEF Fit
  <1>8. fresh \subseteq Paths
    <2>1. \A p \in DOMAIN ns : ns[p].children \subseteq Paths \cup Unknown
      BY DEF Fit, NodeFits, Node, Unknown
    <2> SUFFICES ASSUME NEW q \in fresh PROVE q \in Paths OBVIOUS
    <2>2. PICK kids \in {ns[p].children : p \in {x \in DOMAIN ns : ns[x].open}} :
            q \in kids /\ q \notin Unknown
      BY DEF fresh, shown
    <2>3. PICK p \in DOMAIN ns : kids = ns[p].children BY <2>2
    <2> QED BY <2>1, <2>2, <2>3
  <1>9. Kept(ns, c) => Kept(ms, c) BY <1>3, <1>4, <1>5, NewNodeFits DEF Kept
  <1> QED BY <1>3, <1>4, <1>6, <1>7, <1>8, <1>9 DEF Fit, ms

LEMMA DisposeFits ==
  ASSUME NEW ns, NEW p, Fit(ns)
  PROVE  /\ Fit(Dispose(ns, p))
         /\ DOMAIN Dispose(ns, p) \subseteq DOMAIN ns
         /\ \A q \in DOMAIN Dispose(ns, p) : Dispose(ns, p)[q] = ns[q]
         /\ p \in DOMAIN ns => p \in DOMAIN Dispose(ns, p)
         /\ \A c : Kept(ns, c) => Kept(Dispose(ns, p), c)
  <1> DEFINE ms == Dispose(ns, p)
             D == {x \in DOMAIN ns : ~IsStrictPrefix(p, x)}
  <1>1. ms = [q \in D |-> ns[q]] BY DEF Dispose
  <1>2. p \in DOMAIN ns => p \in D BY DEF IsStrictPrefix
  <1>3. D \subseteq DOMAIN ns OBVIOUS
  <1> HIDE DEF ms, D
  <1>4. DOMAIN ms = D /\ \A q \in D : ms[q] = ns[q] BY <1>1
  <1>5. ms = [q \in DOMAIN ms |-> ms[q]] BY <1>1, <1>4
  <1>6. Fit(ms) BY <1>3, <1>4, <1>5 DEF Fit
  <1>7. \A c : Kept(ns, c) => Kept(ms, c) BY <1>3, <1>4 DEF Kept
  <1> QED BY <1>2, <1>3, <1>4, <1>6, <1>7 DEF ms

\* One node is changed.
LEMMA ChangeFits ==
  ASSUME NEW ns, NEW p, NEW n, Fit(ns), NodeFits(n, p)
  PROVE  /\ Fit([ns EXCEPT ![p] = n])
         /\ \A c : (Kept(ns, c) \/ c = p) /\ (c = p => Ready(n)) => Kept([ns EXCEPT ![p] = n], c)
  <1> DEFINE ms == [ns EXCEPT ![p] = n]
  <1>1. DOMAIN ms = DOMAIN ns OBVIOUS
  <1>2. \A q \in DOMAIN ns : ms[q] = IF q = p THEN n ELSE ns[q] OBVIOUS
  <1>3. ms = [q \in DOMAIN ms |-> ms[q]] OBVIOUS
  <1> HIDE DEF ms
  <1>4. \A q \in DOMAIN ms : NodeFits(ms[q], q) BY <1>1, <1>2 DEF Fit
  <1>5. DOMAIN ns \subseteq Paths BY DEF Fit
  <1>6. Fit(ms) BY <1>1, <1>3, <1>4, <1>5 DEF Fit
  <1>7. \A c : (Kept(ns, c) \/ c = p) /\ (c = p => Ready(n)) => Kept(ms, c)
    BY <1>1, <1>2 DEF Kept
  <1> QED BY <1>6, <1>7 DEF ms

\* Closing: also a node that was not ready, if an input is to be shown in it.
LEMMA CloseFits ==
  ASSUME NEW ns, NEW p, NEW v, NEW c, dirs \subseteq Paths, Fit(ns), p \in DOMAIN ns
  PROVE  /\ Fit(Close(ns, p, v, c)) /\ p \in DOMAIN Close(ns, p, v, c)
         /\ Kept(ns, c) \/ c = p => Kept(Close(ns, p, v, c), c)
  <1> DEFINE shut == [ns[p] EXCEPT !.open = FALSE]
             ns1 == [ns EXCEPT ![p] = shut]
             ds == Dispose(ns1, p)
             es == [ds EXCEPT ![p] = ForInput(@, p)]
             ms == Mount(es, v, c)
  <1>0. NodeFits(ns[p], p) BY DEF Fit
  <1>1. NodeFits(shut, p)
    <2>1. shut \in Node BY <1>0 DEF NodeFits, Node
    <2>2. /\ shut.made = ns[p].made /\ shut.loads = ns[p].loads
          /\ shut.children = ns[p].children /\ shut.last = ns[p].last
      BY <1>0 DEF NodeFits, Node
    <2> HIDE DEF shut
    <2> QED BY <1>0, <2>1, <2>2 DEF NodeFits, Lists
  <1>2. p \in DOMAIN ns1 OBVIOUS
  <1>3. Close(ns, p, v, c) = IF c = p THEN ms ELSE ds BY DEF Close
  <1> HIDE DEF shut
  <1>4. Fit(ns1) /\ (Kept(ns, c) /\ c # p => Kept(ns1, c)) BY <1>1, ChangeFits
  <1> HIDE DEF ns1
  <1>5. Fit(ds) /\ p \in DOMAIN ds /\ (Kept(ns, c) /\ c # p => Kept(ds, c))
    BY <1>2, <1>4, DisposeFits
  <1>6. es = [ds EXCEPT ![p] = ForInput(ds[p], p)] OBVIOUS
  <1>7. DOMAIN es = DOMAIN ds OBVIOUS
  <1> HIDE DEF ds
  <1>8. NodeFits(ForInput(ds[p], p), p) /\ Ready(ForInput(ds[p], p))
    <2>1. NodeFits(ds[p], p) BY <1>5 DEF Fit
    <2> QED BY <2>1, ForInputFits
  <1>9. Fit(es) /\ (c = p => Kept(es, c)) BY <1>5, <1>6, <1>8, ChangeFits
  <1> HIDE DEF es
  <1>10. Fit(ms) /\ p \in DOMAIN ms /\ (c = p => Kept(ms, c)) BY <1>5, <1>7, <1>9, MountFits
  <1> QED BY <1>3, <1>5, <1>10

LEMMA ToggleFits ==
  ASSUME NEW ns, NEW p, NEW v, NEW c, dirs \subseteq Paths, Fit(ns), p \in DOMAIN ns
  PROVE  /\ Fit(Toggle(ns, p, v, c)) /\ p \in DOMAIN Toggle(ns, p, v, c)
         /\ Kept(ns, c) => Kept(Toggle(ns, p, v, c), c)
  <1> DEFINE shown == [ns[p] EXCEPT !.open = TRUE]
             ns1 == [ns EXCEPT ![p] = shown]
             ms == Mount(ns1, v, c)
  <1>1. NodeFits(ns[p], p) BY DEF Fit
  <1>2. NodeFits(shown, p) /\ (Ready(ns[p]) => Ready(shown))
    <2>1. shown \in Node BY <1>1 DEF NodeFits, Node
    <2>2. /\ shown.made = ns[p].made /\ shown.loads = ns[p].loads
          /\ shown.children = ns[p].children /\ shown.last = ns[p].last
          /\ shown.isLoaded = ns[p].isLoaded /\ shown.open = TRUE
      BY <1>1 DEF NodeFits, Node
    <2> HIDE DEF shown
    <2> QED BY <1>1, <2>1, <2>2 DEF NodeFits, Lists, Ready
  <1>3. p \in DOMAIN ns1 OBVIOUS
  <1>4. Toggle(ns, p, v, c) = IF ns[p].open THEN Close(ns, p, v, c) ELSE ms BY DEF Toggle
  <1> HIDE DEF shown
  <1>5. Fit(ns1) /\ (Kept(ns, c) => Kept(ns1, c)) BY <1>2, ChangeFits DEF Kept
  <1> HIDE DEF ns1
  <1>6. Fit(ms) /\ p \in DOMAIN ms /\ (Kept(ns, c) => Kept(ms, c)) BY <1>3, <1>5, MountFits
  <1> QED BY <1>4, <1>6, CloseFits

LEMMA FollowFits ==
  ASSUME NEW ns, NEW v, NEW c, dirs \subseteq Paths, Fit(ns)
  PROVE  /\ Fit(Follow(ns, v, c)) /\ DOMAIN ns \subseteq DOMAIN Follow(ns, v, c)
         /\ Kept(ns, c) => Kept(Follow(ns, v, c), c)
  <1> DEFINE ms == [p \in DOMAIN ns |-> IF IsPrefix(p, v) THEN Opening(ns[p], p) ELSE ns[p]]
  <1>1. DOMAIN ms = DOMAIN ns OBVIOUS
  <1>2. ms = [p \in DOMAIN ms |-> ms[p]] OBVIOUS
  <1>3. \A p \in DOMAIN ns : ms[p] = IF IsPrefix(p, v) THEN Opening(ns[p], p) ELSE ns[p]
    OBVIOUS
  <1>4. Follow(ns, v, c) = IF v = path THEN ns ELSE Mount(ms, v, c) BY DEF Follow
  <1> HIDE DEF ms
  <1>5. \A p \in DOMAIN ns : /\ NodeFits(ns[p], p) /\ NodeFits(Opening(ns[p], p), p)
                            /\ Ready(Opening(ns[p], p))
    BY OpeningFits DEF Fit
  <1>6. Fit(ms) BY <1>1, <1>2, <1>3, <1>5 DEF Fit
  <1>8. Kept(ns, c) => Kept(ms, c) BY <1>1, <1>3, <1>5 DEF Kept
  <1>7. /\ Fit(Mount(ms, v, c)) /\ DOMAIN ms \subseteq DOMAIN Mount(ms, v, c)
        /\ Kept(ns, c) => Kept(Mount(ms, v, c), c)
    BY <1>6, <1>8, MountFits
  <1> QED BY <1>1, <1>4, <1>7

LEMMA FrontOfAppend ==
  ASSUME NEW p \in Paths, NEW e
  PROVE  Append(p, e) # Root /\ Front(Append(p, e)) = p
  <1> DEFINE S == Range(p) \cup {e}
             q == Append(p, e)
  <1>0. p \in Seq(Range(p)) BY TreeAssumption
  <1>1. p \in Seq(S) BY <1>0, SeqMonotonic
  <1>2. e \in S OBVIOUS
  <1> HIDE DEF S
  <1>3. /\ q \in Seq(S) /\ q # << >> /\ Len(q) = Len(p) + 1
        /\ \A i \in 1 .. Len(p) : q[i] = p[i]
    BY <1>1, <1>2, AppendProperties
  <1>4. Len(p) \in Nat BY <1>1, LenProperties
  <1>5. \A i \in 1 .. Len(p) : q[i] \in S BY <1>3, <1>4, ElementOfSeq
  <1>6. /\ SubSeq(q, 1, Len(p)) \in Seq(S)
        /\ Len(SubSeq(q, 1, Len(p))) = Len(p)
        /\ \A i \in 1 .. Len(p) : SubSeq(q, 1, Len(p))[i] = q[i]
    <2>1. /\ SubSeq(q, 1, Len(p)) \in Seq(S)
          /\ Len(SubSeq(q, 1, Len(p))) = IF 1 <= Len(p) THEN Len(p) - 1 + 1 ELSE 0
          /\ \A i \in 1 .. Len(p) - 1 + 1 : SubSeq(q, 1, Len(p))[i] = q[1 + i - 1]
      BY <1>4, <1>5, SubSeqProperties
    <2> QED BY <1>4, <2>1
  <1>7. SubSeq(q, 1, Len(p)) = p BY <1>1, <1>3, <1>6, SeqEqual
  <1>8. Front(q) = SubSeq(q, 1, Len(p)) BY <1>3, <1>4 DEF Front
  <1> QED BY <1>3, <1>7, <1>8 DEF Root

\* The answers that are left: if it was not the last, the last is still there.
LEMMA Remaining ==
  ASSUME NEW S, NEW s \in Seq(S), NEW i \in DOMAIN s
  PROVE  /\ RemoveAt(s, i) \in Seq(S)
         /\ i # Len(s) => /\ RemoveAt(s, i) # <<>>
                          /\ RemoveAt(s, i)[Len(RemoveAt(s, i))] = s[Len(s)]
  <1> DEFINE n == Len(s)
             a == SubSeq(s, 1, i - 1)
             b == SubSeq(s, i + 1, n)
  <1>1. n \in Nat /\ i \in 1 .. n /\ i \in Nat /\ \A j \in 1 .. n : s[j] \in S
    BY LenProperties, ElementOfSeq
  <1>2. a \in Seq(S) /\ Len(a) = i - 1
    <2>1. \A j \in 1 .. i - 1 : s[j] \in S BY <1>1
    <2>2. a \in Seq(S) /\ Len(a) = IF 1 <= i - 1 THEN i - 1 - 1 + 1 ELSE 0
      BY <1>1, <2>1, SubSeqProperties
    <2> QED BY <1>1, <2>2
  <1>3. /\ b \in Seq(S) /\ Len(b) = n - i
        /\ \A j \in 1 .. n - i : b[j] = s[i + j]
    <2>1. \A j \in i + 1 .. n : s[j] \in S BY <1>1
    <2>2. /\ b \in Seq(S) /\ Len(b) = IF i + 1 <= n THEN n - (i + 1) + 1 ELSE 0
          /\ \A j \in 1 .. n - (i + 1) + 1 : b[j] = s[i + 1 + j - 1]
      BY <1>1, <2>1, SubSeqProperties
    <2> QED BY <1>1, <2>2
  <1>4. RemoveAt(s, i) = a \o b BY DEF RemoveAt
  <1> HIDE DEF a, b
  <1>5. /\ a \o b \in Seq(S) /\ Len(a \o b) = n - 1
        /\ \A j \in 1 .. n - i : (a \o b)[i - 1 + j] = b[j]
    <2>1. /\ a \o b \in Seq(S) /\ Len(a \o b) = Len(a) + Len(b)
          /\ \A j \in 1 .. Len(a) + Len(b) :
               (a \o b)[j] = IF j <= Len(a) THEN a[j] ELSE b[j - Len(a)]
      BY <1>2, <1>3, ConcatProperties
    <2> QED BY <1>1, <1>2, <1>3, <2>1
  <1>6. ASSUME i # n PROVE a \o b # <<>> /\ (a \o b)[Len(a \o b)] = s[n]
    <2>1. n - i \in 1 .. n - i /\ i - 1 + (n - i) = n - 1 /\ i + (n - i) = n
      BY <1>1, <1>6
    <2>2. (a \o b)[n - 1] = s[n] BY <1>3, <1>5, <2>1
    <2>3. n - 1 # 0 BY <1>1, <1>6
    <2>4. a \o b # <<>> BY <1>5, <2>3, EmptySeq
    <2> QED BY <1>5, <2>2, <2>4
  <1> QED BY <1>4, <1>5, <1>6

\* What becomes of a node's last listing when one of its answers is taken out.
LEMMA LeftFits ==
  ASSUME NEW n, NEW p, NEW i \in DOMAIN n.loads, NodeFits(n, p)
  PROVE  /\ n.loads \in Seq(SUBSET Paths) /\ RemoveAt(n.loads, i) \in Seq(SUBSET Paths)
         /\ n.loads[i] \in SUBSET Paths
         /\ AwaitedLast(n, i) => n.made \subseteq n.loads[i]
         /\ n.last = "awaited" /\ ~AwaitedLast(n, i) =>
              LET rest == RemoveAt(n.loads, i) IN rest # <<>> /\ n.made \subseteq rest[Len(rest)]
  <1>1. n.loads \in Seq(SUBSET Paths) BY DEF NodeFits, Node
  <1> DEFINE rest == RemoveAt(n.loads, i)
  <1>2. /\ rest \in Seq(SUBSET Paths)
        /\ i # Len(n.loads) => rest # <<>> /\ rest[Len(rest)] = n.loads[Len(n.loads)]
    BY <1>1, Remaining
  <1>3. n.loads[i] \in SUBSET Paths BY <1>1, ElementOfSeq, LenProperties
  <1> HIDE DEF rest
  <1>4. n.last = "awaited" => n.made \subseteq n.loads[Len(n.loads)] BY DEF NodeFits, Lists
  <1>5. AwaitedLast(n, i) => n.last = "awaited" /\ i = Len(n.loads) BY DEF AwaitedLast
  <1>6. n.last = "awaited" /\ ~AwaitedLast(n, i) => i # Len(n.loads) BY DEF AwaitedLast
  <1> QED BY <1>1, <1>2, <1>3, <1>4, <1>5, <1>6 DEF rest

\* A node after one of its answers: told of children, or of a failure.
LEMMA AnsweredFits ==
  ASSUME NEW n, NEW p, NEW i \in DOMAIN n.loads, NEW children,
         dirs \subseteq Paths, NodeFits(n, p),
         children \in {n.loads[i], ChildrenIn(dirs, p)}
  PROVE  LET m == [n EXCEPT !.isLoaded = TRUE, !.children = children, !.loading = FALSE,
                            !.loads = RemoveAt(@, i),
                            !.last = IF AwaitedLast(n, i) THEN "shown"
                                     ELSE IF @ = "shown" THEN "lost" ELSE @]
         IN  NodeFits(m, p) /\ (n.open => Ready(m))
  <1> DEFINE l == IF AwaitedLast(n, i) THEN "shown"
                  ELSE IF n.last = "shown" THEN "lost" ELSE n.last
             rest == RemoveAt(n.loads, i)
             m == [n EXCEPT !.isLoaded = TRUE, !.children = children, !.loading = FALSE,
                            !.loads = rest, !.last = l]
  <1>1. n \in Node /\ n.made \subseteq ChildrenIn(dirs, p) /\ Lists(n) BY DEF NodeFits
  <1>2. /\ rest \in Seq(SUBSET Paths) /\ n.loads[i] \in SUBSET Paths
        /\ AwaitedLast(n, i) => n.made \subseteq n.loads[i]
        /\ n.last = "awaited" /\ ~AwaitedLast(n, i) =>
             rest # <<>> /\ n.made \subseteq rest[Len(rest)]
    BY LeftFits
  <1>3. children \in SUBSET (Paths \cup {Nowhere}) BY <1>2 DEF ChildrenIn
  <1>4. l \in {"awaited", "shown", "lost"} BY <1>1 DEF Node
  <1>5. /\ l = "shown" => n.made \subseteq children
        /\ l = "awaited" => rest # <<>> /\ n.made \subseteq rest[Len(rest)]
    <2>1. l = "shown" => AwaitedLast(n, i) OBVIOUS
    <2>2. l = "awaited" => n.last = "awaited" /\ ~AwaitedLast(n, i) OBVIOUS
    <2> QED BY <1>1, <1>2, <2>1, <2>2
  <1> HIDE DEF l, rest
  <1>6. /\ m \in Node /\ m.made = n.made /\ m.children = children /\ m.loads = rest
        /\ m.open = n.open /\ m.last = l /\ m.isLoaded = TRUE
    BY <1>1, <1>2, <1>3, <1>4 DEF Node
  <1> HIDE DEF m
  <1>7. NodeFits(m, p) /\ (n.open => Ready(m)) BY <1>1, <1>5, <1>6 DEF NodeFits, Lists, Ready
  <1> QED BY <1>7 DEF m, l, rest

LEMMA FailedFits ==
  ASSUME NEW n, NEW p, NEW i \in DOMAIN n.loads, NodeFits(n, p)
  PROVE  NodeFits([n EXCEPT !.loading = FALSE, !.loads = RemoveAt(@, i),
                            !.last = IF AwaitedLast(n, i) THEN "lost" ELSE @], p)
  <1> DEFINE l == IF AwaitedLast(n, i) THEN "lost" ELSE n.last
             rest == RemoveAt(n.loads, i)
             m == [n EXCEPT !.loading = FALSE, !.loads = rest, !.last = l]
  <1>1. n \in Node /\ n.made \subseteq ChildrenIn(dirs, p) /\ Lists(n) BY DEF NodeFits
  <1>2. /\ rest \in Seq(SUBSET Paths)
        /\ n.last = "awaited" /\ ~AwaitedLast(n, i) =>
             rest # <<>> /\ n.made \subseteq rest[Len(rest)]
    BY LeftFits
  <1>3. l \in {"awaited", "shown", "lost"} BY <1>1 DEF Node
  <1>4. /\ l = "shown" => n.last = "shown"
        /\ l = "awaited" => rest # <<>> /\ n.made \subseteq rest[Len(rest)]
    BY <1>2
  <1> HIDE DEF l, rest
  <1>5. /\ m \in Node /\ m.made = n.made /\ m.children = n.children /\ m.loads = rest
        /\ m.last = l
    BY <1>1, <1>2, <1>3 DEF Node
  <1> HIDE DEF m
  <1>6. NodeFits(m, p) BY <1>1, <1>4, <1>5 DEF NodeFits, Lists
  <1> QED BY <1>6 DEF m, l, rest

Mkdir == [id : Int, parent : Paths, state : {"sent", "made", "refused"},
          tree : BOOLEAN, live : BOOLEAN, input : BOOLEAN]

\* A directory whose making has been confirmed is there.
AskFits(m) ==
  /\ m \in Mkdir /\ Append(m.parent, NewName) \in Paths
  /\ m.state = "made" => Append(m.parent, NewName) \in dirs

TreeInv ==
  dirs \subseteq Paths /\ Fit(nodes) /\ Kept(nodes, creating) /\ \A m \in mkdirs : AskFits(m)

\* What is told of a request about its tree, its node and its input changes
\* nothing of what it does.
LEMMA FlagsFit ==
  ASSUME NEW m, AskFits(m), NEW tree \in BOOLEAN, NEW live \in BOOLEAN, NEW input \in BOOLEAN
  PROVE  AskFits([m EXCEPT !.tree = tree, !.live = live, !.input = input])
  <1> DEFINE o == [m EXCEPT !.tree = tree, !.live = live, !.input = input]
  <1>1. m \in Mkdir BY DEF AskFits
  <1>2. o.parent = m.parent /\ o.state = m.state /\ o \in Mkdir BY <1>1 DEF Mkdir
  <1> HIDE DEF o
  <1>3. AskFits(o) BY <1>2 DEF AskFits
  <1> QED BY <1>3 DEF o

LEMMA WithoutInputFits ==
  ASSUME NEW ms, \A m \in ms : AskFits(m)
  PROVE  \A m \in WithoutInput(ms) : AskFits(m)
  <1> SUFFICES ASSUME NEW m \in ms PROVE AskFits([m EXCEPT !.input = FALSE])
    BY DEF WithoutInput
  <1>1. m \in Mkdir /\ m.tree \in BOOLEAN /\ m.live \in BOOLEAN BY DEF AskFits, Mkdir
  <1>2. AskFits([m EXCEPT !.tree = m.tree, !.live = m.live, !.input = FALSE]) BY <1>1, FlagsFit
  <1>3. [m EXCEPT !.tree = m.tree, !.live = m.live, !.input = FALSE] = [m EXCEPT !.input = FALSE]
    BY <1>1 DEF Mkdir
  <1> QED BY <1>2, <1>3

LEMMA OrphanFits ==
  ASSUME NEW p, \A m \in mkdirs : AskFits(m)
  PROVE  /\ \A m \in Orphan(p) : AskFits(m)
         /\ \A m \in OrphanAtClose(p) : AskFits(m)
  <1>1. ASSUME NEW m \in mkdirs
        PROVE  AskFits([m EXCEPT !.live = @ /\ ~IsStrictPrefix(p, m.parent),
                                 !.input = @ /\ ~IsStrictPrefix(p, m.parent)])
    <2> DEFINE a == m.live /\ ~IsStrictPrefix(p, m.parent)
               b == m.input /\ ~IsStrictPrefix(p, m.parent)
    <2>1. m \in Mkdir /\ m.tree \in BOOLEAN BY <1>1 DEF AskFits, Mkdir
    <2>2. a \in BOOLEAN /\ b \in BOOLEAN OBVIOUS
    <2> HIDE DEF a, b
    <2>3. AskFits([m EXCEPT !.tree = m.tree, !.live = a, !.input = b])
      BY <1>1, <2>1, <2>2, FlagsFit
    <2>4. [m EXCEPT !.tree = m.tree, !.live = a, !.input = b] = [m EXCEPT !.live = a, !.input = b]
      BY <2>1 DEF Mkdir
    <2> QED BY <2>3, <2>4 DEF a, b
  <1>2. \A m \in Orphan(p) : AskFits(m) BY <1>1 DEF Orphan
  <1>3. ASSUME NEW m \in Orphan(p) PROVE AskFits([m EXCEPT !.input = @ /\ m.parent # p])
    <2> DEFINE b == m.input /\ m.parent # p
    <2>1. AskFits(m) /\ m \in Mkdir /\ m.tree \in BOOLEAN /\ m.live \in BOOLEAN
      BY <1>2, <1>3 DEF AskFits, Mkdir
    <2>2. b \in BOOLEAN OBVIOUS
    <2> HIDE DEF b
    <2>3. AskFits([m EXCEPT !.tree = m.tree, !.live = m.live, !.input = b])
      BY <2>1, <2>2, FlagsFit
    <2>4. [m EXCEPT !.tree = m.tree, !.live = m.live, !.input = b] = [m EXCEPT !.input = b]
      BY <2>1 DEF Mkdir
    <2> QED BY <2>3, <2>4 DEF b
  <1> QED BY <1>2, <1>3 DEF OrphanAtClose

LEMMA AfterAnswerFits ==
  ASSUME NEW m, \A q \in mkdirs : AskFits(q)
  PROVE  \A q \in AfterAnswer(m) : AskFits(q)
  <1>1. \A q \in mkdirs \ {m} : AskFits(q) OBVIOUS
  <1> QED BY <1>1, WithoutInputFits DEF AfterAnswer

\* More directories on the server change nothing.
LEMMA GrowingFits ==
  ASSUME dirs \subseteq dirs'
  PROVE  /\ \A n, p : NodeFits(n, p) => NodeFits(n, p)'
         /\ \A ns : Fit(ns) => Fit(ns)'
         /\ \A m : AskFits(m) => AskFits(m)'
  <1>1. \A p : ChildrenIn(dirs, p) \subseteq ChildrenIn(dirs', p) BY DEF ChildrenIn
  <1>2. \A n, p : NodeFits(n, p) => NodeFits(n, p)' BY <1>1 DEF NodeFits, Lists
  <1>3. \A ns : Fit(ns) => Fit(ns)' BY <1>2 DEF Fit
  <1>4. \A m : AskFits(m) => AskFits(m)' BY DEF AskFits
  <1> QED BY <1>2, <1>3, <1>4

\* A step that leaves the directories and puts a fitting tree.
LEMMA TreeStep ==
  ASSUME NEW ns, dirs' = dirs, nodes' = ns, Fit(ns)
  PROVE  Fit(nodes)'
  <1>1. ns = [p \in DOMAIN ns |-> ns[p]] /\ DOMAIN ns \subseteq Paths BY DEF Fit
  <1>2. \A p \in DOMAIN ns :
          ns[p] \in Node /\ ns[p].made \subseteq ChildrenIn(dirs, p) /\ Lists(ns[p])
    BY DEF Fit, NodeFits
  <1>3. nodes' = [p \in DOMAIN nodes' |-> nodes'[p]] BY <1>1
  <1>4. \A p \in DOMAIN nodes' :
          nodes'[p] \in Node /\ nodes'[p].made \subseteq ChildrenIn(dirs', p) /\ Lists(nodes'[p])
    BY <1>2
  <1>5. DOMAIN nodes' \subseteq Paths BY <1>1
  <1> QED BY <1>3, <1>4, <1>5 DEF Fit, NodeFits

\* A step that leaves the directories: what is to be shown of it.
LEMMA NowhereIsNoPath == Nowhere \notin Paths BY TreeAssumption DEF Nowhere

LEMMA QuietStep ==
  ASSUME TreeInv, NEW ns, dirs' = dirs, nodes' = ns, Fit(ns),
         NEW c, creating' = c, Kept(ns, c), \A m \in mkdirs' : AskFits(m)
  PROVE  TreeInv'
  <1>1. dirs' \subseteq Paths BY DEF TreeInv
  <1>2. Fit(nodes)' BY TreeStep
  <1>3. (\A m \in mkdirs : AskFits(m))' BY DEF AskFits
  <1>4. Kept(nodes, creating)' BY DEF Kept, Ready
  <1> QED BY <1>1, <1>2, <1>3, <1>4 DEF TreeInv

\* A step that leaves the nodes as well, and the input or ends it.
LEMMA StillStep ==
  ASSUME TreeInv, dirs' = dirs, nodes' = nodes, creating' = creating \/ creating' = Nowhere,
         \A m \in mkdirs' : AskFits(m)
  PROVE  TreeInv'
  <1>1. PICK ns : ns = nodes OBVIOUS
  <1>2. PICK c : c = creating' OBVIOUS
  <1>3. Fit(ns) /\ DOMAIN ns \subseteq Paths BY <1>1 DEF TreeInv, Fit
  <1>4. Kept(ns, c) BY <1>1, <1>2, <1>3, NowhereIsNoPath DEF TreeInv, Kept
  <1> QED BY <1>1, <1>2, <1>3, <1>4, QuietStep

LEMMA InitFits == TreeInit => TreeInv
  <1> SUFFICES ASSUME TreeInit PROVE TreeInv OBVIOUS
  <1>1. dirs \subseteq Paths BY TreeAssumption DEF TreeInit
  <1>2. DOMAIN nodes = {} BY DEF TreeInit
  <1>3. nodes = [p \in DOMAIN nodes |-> nodes[p]] BY <1>2 DEF TreeInit
  <1>4. Fit(nodes) BY <1>2, <1>3 DEF Fit
  <1>5. Kept(nodes, creating) BY <1>2 DEF Kept
  <1> QED BY <1>1, <1>4, <1>5 DEF TreeInv, TreeInit

LEMMA OpenTreeFits == ASSUME TreeInv, OpenTree PROVE TreeInv'
  <1>0. dirs \subseteq Paths /\ Root \in Paths BY TreeAssumption DEF TreeInv, Root
  <1> DEFINE n == NewNode(Root, value, Nowhere)
  <1>1. NodeFits(n, Root) BY <1>0, NewNodeFits
  <1>2. PICK x \in {n, Load(n, Root)} : nodes' = [p \in {Root} |-> x]
    BY DEF OpenTree
  <1> HIDE DEF n
  <1>3. NodeFits(Load(n, Root), Root) BY <1>0, <1>1, LoadFits DEF NodeFits
  <1>4. NodeFits(x, Root) BY <1>1, <1>3
  <1> DEFINE ns == [p \in {Root} |-> x]
  <1>5. DOMAIN ns = {Root} /\ ns[Root] = x /\ ns = [p \in DOMAIN ns |-> ns[p]] OBVIOUS
  <1>6. nodes' = ns BY <1>2
  <1> HIDE DEF ns
  <1>7. Fit(ns) BY <1>0, <1>4, <1>5 DEF Fit
  <1>8. dirs' = dirs /\ mkdirs' = mkdirs /\ creating' = Nowhere BY DEF OpenTree
  <1>9. \A m \in mkdirs' : AskFits(m) BY <1>8 DEF TreeInv
  <1>10. Kept(ns, Nowhere) BY <1>0, <1>5, NowhereIsNoPath DEF Kept
  <1> QED BY <1>6, <1>7, <1>8, <1>9, <1>10, QuietStep

LEMMA CloseTreeFits == ASSUME TreeInv, CloseTree PROVE TreeInv'
  <1> DEFINE ns == <<>>
  <1>1. DOMAIN ns = {} /\ ns = [p \in DOMAIN ns |-> ns[p]] OBVIOUS
  <1>2. nodes' = ns /\ dirs' = dirs /\ creating' = Nowhere BY DEF CloseTree
  <1> HIDE DEF ns
  <1>3. Fit(ns) /\ Kept(ns, Nowhere) BY <1>1 DEF Fit, Kept
  <1>4. \A m \in mkdirs' : AskFits(m)
    <2>1. \A m \in mkdirs : AskFits([m EXCEPT !.tree = FALSE, !.live = FALSE, !.input = FALSE])
      BY FlagsFit DEF TreeInv
    <2> QED BY <2>1 DEF CloseTree
  <1> QED BY <1>2, <1>3, <1>4, QuietStep

LEMMA ClickNameFits ==
  ASSUME TreeInv, NEW p \in DOMAIN nodes, ClickName(p) PROVE TreeInv'
  <1> DEFINE ns == Follow(nodes, p, creating)
  <1>1. Fit(ns) /\ Kept(ns, creating) BY FollowFits DEF TreeInv
  <1>2. nodes' = ns /\ dirs' = dirs /\ mkdirs' = mkdirs /\ creating' = creating BY DEF ClickName
  <1> HIDE DEF ns
  <1>3. \A m \in mkdirs' : AskFits(m) BY <1>2 DEF TreeInv
  <1>4. PICK c : c = creating OBVIOUS
  <1> QED BY <1>1, <1>2, <1>3, <1>4, QuietStep

\* A mounted node asks for its directories.
LEMMA ReloadFits ==
  ASSUME NEW ns, NEW p \in DOMAIN ns, dirs \subseteq Paths, Fit(ns)
  PROVE  /\ Fit([ns EXCEPT ![p] = Load(@, p)])
         /\ \A c : Kept(ns, c) => Kept([ns EXCEPT ![p] = Load(@, p)], c)
  <1>1. NodeFits(ns[p], p) BY DEF Fit
  <1>2. NodeFits(Load(ns[p], p), p) /\ (Ready(ns[p]) => Ready(Load(ns[p], p)))
    BY <1>1, LoadFits DEF NodeFits, Ready
  <1>3. [ns EXCEPT ![p] = Load(@, p)] = [ns EXCEPT ![p] = Load(ns[p], p)] OBVIOUS
  <1> QED BY <1>2, <1>3, ChangeFits DEF Kept

LEMMA ClickArrowFits ==
  ASSUME TreeInv, NEW p \in DOMAIN nodes, ClickArrow(p) PROVE TreeInv'
  <1> DEFINE fs == Follow(nodes, p, creating)
             ns == Toggle(fs, p, p, creating)
             ls == [ns EXCEPT ![p] = Load(@, p)]
  <1>1. Fit(fs) /\ p \in DOMAIN fs /\ Kept(fs, creating) BY FollowFits DEF TreeInv
  <1>2. Fit(ns) /\ p \in DOMAIN ns /\ Kept(ns, creating)
    <2> HIDE DEF fs
    <2> QED BY <1>1, ToggleFits DEF TreeInv
  <1>3. /\ nodes' = IF ns[p].open /\ ns[p].children \in {{}, Unknown} THEN ls ELSE ns
        /\ mkdirs' = (IF fs[p].open THEN OrphanAtClose(p) ELSE mkdirs)
        /\ dirs' = dirs /\ creating' = creating
    BY DEF ClickArrow
  <1> HIDE DEF ns
  <1>4. Fit(ls) /\ Kept(ls, creating) BY <1>2, ReloadFits DEF TreeInv
  <1>5. PICK ms \in {ns, ls} : nodes' = ms BY <1>3
  <1> HIDE DEF ls, fs
  <1>6. Fit(ms) /\ Kept(ms, creating) BY <1>2, <1>4
  <1>7. \A m \in mkdirs' : AskFits(m) BY <1>3, OrphanFits DEF TreeInv
  <1>8. PICK c : c = creating OBVIOUS
  <1> QED BY <1>3, <1>5, <1>6, <1>7, <1>8, QuietStep

LEMMA StartCreateFolderFits == ASSUME TreeInv, StartCreateFolder PROVE TreeInv'
  <1> DEFINE os == [nodes EXCEPT ![path] = ForInput(@, path)]
             ms == Mount(os, path, path)
  <1>1. /\ nodes' = IF path \in DOMAIN nodes THEN ms ELSE nodes
        /\ dirs' = dirs /\ mkdirs' = WithoutInput(mkdirs) /\ creating' = path
    BY DEF StartCreateFolder
  <1>2. \A m \in mkdirs' : AskFits(m) BY <1>1, WithoutInputFits DEF TreeInv
  <1>3. CASE path \in DOMAIN nodes
    <2>1. NodeFits(nodes[path], path) BY <1>3 DEF TreeInv, Fit
    <2>2. NodeFits(ForInput(nodes[path], path), path) /\ Ready(ForInput(nodes[path], path))
      BY <2>1, ForInputFits DEF TreeInv
    <2>3. os = [nodes EXCEPT ![path] = ForInput(nodes[path], path)] OBVIOUS
    <2>4. Fit(os) /\ Kept(os, path) BY <2>2, <2>3, ChangeFits DEF TreeInv
    <2> HIDE DEF os
    <2>5. Fit(ms) /\ Kept(ms, path) BY <2>4, MountFits DEF TreeInv
    <2> HIDE DEF ms
    <2>6. PICK c : c = path OBVIOUS
    <2> QED BY <1>1, <1>2, <1>3, <2>5, <2>6, QuietStep
  <1>4. CASE path \notin DOMAIN nodes
    <2>1. Fit(nodes) /\ Kept(nodes, path) BY <1>4 DEF TreeInv, Kept
    <2>2. PICK ns : ns = nodes OBVIOUS
    <2>3. PICK c : c = path OBVIOUS
    <2> QED BY <1>1, <1>2, <1>4, <2>1, <2>2, <2>3, QuietStep
  <1> QED BY <1>3, <1>4

LEMMA CancelCreateFolderFits == ASSUME TreeInv, CancelCreateFolder PROVE TreeInv'
  <1>1. /\ nodes' = nodes /\ dirs' = dirs /\ mkdirs' = WithoutInput(mkdirs)
        /\ creating' = Nowhere
    BY DEF CancelCreateFolder
  <1>2. \A m \in mkdirs' : AskFits(m) BY <1>1, WithoutInputFits DEF TreeInv
  <1> QED BY <1>1, <1>2, StillStep

LEMMA SubmitFolderFits == ASSUME TreeInv, SubmitFolder PROVE TreeInv'
  <1>1. nodes' = nodes /\ dirs' = dirs /\ creating' = creating BY DEF SubmitFolder
  <1>2. PICK i \in 1 .. MaxMkdirs :
          mkdirs' = mkdirs \cup {[id |-> i, parent |-> creating, state |-> "sent",
                                 tree |-> TRUE, live |-> TRUE, input |-> TRUE]}
    BY DEF SubmitFolder
  <1> DEFINE a == [id |-> i, parent |-> creating, state |-> "sent",
                   tree |-> TRUE, live |-> TRUE, input |-> TRUE]
  <1>3. creating \in DOMAIN nodes /\ Append(creating, NewName) \in Paths
    BY DEF SubmitFolder, InputShown
  <1>4. creating \in Paths BY <1>3 DEF TreeInv, Fit
  <1>5. a \in Mkdir /\ a.parent = creating /\ a.state = "sent" BY <1>4 DEF Mkdir
  <1>6. mkdirs' = mkdirs \cup {a} BY <1>2
  <1> HIDE DEF a
  <1>7. AskFits(a) BY <1>3, <1>5 DEF AskFits
  <1>8. \A m \in mkdirs' : AskFits(m) BY <1>6, <1>7 DEF TreeInv
  <1> QED BY <1>1, <1>8, StillStep

LEMMA LoadAnsweredFits ==
  ASSUME TreeInv, NEW p \in DOMAIN nodes, NEW i \in DOMAIN nodes[p].loads, LoadAnswered(p, i)
  PROVE  TreeInv'
  <1>0. dirs \subseteq Paths /\ Fit(nodes) /\ Kept(nodes, creating) BY DEF TreeInv
  <1>1. PICK children \in {nodes[p].loads[i], ChildrenIn(dirs, p)} :
          nodes' = Loaded(p, i, children)
    BY DEF LoadAnswered
  <1> DEFINE ns == Dispose(nodes, p)
             n == [nodes[p] EXCEPT !.isLoaded = TRUE, !.children = children, !.loading = FALSE,
                                !.loads = RemoveAt(@, i),
                                !.last = IF AwaitedLast(nodes[p], i) THEN "shown"
                                         ELSE IF @ = "shown" THEN "lost" ELSE @]
             as == [ns EXCEPT ![p] = n]
             ms == Mount(as, path, creating)
  <1>2. Fit(ns) /\ p \in DOMAIN ns /\ ns[p] = nodes[p] /\ Kept(ns, creating)
    BY <1>0, DisposeFits
  <1>3. as = [ns EXCEPT ![p].isLoaded = TRUE, ![p].children = children, ![p].loading = FALSE,
                        ![p].loads = RemoveAt(@, i),
                        ![p].last = IF AwaitedLast(nodes[p], i) THEN "shown"
                                    ELSE IF @ = "shown" THEN "lost" ELSE @]
    BY <1>2
  <1>4. nodes' = ms BY <1>1, <1>3 DEF Loaded
  <1> HIDE DEF ns
  <1>5. NodeFits(nodes[p], p) BY <1>0 DEF Fit
  <1>6. NodeFits(n, p) /\ (nodes[p].open => Ready(n)) BY <1>0, <1>5, AnsweredFits
  <1> HIDE DEF n
  <1>7. creating = p => Ready(n) BY <1>0, <1>6 DEF Kept, Ready
  <1>8. Fit(as) /\ Kept(as, creating) BY <1>2, <1>6, <1>7, ChangeFits
  <1> HIDE DEF as
  <1>9. Fit(ms) /\ Kept(ms, creating) BY <1>0, <1>8, MountFits
  <1> HIDE DEF ms
  <1>10. dirs' = dirs /\ mkdirs' = Orphan(p) /\ creating' = creating BY DEF LoadAnswered
  <1>11. \A m \in mkdirs' : AskFits(m) BY <1>10, OrphanFits DEF TreeInv
  <1>12. PICK c : c = creating OBVIOUS
  <1> QED BY <1>4, <1>9, <1>10, <1>11, <1>12, QuietStep

\* A listing that fails may leave a node that awaits nothing; if the input is
\* in it, closing has it listed again.
LEMMA LoadFailsFits ==
  ASSUME TreeInv, NEW p \in DOMAIN nodes, NEW i \in DOMAIN nodes[p].loads, LoadFails(p, i)
  PROVE  TreeInv'
  <1>0. dirs \subseteq Paths /\ Fit(nodes) /\ Kept(nodes, creating) BY DEF TreeInv
  <1> DEFINE n == [nodes[p] EXCEPT !.loading = FALSE, !.loads = RemoveAt(@, i),
                                   !.last = IF AwaitedLast(nodes[p], i) THEN "lost" ELSE @]
             ns == [nodes EXCEPT ![p] = n]
             ts == Close(ns, p, path, creating)
  <1>1. ns = [nodes EXCEPT ![p].loading = FALSE, ![p].loads = RemoveAt(@, i),
                           ![p].last = IF AwaitedLast(nodes[p], i) THEN "lost" ELSE @]
    OBVIOUS
  <1>2. /\ nodes' = IF ns[p].open THEN ts ELSE ns
        /\ mkdirs' = (IF ns[p].open THEN OrphanAtClose(p) ELSE mkdirs)
        /\ dirs' = dirs /\ creating' = creating
    BY <1>1 DEF LoadFails
  <1>3. NodeFits(nodes[p], p) BY <1>0 DEF Fit
  <1>4. NodeFits(n, p) BY <1>3, FailedFits
  <1>5. p \in DOMAIN ns /\ ns[p].open = nodes[p].open BY <1>3 DEF NodeFits, Node
  <1> HIDE DEF n
  <1>6. Fit(ns) /\ (creating # p => Kept(ns, creating)) BY <1>0, <1>4, ChangeFits
  <1> HIDE DEF ns
  <1>7. Fit(ts) /\ Kept(ts, creating) BY <1>0, <1>5, <1>6, CloseFits
  <1> HIDE DEF ts
  <1>8. ~ns[p].open => creating # p BY <1>0, <1>5 DEF Kept, Ready
  <1>9. PICK ms \in {ts, ns} : nodes' = ms /\ Kept(ms, creating) BY <1>2, <1>6, <1>7, <1>8
  <1>10. Fit(ms) BY <1>6, <1>7
  <1>11. \A m \in mkdirs' : AskFits(m) BY <1>2, OrphanFits DEF TreeInv
  <1>12. PICK c : c = creating OBVIOUS
  <1> QED BY <1>2, <1>9, <1>10, <1>11, <1>12, QuietStep

LEMMA MkdirRunsFits ==
  ASSUME TreeInv, NEW m \in mkdirs, NEW ok \in BOOLEAN, MkdirRuns(m, ok)
  PROVE  TreeInv'
  <1> DEFINE d == Append(m.parent, NewName)
             o == [m EXCEPT !.state = IF ok THEN "made" ELSE "refused"]
  <1>1. m \in Mkdir /\ d \in Paths BY DEF TreeInv, AskFits
  <1>2. /\ dirs' = IF ok THEN dirs \cup {d} ELSE dirs
        /\ mkdirs' = (mkdirs \ {m}) \cup {o} /\ nodes' = nodes /\ creating' = creating
    BY DEF MkdirRuns
  <1>3. o \in Mkdir /\ o.parent = m.parent /\ o.state = IF ok THEN "made" ELSE "refused"
    BY <1>1 DEF Mkdir
  <1> HIDE DEF o
  <1>4. dirs \subseteq dirs' /\ dirs' \subseteq Paths BY <1>1, <1>2 DEF TreeInv
  <1>5. Fit(nodes)'
    <2>1. PICK ns : ns = nodes OBVIOUS
    <2>2. Fit(ns) BY <2>1 DEF TreeInv
    <2>3. Fit(ns)' BY <1>4, <2>2, GrowingFits
    <2> QED BY <1>2, <2>1, <2>3 DEF Fit, NodeFits, ChildrenIn
  <1>6. o.state = "made" => Append(o.parent, NewName) \in dirs' BY <1>2, <1>3
  <1>7. AskFits(o)' BY <1>1, <1>3, <1>6 DEF AskFits
  <1>8. \A q \in mkdirs : q \in Mkdir /\ Append(q.parent, NewName) \in Paths
                          /\ (q.state = "made" => Append(q.parent, NewName) \in dirs')
    BY <1>4 DEF TreeInv, AskFits
  <1>9. (\A q \in mkdirs : AskFits(q))'
    <2>1. \A q \in mkdirs' : q \in Mkdir /\ Append(q.parent, NewName) \in Paths
                             /\ (q.state = "made" => Append(q.parent, NewName) \in dirs')
      BY <1>1, <1>2, <1>3, <1>6, <1>8
    <2> QED BY <2>1 DEF AskFits
  <1>10. Kept(nodes, creating)' BY <1>2 DEF TreeInv, Kept, Ready
  <1> QED BY <1>4, <1>5, <1>9, <1>10 DEF TreeInv

LEMMA MkdirMadeFits == ASSUME TreeInv, NEW m \in mkdirs, MkdirMade(m) PROVE TreeInv'
  <1>0. dirs \subseteq Paths /\ Fit(nodes) BY DEF TreeInv
  <1> DEFINE d == Append(m.parent, NewName)
             fs == Follow(nodes, value', creating')
             ns == IF opened THEN fs ELSE nodes
             n == [ns[m.parent] EXCEPT !.made = @ \cup {value'}]
             ls == [ns EXCEPT ![m.parent] = Load(n, m.parent)]
  <1>1. m \in Mkdir /\ m.state = "made" /\ d \in dirs BY DEF TreeInv, AskFits, MkdirMade
  <1>2. /\ value' = d /\ nodes' = IF m.live THEN ls ELSE ns
        /\ dirs' = dirs /\ mkdirs' = AfterAnswer(m)
        /\ creating' = creating \/ creating' = Nowhere
    BY DEF MkdirMade
  <1>3. Fit(ns) /\ Kept(ns, creating')
    <2>1. PICK v : v = value' OBVIOUS
    <2>2. PICK c : c = creating' OBVIOUS
    <2>3. Kept(nodes, c) BY <1>0, <1>2, <2>2, NowhereIsNoPath DEF TreeInv, Kept, Fit
    <2>4. Fit(Follow(nodes, v, c)) /\ Kept(Follow(nodes, v, c), c) BY <1>0, <2>3, FollowFits
    <2> QED BY <1>0, <2>1, <2>2, <2>3, <2>4
  <1>6. \A q \in mkdirs' : AskFits(q) BY <1>2, AfterAnswerFits DEF TreeInv
  <1>7. PICK c : c = creating' OBVIOUS
  <1> HIDE DEF ns
  <1>4. CASE m.live /\ m.parent \in DOMAIN ns
    <2>1. NodeFits(ns[m.parent], m.parent) BY <1>3, <1>4 DEF Fit
    <2>2. value' \in ChildrenIn(dirs, m.parent)
      BY <1>1, <1>2, FrontOfAppend DEF ChildrenIn, Mkdir
    <2>3. value' \in Paths BY <1>0, <1>1, <1>2
    <2>4. /\ n \in Node /\ n.made = ns[m.parent].made \cup {value'}
          /\ n.open = ns[m.parent].open
      BY <2>1, <2>3 DEF NodeFits, Node
    <2>5. n.made \subseteq ChildrenIn(dirs, m.parent) BY <2>1, <2>2, <2>4 DEF NodeFits
    <2> HIDE DEF n
    <2>6. /\ NodeFits(Load(n, m.parent), m.parent)
          /\ ns[m.parent].open => Ready(Load(n, m.parent))
      BY <1>0, <2>4, <2>5, LoadFits DEF Ready
    <2>7. Fit(ls) /\ Kept(ls, c)
      BY <1>3, <1>4, <1>7, <2>6, ChangeFits DEF Kept, Ready
    <2>8. nodes' = ls BY <1>2, <1>4
    <2> HIDE DEF ls
    <2>9. PICK x : x = ls OBVIOUS
    <2> QED BY <1>2, <1>6, <1>7, <2>7, <2>8, <2>9, QuietStep
  <1>5. CASE ~(m.live /\ m.parent \in DOMAIN ns)
    <2>1. ns = [p \in DOMAIN ns |-> ns[p]] BY <1>3 DEF Fit
    <2>2. m.parent \notin DOMAIN ns => ls = ns BY <2>1
    <2>3. nodes' = ns BY <1>2, <1>5, <2>2
    <2>4. PICK x : x = ns OBVIOUS
    <2> QED BY <1>2, <1>3, <1>6, <1>7, <2>3, <2>4, QuietStep
  <1> QED BY <1>4, <1>5

LEMMA MkdirRefusedFits == ASSUME TreeInv, NEW m \in mkdirs, MkdirRefused(m) PROVE TreeInv'
  <1>1. /\ nodes' = nodes /\ dirs' = dirs /\ mkdirs' = AfterAnswer(m)
        /\ creating' = creating \/ creating' = Nowhere
    BY DEF MkdirRefused
  <1>2. \A q \in mkdirs' : AskFits(q) BY <1>1, AfterAnswerFits DEF TreeInv
  <1> QED BY <1>1, <1>2, StillStep

\* Every step keeps the invariant.
LEMMA TreeStepFits == TreeInv /\ [TreeNext]_treeVars => TreeInv'
  <1> SUFFICES ASSUME TreeInv, [TreeNext]_treeVars PROVE TreeInv' OBVIOUS
  <1>1. CASE OpenTree BY <1>1, OpenTreeFits
  <1>2. CASE CloseTree BY <1>2, CloseTreeFits
  <1>3. CASE \E p \in DOMAIN nodes : ClickName(p) \/ ClickArrow(p)
    BY <1>3, ClickNameFits, ClickArrowFits
  <1>4. CASE StartCreateFolder BY <1>4, StartCreateFolderFits
  <1>5. CASE CancelCreateFolder BY <1>5, CancelCreateFolderFits
  <1>6. CASE SubmitFolder BY <1>6, SubmitFolderFits
  <1>7. CASE \E p \in DOMAIN nodes : \E i \in DOMAIN nodes[p].loads :
               LoadAnswered(p, i) \/ LoadFails(p, i)
    BY <1>7, LoadAnsweredFits, LoadFailsFits
  <1>8. CASE \E m \in mkdirs : \/ MkdirRuns(m, TRUE) \/ MkdirRuns(m, FALSE)
                               \/ MkdirMade(m) \/ MkdirRefused(m)
    BY <1>8, MkdirRunsFits, MkdirMadeFits, MkdirRefusedFits
  <1>9. CASE UNCHANGED treeVars
    <2>1. nodes' = nodes /\ dirs' = dirs /\ mkdirs' = mkdirs /\ creating' = creating
      BY <1>9 DEF treeVars
    <2>2. \A m \in mkdirs' : AskFits(m) BY <2>1 DEF TreeInv
    <2> QED BY <2>1, <2>2, StillStep
  <1> QED BY <1>1, <1>2, <1>3, <1>4, <1>5, <1>6, <1>7, <1>8, <1>9 DEF TreeNext

\* A node lists what was made in it (FolderTree.tsx: load(true) when the
\* request has succeeded), unless the listing it asked for last has failed or
\* is not the one shown: for any directories, listings and inputs.
THEOREM MadeIsListed == TreeSpec => []ListsWhatItMade
  <1>1. TreeInit => TreeInv BY InitFits
  <1>2. TreeInv /\ [TreeNext]_treeVars => TreeInv' BY TreeStepFits
  <1>3. TreeInv => ListsWhatItMade BY DEF TreeInv, Fit, NodeFits, Lists, ListsWhatItMade
  <1> QED BY <1>1, <1>2, <1>3, PTL DEF TreeSpec

\* The input for a new directory's name keeps its node open and listed
\* (FolderTree.tsx: the effect that reads creatingFolderPath and isOpen).
THEOREM InputIsKept == TreeSpec => []InputKept
  <1>1. TreeInit => TreeInv BY InitFits
  <1>2. TreeInv /\ [TreeNext]_treeVars => TreeInv' BY TreeStepFits
  <1>3. TreeInv => InputKept BY DEF TreeInv, Kept, Ready, InputKept
  <1> QED BY <1>1, <1>2, <1>3, PTL DEF TreeSpec

\* What is highlighted is what OK will send (FolderTree.tsx: setPath and
\* onChange go together, and the effect copies value to path on opening).
THEOREM ShownIsSent == TreeSpec => []DestinationShown
  <1>1. TreeInit => DestinationShown BY DEF TreeInit, DestinationShown
  <1>2. DestinationShown /\ [TreeNext]_treeVars => DestinationShown'
    <2> SUFFICES ASSUME DestinationShown, [TreeNext]_treeVars PROVE DestinationShown' OBVIOUS
    <2> USE DEF DestinationShown
    <2>1. CASE OpenTree BY <2>1 DEF OpenTree
    <2>2. CASE CloseTree BY <2>2 DEF CloseTree
    <2>3. ASSUME NEW p \in DOMAIN nodes, ClickName(p) PROVE DestinationShown'
      BY <2>3 DEF ClickName
    <2>4. ASSUME NEW p \in DOMAIN nodes, ClickArrow(p) PROVE DestinationShown'
      BY <2>4 DEF ClickArrow
    <2>5. CASE StartCreateFolder \/ CancelCreateFolder \/ SubmitFolder
      BY <2>5 DEF StartCreateFolder, CancelCreateFolder, SubmitFolder
    <2>6. ASSUME NEW p \in DOMAIN nodes, NEW i \in DOMAIN nodes[p].loads,
                 LoadAnswered(p, i) \/ LoadFails(p, i)
          PROVE  DestinationShown'
      BY <2>6 DEF LoadAnswered, LoadFails
    <2>7. ASSUME NEW m \in mkdirs, MkdirRuns(m, TRUE) \/ MkdirRuns(m, FALSE) \/ MkdirRefused(m)
          PROVE  DestinationShown'
      BY <2>7 DEF MkdirRuns, MkdirRefused
    <2>8. ASSUME NEW m \in mkdirs, MkdirMade(m) PROVE DestinationShown'
      BY <2>8 DEF MkdirMade
    <2>9. CASE UNCHANGED treeVars BY <2>9 DEF treeVars
    <2> QED BY <2>1, <2>2, <2>3, <2>4, <2>5, <2>6, <2>7, <2>8, <2>9 DEF TreeNext
  <1> QED BY <1>1, <1>2, PTL DEF TreeSpec
=============================================================================
