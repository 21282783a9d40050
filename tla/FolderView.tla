----------------------------- MODULE FolderView -----------------------------
(***************************************************************************)
(* The listing of a directory in the browser (store/files.ts, List.tsx,    *)
(* ListItem.tsx, Folder.tsx): its rows, the selection, the filter, the     *)
(* sort order and the pages, and the dialogs that act on the selection     *)
(* (toolbar/*.tsx).  A dialog keeps nothing of the selection it was opened *)
(* for: it reads the address and the selected rows when it is confirmed.   *)
(* Meanwhile the user may go back, an upload that ends may refresh, and    *)
(* the answer to an earlier request may do both, refresh and close.        *)
(*                                                                         *)
(* Of the loads only the one that is still wanted is kept here; that the   *)
(* others change nothing is FileLoading's subject.  What the server lists  *)
(* may differ at every load.                                               *)
(***************************************************************************)
EXTENDS Integers, FiniteSets, SequencesExt

CONSTANTS
  Dirs,         \* the directories visited
  Names,        \* the names of entries, numbers in the order of the sort
  Target,       \* Target[d][n]: the directory that n is in d, or NoDir
  NoDir,
  Contents,     \* Contents[d]: what d may hold, sets of names
  Filters,      \* what the user may search for: the set of names it matches
  PageSize,     \* LIST_PAGE_SIZE
  MaxLoads,     \* bound: loads
  MaxRequests   \* bound: operations

ASSUME FolderAssumption ==
  /\ Names \subseteq Nat /\ IsFiniteSet(Names) /\ NoDir \notin Dirs
  /\ Target \in [Dirs -> [Names -> Dirs \cup {NoDir}]]
  /\ Contents \in [Dirs -> SUBSET SUBSET Names] /\ Filters \subseteq SUBSET Names
  /\ PageSize \in Nat \ {0} /\ MaxLoads \in Nat /\ MaxRequests \in Nat

VARIABLES
  pathname,  \* what the address bar shows
  view,      \* fileStore; sel are the indexes whose rows are selected, of is
             \* history: the directory the rows are of
  filter,    \* directoryFilter, as the set of names it lets through
  anchor,    \* lastClickedIndex, 0 for null
  load,      \* the load that is wanted
  history,   \* HistoryMap
  sort,      \* sort[d]: the saved order is the reverse one
  dialog,    \* the dialog that is open; names, dir and left are history: what
             \* it was opened for, and whether the address has changed since
  requests,  \* the dialogs' requests under way
  loads,     \* how many loads there have been
  sent       \* how many requests there have been

vars == <<pathname, view, filter, anchor, load, history, sort, dialog, requests, loads, sent>>

Everything == Names
NoLoad   == [step |-> "none", page |-> 1, rev |-> FALSE]
NoDialog == [kind |-> "none", dir |-> NoDir, names |-> {}, left |-> FALSE]
NoEntry  == [state |-> "none"]

Kinds == {"delete", "move", "rename", "mkdir"}

\* The server sorts and cuts: directories come first in either order, and a
\* page past the end is empty.
Before(d, m, n, rev) ==
  LET isDir(k) == Target[d][k] # NoDir IN
  IF isDir(m) # isDir(n) THEN isDir(m) ELSE IF rev THEN m > n ELSE m < n

Rows(d, s, page, rev) ==
  LET q == CHOOSE f \in SetToSeqs(s) : \A i, j \in DOMAIN f : i < j => Before(d, f[i], f[j], rev)
      end == page * PageSize
  IN  SubSeq(q, (page - 1) * PageSize + 1, IF end < Len(q) THEN end ELSE Len(q))

\* lastPage
Pages(s) == IF s = {} THEN 1 ELSE (Cardinality(s) + PageSize - 1) \div PageSize

-----------------------------------------------------------------------------
(***************************************************************************)
(* The selection.                                                          *)
(***************************************************************************)
Visible  == {i \in DOMAIN view.rows : view.rows[i] \in filter}
Selected == {view.rows[i] : i \in view.sel}

\* selectIndex
WithIndex(i, checked) == IF checked THEN view.sel \cup {i} ELSE view.sel \ {i}

\* Mutant: the rows in between, shown or not.
SelectRangeAll(i) ==
  IF anchor \notin Visible THEN view.sel \cup {i}
  ELSE view.sel \cup {j \in DOMAIN view.rows : (i <= j /\ j <= anchor) \/ (anchor <= j /\ j <= i)}

\* selectRange, without the anchor it may set.
SelectRange(i) ==
  IF anchor \notin Visible THEN view.sel \cup {i}
  ELSE view.sel \cup {j \in Visible : (i <= j /\ j <= anchor) \/ (anchor <= j /\ j <= i)}

Unselected(v) == [v EXCEPT !.sel = {}]

\* setDirectoryFilter, on the store as v.
SetFilter(v, f) ==
  /\ filter' = f
  /\ view'   = IF f = filter THEN v ELSE Unselected(v)
  /\ anchor' = IF f = filter THEN anchor ELSE 0

\* clearDirectoryFilter on the way to another path: what is left of the view.
AfterClear == IF filter = Everything THEN view ELSE Unselected(view)

-----------------------------------------------------------------------------
(***************************************************************************)
(* Loads.                                                                  *)
(***************************************************************************)
Active == loads < MaxLoads

\* loadFolder on the store as v: the rows stay until the answer comes.
LoadFolder(v, page, rev) ==
  /\ view'  = [v EXCEPT !.state = "Loading"]
  /\ load'  = [step |-> "list", page |-> page, rev |-> rev]
  /\ loads' = loads + 1

\* loadPath: d's own sort order, then its history or its listing.
LoadPath(v, d, page, h) ==
  /\ history' = h
  /\ LET s == [v EXCEPT !.rev = sort[d]] IN
     \/ /\ h[d] # NoEntry
        /\ view'  = [s EXCEPT !.state = "Initial"]
        /\ load'  = [NoLoad EXCEPT !.step = "restore"]
        /\ loads' = loads + 1
     \/ h[d] = NoEntry /\ LoadFolder(s, page, s.rev)

\* recordHistory
\* Mutant: what is shown while a load is under way is recorded, too.
RecordAlways(h, d, v) == [h EXCEPT ![d] = [v EXCEPT !.state = "Folder"]]

Record(h, d, v) == IF v.state = "Folder" THEN [h EXCEPT ![d] = v] ELSE h

Forget(h, d) == [h EXCEPT ![d] = NoEntry]

\* The address changes: the header clears the filter, then the content
\* records what it leaves and loads.
Visit(d, h) ==
  /\ pathname' = d
  /\ filter' = Everything
  /\ LoadPath(AfterClear, d, 1, Record(h, pathname, AfterClear))
  /\ dialog' = [dialog EXCEPT !.left = @ \/ dialog.kind # "none"]
  /\ UNCHANGED <<sort, requests, sent>>

\* refresh(): of the path it is called at.
\* Mutant: refresh without clearHistory.
RefreshRecalls == LoadPath(view, pathname, view.page, history)

RefreshHere == LoadPath(view, pathname, view.page, Forget(history, pathname))

-----------------------------------------------------------------------------
(***************************************************************************)
(* Answers to loads.                                                       *)
(***************************************************************************)
\* Mutant: the page asked for, whether there is one or not.
ListAnsweredAsAsked(s) ==
  /\ load.step = "list"
  /\ SetFilter([view EXCEPT !.state = "Folder", !.rows = Rows(pathname, s, load.page, load.rev),
                  !.sel = {}, !.page = load.page, !.pages = Pages(s), !.of = pathname],
               IF view.page = load.page THEN filter ELSE Everything)
  /\ load' = NoLoad /\ loads' = loads
  /\ UNCHANGED <<pathname, history, sort, dialog, requests, sent>>

\* A page past the last one is asked for again, as the last one; otherwise
\* setListing.
ListAnswered(s) ==
  /\ load.step = "list"
  /\ IF load.page > Pages(s)
     THEN LoadFolder(view, Pages(s), load.rev) /\ UNCHANGED <<filter, anchor>>
     ELSE /\ SetFilter([view EXCEPT !.state = "Folder", !.rows = Rows(pathname, s, load.page, load.rev),
                          !.sel = {}, !.page = load.page, !.pages = Pages(s), !.of = pathname],
                       IF view.page = load.page THEN filter ELSE Everything)
          /\ load' = NoLoad /\ loads' = loads
  /\ UNCHANGED <<pathname, history, sort, dialog, requests, sent>>

\* An error is shown in place of the listing.
ListFails ==
  /\ load.step = "list"
  /\ load' = NoLoad
  /\ UNCHANGED <<pathname, view, filter, anchor, history, sort, dialog, requests, loads, sent>>

\* recoverHistory, after its timer: rows, selection, page and order.
Restored ==
  /\ load.step = "restore"
  /\ view' = history[pathname]
  /\ load' = NoLoad
  /\ UNCHANGED <<pathname, filter, anchor, history, sort, dialog, requests, loads, sent>>

-----------------------------------------------------------------------------
(***************************************************************************)
(* The user, at the listing.  An open dialog covers it.                    *)
(***************************************************************************)
AtListing == view.state = "Folder" /\ dialog.kind = "none"

Browsing == UNCHANGED <<pathname, load, history, sort, requests, loads, sent>>

\* onClick of a row with Ctrl.
CtrlClick(i) ==
  /\ AtListing /\ i \in Visible
  /\ view' = [view EXCEPT !.sel = WithIndex(i, i \notin view.sel)]
  /\ anchor' = i
  /\ Browsing /\ UNCHANGED <<filter, dialog>>

\* With Shift: from the row clicked last, if that is an index still in sight,
\* whatever row it has now.
ShiftClick(i) ==
  /\ AtListing /\ i \in Visible
  /\ view' = [view EXCEPT !.sel = SelectRange(i)]
  /\ anchor' = IF anchor \in Visible THEN anchor ELSE i
  /\ Browsing /\ UNCHANGED <<filter, dialog>>

\* "Cancel selection": selectAll(false).
CancelSelection ==
  /\ AtListing /\ view.sel # {}
  /\ view' = Unselected(view)
  /\ anchor' = 0
  /\ Browsing /\ UNCHANGED <<filter, dialog>>

\* The search field, and Escape, which empties it.
Search(f) ==
  /\ AtListing /\ f # filter
  /\ SetFilter(view, f)
  /\ Browsing /\ UNCHANGED dialog

\* Another order is saved, and the first page of it asked for; the order there
\* is already loads, too.
SortBy(rev) ==
  /\ AtListing /\ Active
  /\ sort' = [sort EXCEPT ![pathname] = rev]
  /\ LoadFolder([view EXCEPT !.rev = rev], 1, rev)
  /\ UNCHANGED <<pathname, filter, anchor, history, dialog, requests, sent>>

\* The title of the column sorted by turns the order round.
ClickTitle == SortBy(~view.rev)

\* The menu has an entry for either order.
SortMenu(rev) == SortBy(rev)

\* The pager's buttons.
Go(page) ==
  /\ AtListing /\ Active
  /\ page \in {view.page - 1, view.page + 1} \cap (1 .. view.pages)
  /\ LoadFolder(Unselected(view), page, view.rev)
  /\ anchor' = 0
  /\ UNCHANGED <<pathname, filter, history, sort, dialog, requests, sent>>

\* A plain click on the row of a directory, be it on its name, which is a link,
\* or elsewhere: what is remembered of the directory is forgotten.
OpenRow(i) ==
  /\ AtListing /\ Active /\ i \in Visible
  /\ Target[pathname][view.rows[i]] # NoDir
  /\ LET d == Target[pathname][view.rows[i]] IN Visit(d, Forget(history, d))
  /\ anchor' = IF filter = Everything THEN i ELSE 0

\* A link of the path, which an open dialog covers, forgets like a row.
FollowLink(d) ==
  /\ dialog.kind = "none" /\ Active /\ d # pathname
  /\ Visit(d, Forget(history, d))
  /\ anchor' = IF filter = Everything THEN anchor ELSE 0

\* Back and forward, which work under a dialog as well; what the tab has in
\* its history may be older than the page.
Traverse(d) ==
  /\ Active /\ d # pathname
  /\ Visit(d, history)
  /\ anchor' = IF filter = Everything THEN anchor ELSE 0

\* refresh() of an upload that has ended here.
UploadEnds ==
  /\ Active
  /\ RefreshHere
  /\ UNCHANGED <<pathname, filter, anchor, sort, dialog, requests, sent>>

-----------------------------------------------------------------------------
(***************************************************************************)
(* The dialogs.                                                            *)
(***************************************************************************)
Opens(kind, names) ==
  dialog' = [kind |-> kind, dir |-> pathname, names |-> names, left |-> FALSE]

\* A row's menu selects the row alone; only from there is there a rename.
RowMenu(i, kind) ==
  /\ AtListing /\ i \in Visible /\ kind # "mkdir"
  /\ view' = [view EXCEPT !.sel = {i}]
  /\ anchor' = 0
  /\ Opens(kind, {view.rows[i]})
  /\ Browsing /\ UNCHANGED filter

\* The bar above the rows, while any is selected: for what is highlighted.
SelectionBar(kind) ==
  /\ AtListing /\ view.sel # {} /\ kind \in {"delete", "move"}
  /\ Opens(kind, {view.rows[i] : i \in view.sel \cap Visible})
  /\ Browsing /\ UNCHANGED <<view, filter, anchor>>

\* The header's "Create folder".
AddFolder ==
  /\ AtListing
  /\ Opens("mkdir", {})
  /\ Browsing /\ UNCHANGED <<view, filter, anchor>>

\* Cancel or Escape; a request under way goes on.
Cancel ==
  /\ dialog.kind # "none"
  /\ dialog' = NoDialog
  /\ Browsing /\ UNCHANGED <<view, filter, anchor>>

Waiting(kind) == \E r \in requests : r.kind = kind

\* Renaming takes the first selected row.
Renamed == {view.rows[i] : i \in {j \in view.sel : \A k \in view.sel : j <= k}}

\* What the dialog acts on: a new directory is made of no row.
Operands ==
  CASE dialog.kind = "mkdir"  -> {}
    [] dialog.kind = "rename" -> Renamed
    [] OTHER                  -> Selected

\* A button that is loading takes no click, but Enter in the field of the
\* dialogs for a name does; renaming throws if nothing is selected.
MaySubmit ==
  /\ dialog.kind \in {"delete", "move"} => ~Waiting(dialog.kind)
  /\ dialog.kind = "rename" => view.sel # {}

\* onSubmit
Confirm ==
  /\ dialog.kind # "none" /\ sent < MaxRequests
  /\ MaySubmit
  /\ requests' = requests \cup {[id |-> sent, kind |-> dialog.kind, dir |-> pathname,
                                 names |-> Operands, rowsOf |-> view.of, aim |-> dialog]}
  /\ sent' = sent + 1
  /\ UNCHANGED <<pathname, view, filter, anchor, load, history, sort, dialog, loads>>

\* Deleting, copying and moving refresh in any case, the others if they have
\* succeeded.
Refreshes(r, ok) == ok \/ r.kind \in {"delete", "move"}

\* handleResp: success closes the dialog of that kind, be it the one that sent
\* the request or one opened since.
Closes(r, ok) == ok /\ dialog.kind = r.kind

\* The answer to a dialog's request.
Answered(r, ok) ==
  /\ r \in requests
  /\ requests' = requests \ {r}
  /\ IF Refreshes(r, ok) THEN RefreshHere ELSE UNCHANGED <<view, load, history, loads>>
  /\ dialog' = IF Closes(r, ok) THEN NoDialog ELSE dialog
  /\ UNCHANGED <<pathname, filter, anchor, sort, sent>>

-----------------------------------------------------------------------------
FirstView == [state |-> "Loading", rows |-> <<>>, sel |-> {}, page |-> 1, pages |-> 1,
              rev |-> FALSE, of |-> NoDir]

Init ==
  /\ pathname \in Dirs
  /\ view = FirstView /\ filter = Everything /\ anchor = 0
  /\ load = [step |-> "list", page |-> 1, rev |-> FALSE] /\ loads = 1
  /\ history = [d \in Dirs |-> NoEntry] /\ sort = [d \in Dirs |-> FALSE]
  /\ dialog = NoDialog /\ requests = {} /\ sent = 0

AtRow(i) == CtrlClick(i) \/ ShiftClick(i) \/ OpenRow(i) \/ \E kind \in Kinds : RowMenu(i, kind)

Next ==
  \/ \E s \in Contents[pathname] : ListAnswered(s)
  \/ ListFails \/ Restored
  \/ \E i \in DOMAIN view.rows : AtRow(i)
  \/ CancelSelection
  \/ \E f \in Filters \cup {Everything} : Search(f)
  \/ ClickTitle
  \/ \E rev \in BOOLEAN : SortMenu(rev)
  \/ \E page \in 1 .. view.pages : Go(page)
  \/ \E d \in Dirs : FollowLink(d) \/ Traverse(d)
  \/ UploadEnds
  \/ \E kind \in Kinds : SelectionBar(kind)
  \/ AddFolder \/ Cancel \/ Confirm
  \/ \E r \in requests : \E ok \in BOOLEAN : Answered(r, ok)

Spec == Init /\ [][Next]_vars

-----------------------------------------------------------------------------
(***************************************************************************)
(* Properties.                                                             *)
(***************************************************************************)
ViewOK(v) ==
  /\ v.state \in {"Initial", "Loading", "Folder"}
  /\ v.rows \in Seq(Names) /\ Len(v.rows) <= PageSize /\ v.sel \subseteq DOMAIN v.rows
  /\ v.page \in 1 .. v.pages /\ v.rev \in BOOLEAN /\ v.of \in Dirs \cup {NoDir}

\* Every value has its type; a page shown is one the listing has, although it
\* may have shrunk since the page was asked for.
TypeOK ==
  /\ pathname \in Dirs /\ ViewOK(view)
  /\ filter \subseteq Names /\ anchor \in 0 .. PageSize
  /\ load.step \in {"none", "list", "restore"} /\ load.page \in Nat \ {0} /\ load.rev \in BOOLEAN
  /\ \A d \in Dirs : history[d] # NoEntry => ViewOK(history[d]) /\ history[d].of = d
  /\ sort \in [Dirs -> BOOLEAN]
  /\ dialog.kind \in Kinds \cup {"none"} /\ dialog.names \subseteq Names
  /\ \A r \in requests : r.kind \in Kinds /\ r.dir \in Dirs /\ r.names \subseteq Names
  /\ loads \in Nat /\ sent \in 0 .. MaxRequests

\* No row is selected that the filter hides, so the bar and the dialogs never
\* act on rows out of sight, whatever is searched, sorted, restored from the
\* history or selected as a range.
SelectedVisible == view.sel \subseteq Visible

\* A dialog that was not left open while the address changed acts in the
\* directory it was opened in, on nothing but what was highlighted then,
\* although it reads both anew and listings arrive in between.
ActsOnWhatItWasOpenedFor ==
  \A r \in requests : ~r.aim.left => r.dir = r.aim.dir /\ r.names \subseteq r.aim.names

\* The rows of a listing are in the order its header indicates, which is set
\* before they are asked for and is part of what the history restores, with the
\* directories first.
InTheOrderIndicated ==
  view.state = "Folder" =>
    \A i, j \in DOMAIN view.rows :
      i < j => Before(view.of, view.rows[i], view.rows[j], view.rev)
=============================================================================
