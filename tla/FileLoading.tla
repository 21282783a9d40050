---------------------------- MODULE FileLoading ----------------------------
(***************************************************************************)
(* The file browser of the web client: the listing or file it shows, its   *)
(* history, and the loads under way.  JavaScript runs one handler at a     *)
(* time up to its next await, so an action is a handler's code between two *)
(* awaits: a user's event, an answer that arrives, or a timer.  What makes *)
(* it hard is that a load awaits the server once or twice while the user   *)
(* navigates, refreshes or signs out; nothing but a request generation,    *)
(* taken before the await and compared after it, tells an answer that is   *)
(* still wanted from one that is not.                                      *)
(*                                                                         *)
(* A path's contents are a version number.  Scrolling is left out, and so  *)
(* is sorting, which is one more reason to load page 1.                    *)
(***************************************************************************)
EXTENDS Integers, FiniteSets, SequencesExt

CONSTANTS
  Paths,          \* the paths the user visits
  Parent,         \* Parent[p]: the directory whose listing names p
  Login,          \* the path of the login page
  HISTORY_LIMIT,  \* entries the history keeps
  MaxPages,       \* bound: pages of a directory
  MaxLoads,       \* bound: the user acts only below this generation
  MaxChanges,     \* bound: changes of contents on the server
  MaxSessions,    \* bound: sessions
  MaxClosed       \* bound: directories in which an upload dialog is closed at work

ASSUME LoadingAssumption ==
  /\ Login \notin Paths
  /\ Parent \in [Paths -> Paths]
  /\ HISTORY_LIMIT \in Nat \ {0}
  /\ MaxPages \in Nat \ {0}
  /\ MaxLoads \in Nat /\ MaxChanges \in Nat /\ MaxSessions \in Nat \ {0}
  /\ MaxClosed \in Nat

VARIABLES
  server,      \* server[p]: what p is, its number of pages, its version
  live,        \* the sessions whose token the server accepts
  issued,      \* how many sessions there have been
  session,     \* the session of the client's token, 0 for none
  mounted,     \* the browser is on the page: /me has been answered
  pathname,    \* what the address bar shows
  generation,  \* fileRequestGeneration
  latest,      \* the generations of the last get and the last list sent
  known,       \* directoryPaths
  history,     \* HistoryMap, oldest entry first
  view,        \* fileStore, and what its contents are of
  err,         \* fileStore.err is not empty
  pending,     \* loads that await the server or a timer
  closed,      \* where upload dialogs have been closed with files under way
  floor,       \* history: floor[p], the version p had when last asked afresh
  stray        \* history: a closed dialog has refreshed a directory that was left

net    == <<server, live, issued>>
vars   == <<server, live, issued, session, mounted, pathname, generation,
            latest, known, history, view, err, pending, closed, floor, stray>>
uploads == <<closed, stray>>

Sites       == Paths \cup {Login}
Generations == 0 .. MaxLoads + 2 * (MaxChanges + 4) + MaxSessions
Shapes      == [kind : {"dir"}, pages : 1 .. MaxPages] \cup [kind : {"file", "none"}, pages : {0}]
Answers     == [code : {"ok"}, kind : {"dir", "file"}, pages : 0 .. MaxPages,
                version : 0 .. MaxChanges, dirs : SUBSET Paths]
               \cup [code : {"waiting", "error", "401", "cancelled"}]
Waiting     == [code |-> "waiting"]

Views == [state : {"Initial", "Loading", "Folder", "File"}, path : Sites,
          page : 1 .. MaxPages, version : 0 .. MaxChanges, session : 0 .. MaxSessions]

InitialView == [state |-> "Initial", path |-> Login, page |-> 1, version |-> 0, session |-> 0]

Shown(v) == v.state \in {"Folder", "File"}

Tasks == [step : {"get", "list", "restore"}, path : Sites, page : 1 .. MaxPages,
          generation : Generations, session : 0 .. MaxSessions,
          answer : Answers]

-----------------------------------------------------------------------------
(***************************************************************************)
(* The history: a Map of at most HISTORY_LIMIT entries in the order of     *)
(* their insertion, each a copy of the store.                              *)
(***************************************************************************)

HasHistory(h, p) == \E i \in DOMAIN h : h[i].path = p
IndexOf(h, p)  == CHOOSE i \in DOMAIN h : h[i].path = p
EntryOf(h, p)  == h[IndexOf(h, p)]
Without(h, p)  == IF HasHistory(h, p) THEN RemoveAt(h, IndexOf(h, p)) ELSE h
Put(h, p, v)   == LET l == Append(Without(h, p), [path |-> p, view |-> v])
                  IN  IF Len(l) > HISTORY_LIMIT THEN Tail(l) ELSE l

\* Mutant: what is in the store while a load is under way is recorded, too.
RecordableAlways(v) == TRUE
Recordable(v) == Shown(v)

Record(h, p)  == IF Recordable(view) THEN Put(h, p, view) ELSE h

-----------------------------------------------------------------------------
(***************************************************************************)
(* Loads.  Each gets a generation of its own; what it does after an await  *)
(* depends on the generation's still being the current one.                *)
(***************************************************************************)

\* Mutant: every answer is taken.
CurrentAlways(t) == TRUE
Current(t) == t.generation = generation

Task(step, p, page, g) ==
  [step |-> step, path |-> p, page |-> page, generation |-> g,
   session |-> session, answer |-> Waiting]

\* The cancellers know the last request of their kind only.
Cancel(loads) ==
  {IF \/ t.step = "get"  /\ t.generation = latest.get
      \/ t.step = "list" /\ t.generation = latest.list
   THEN [t EXCEPT !.answer = [code |-> "cancelled"]] ELSE t : t \in loads}

\* Mutant: the generation is read before invalidateFileRequests.
LoadFolderReadsEarly(p, page, g, loads) ==
  /\ generation' = g
  /\ latest'     = [latest EXCEPT !.list = g]
  /\ pending'    = loads \cup {Task("list", p, page, g - 1)}
  /\ view'       = [view EXCEPT !.state = "Loading"]

LoadFolder(p, page, g, loads) ==
  /\ generation' = g
  /\ latest'     = [latest EXCEPT !.list = g]
  /\ pending'    = loads \cup {Task("list", p, page, g)}
  /\ view'       = [view EXCEPT !.state = "Loading"]

LoadFile(p, g, loads) ==
  /\ generation' = g
  /\ latest'     = [latest EXCEPT !.get = g]
  /\ pending'    = loads \cup {Task("get", p, 1, g)}
  /\ view'       = [view EXCEPT !.state = "Loading"]

RecoverHistory(p, g, loads) ==
  /\ generation' = g
  /\ latest'     = latest
  /\ pending'    = loads \cup {Task("restore", p, 1, g)}
  /\ view'       = [view EXCEPT !.state = "Initial"]

\* h is the history as the caller has left it.
LoadPath(p, page, h) ==
  LET loads == Cancel(pending)  g == generation + 1 IN
  /\ history' = h
  /\ err' = FALSE
  /\ \/ HasHistory(h, p)               /\ RecoverHistory(p, g, loads)
     \/ ~HasHistory(h, p) /\ p \in known    /\ LoadFolder(p, page, g + 1, loads)
     \/ ~HasHistory(h, p) /\ p \notin known /\ LoadFile(p, g, loads)

AskAfresh(p) == floor' = IF p \in Paths THEN [floor EXCEPT ![p] = server[p].version] ELSE floor

-----------------------------------------------------------------------------
(***************************************************************************)
(* The user.                                                               *)
(***************************************************************************)

Active == generation < MaxLoads

\* Content mounts, or the address changes while it is mounted.
Visit(p, h) ==
  /\ pathname' = p
  /\ LoadPath(p, 1, h)

\* A link, or a click on a row: the target's history entry is dropped.  A link
\* to the path already shown loads nothing.
FollowLink(p) ==
  LET cleared == Without(history, p) IN
  /\ mounted /\ Active
  /\ p # pathname
  /\ Visit(p, Record(cleared, pathname))
  /\ AskAfresh(p)
  /\ UNCHANGED <<uploads, net, session, mounted, known>>

LinkToHere ==
  /\ mounted /\ Active
  /\ HasHistory(history, pathname)
  /\ history' = Without(history, pathname)
  /\ UNCHANGED <<uploads, net, session, mounted, pathname, generation, latest, known,
                 view, err, pending, floor>>

\* The browser's back and forward buttons.
Traverse(p) ==
  /\ mounted /\ Active
  /\ p # pathname
  /\ Visit(p, Record(history, pathname))
  /\ UNCHANGED <<uploads, net, session, mounted, known, floor>>

RefreshPath(p) ==
  /\ Active
  /\ LoadPath(p, view.page, Without(history, p))
  /\ AskAfresh(p)
  /\ UNCHANGED <<net, session, mounted, pathname, known, closed>>

\* After an operation on files, or an upload whose dialog is still open.
Refresh == mounted /\ RefreshPath(pathname) /\ UNCHANGED stray

\* The upload dialog is closed, or goes with the page.  Its uploads go on, and
\* refresh when they have ended and once more 5 s later.  pathname() is then a
\* memo that was disposed of with the dialog: it keeps its last value.
CloseDialog ==
  /\ mounted /\ Active
  /\ pathname \notin closed /\ Cardinality(closed) < MaxClosed
  /\ closed' = closed \cup {pathname}
  /\ UNCHANGED <<net, session, mounted, pathname, generation, latest, known,
                 history, view, err, pending, floor, stray>>

LateRefresh(p) ==
  /\ p \in closed
  /\ RefreshPath(p)
  /\ stray' = (stray \/ p # pathname)

\* The pager, and a change of the sort order.
GoPage(page) ==
  /\ mounted /\ Active
  /\ view.state = "Folder" /\ ~err
  /\ LoadFolder(pathname, page, generation + 1, pending)
  /\ UNCHANGED <<uploads, net, session, mounted, pathname, known, history, err, floor>>

\* The mouse over a row or a breadcrumb: rows may be out of date.
Hover(p) ==
  /\ mounted /\ Active
  /\ known' \in {known \cup {p}, known \ {p}} \ {known}
  /\ UNCHANGED <<uploads, net, session, mounted, pathname, generation, latest, history,
                 view, err, pending, floor>>

-----------------------------------------------------------------------------
(***************************************************************************)
(* Sessions.                                                               *)
(***************************************************************************)

\* Mutant: what is under way is not invalidated.
ResetKeepsLoads ==
  /\ history' = <<>>
  /\ view' = InitialView
  /\ err' = FALSE
  /\ known' = {}
  /\ UNCHANGED <<generation, latest>>

\* resetSessionState
Reset ==
  /\ generation' = generation + 1
  /\ history' = <<>>
  /\ view' = InitialView
  /\ err' = FALSE
  /\ known' = {}
  /\ UNCHANGED latest

ToLogin ==
  /\ session' = 0
  /\ pathname' = Login
  /\ mounted' = FALSE
  /\ Reset

SignOut ==
  /\ mounted /\ Active
  /\ live' = live \ {session}
  /\ ToLogin
  /\ UNCHANGED <<uploads, server, issued, pending, floor>>

SignIn(p) ==
  /\ pathname = Login /\ issued < MaxSessions
  /\ issued'  = issued + 1
  /\ session' = issued + 1
  /\ live'    = live \cup {issued + 1}
  /\ pathname' = p
  /\ Reset
  /\ UNCHANGED <<uploads, server, mounted, pending, floor>>

\* /me has been answered: the browser is shown and loads its path.
Mount ==
  /\ ~mounted /\ session \in live /\ pathname # Login
  /\ mounted' = TRUE
  /\ Visit(pathname, history)
  /\ UNCHANGED <<uploads, net, session, known, floor>>

MountRefused ==
  /\ ~mounted /\ session # 0 /\ session \notin live
  /\ ToLogin
  /\ UNCHANGED <<uploads, net, pending, floor>>

-----------------------------------------------------------------------------
(***************************************************************************)
(* The server (external): contents change, sessions end, requests are      *)
(* answered with what is there.                                            *)
(***************************************************************************)

Change(p) ==
  /\ server[p].version < MaxChanges
  /\ \A q \in Paths \ {p} : server[q].version = 0
  /\ \E s \in Shapes : server' = [server EXCEPT ![p] = [kind |-> s.kind, pages |-> s.pages,
                                                        version |-> @.version + 1]]
  /\ UNCHANGED <<uploads, live, issued, session, mounted, pathname, generation, latest,
                 known, history, view, err, pending, floor>>

Revoke ==
  /\ session \in live
  /\ live' = live \ {session}
  /\ UNCHANGED <<uploads, server, issued, session, mounted, pathname, generation, latest,
                 known, history, view, err, pending, floor>>

Reply(t) ==
  LET p == t.path IN
  IF t.session \notin live THEN [code |-> "401"]
  ELSE IF p \in Paths /\ (server[p].kind = "dir" \/ (server[p].kind = "file" /\ t.step = "get"))
       THEN [code |-> "ok", kind |-> server[p].kind, pages |-> server[p].pages,
             version |-> server[p].version,
             dirs |-> {q \in Paths \ {p} : Parent[q] = p /\ server[q].kind = "dir"}]
       ELSE [code |-> "error"]

Answer(t) ==
  /\ t.step \in {"get", "list"} /\ t.answer = Waiting
  /\ pending' = (pending \ {t}) \cup {[t EXCEPT !.answer = Reply(t)]}
  /\ UNCHANGED <<uploads, net, session, mounted, pathname, generation, latest, known,
                 history, view, err, floor>>

-----------------------------------------------------------------------------
(***************************************************************************)
(* What follows an await.                                                  *)
(***************************************************************************)

Done(t) == pending \ {t}

\* The interceptor of every response, before the load looks at it.
Expired(t) ==
  /\ t.answer.code = "401"
  /\ ToLogin
  /\ pending' = Done(t)
  /\ UNCHANGED <<uploads, net, floor>>

Superseded(t) ==
  /\ t.answer.code \in {"ok", "error", "cancelled"}
  /\ ~Current(t)
  /\ pending' = Done(t)
  /\ UNCHANGED <<uploads, net, session, mounted, pathname, generation, latest, known,
                 history, view, err, floor>>

Failed(t) ==
  /\ t.answer.code = "error"
  /\ Current(t)
  /\ err' = TRUE
  /\ pending' = Done(t)
  /\ UNCHANGED <<uploads, net, session, mounted, pathname, generation, latest, known,
                 history, view, floor>>

Contents(t, state, page) ==
  [state |-> state, path |-> t.path, page |-> page,
   version |-> t.answer.version, session |-> t.session]

GotFile(t) ==
  /\ t.step = "get" /\ t.answer.code = "ok" /\ t.answer.kind = "file"
  /\ Current(t)
  /\ view' = Contents(t, "File", view.page)
  /\ pending' = Done(t)
  /\ UNCHANGED <<uploads, net, session, mounted, pathname, generation, latest, known,
                 history, err, floor>>

GotDirectory(t) ==
  /\ t.step = "get" /\ t.answer.code = "ok" /\ t.answer.kind = "dir"
  /\ Current(t)
  /\ known' = known \cup {t.path}
  /\ LoadFolder(t.path, 1, generation + 1, Done(t))
  /\ UNCHANGED <<uploads, net, session, mounted, pathname, history, err, floor>>

\* The directory has fewer pages now: load its last one.
PastTheEnd(t) ==
  /\ t.step = "list" /\ t.answer.code = "ok" /\ t.page > t.answer.pages
  /\ Current(t)
  /\ LoadFolder(t.path, t.answer.pages, generation + 1, Done(t))
  /\ UNCHANGED <<uploads, net, session, mounted, pathname, known, history, err, floor>>

Listed(t) ==
  /\ t.step = "list" /\ t.answer.code = "ok" /\ t.page <= t.answer.pages
  /\ Current(t)
  /\ known' = known \cup {t.path} \cup t.answer.dirs
  /\ view' = Contents(t, "Folder", t.page)
  /\ pending' = Done(t)
  /\ UNCHANGED <<uploads, net, session, mounted, pathname, generation, latest, history, err, floor>>

\* recoverHistory after its first frame; the entry may have been dropped.
Restored(t) ==
  /\ t.step = "restore"
  /\ IF Current(t) /\ HasHistory(history, t.path)
     THEN LET v == EntryOf(history, t.path).view IN
          /\ history' = Put(history, t.path, v)
          /\ view' = v
          /\ err' = FALSE
     ELSE UNCHANGED <<history, view, err>>
  /\ pending' = Done(t)
  /\ UNCHANGED <<uploads, net, session, mounted, pathname, generation, latest, known, floor>>

Continue(t) ==
  \/ Expired(t) \/ Superseded(t) \/ Failed(t)
  \/ GotFile(t) \/ GotDirectory(t) \/ PastTheEnd(t) \/ Listed(t)
  \/ Restored(t)

Init ==
  /\ server \in [Paths -> [kind : {"dir"}, pages : {MaxPages}, version : {0}]
                          \cup [kind : {"file"}, pages : {0}, version : {0}]]
  /\ \A p \in Paths : server[Parent[p]].kind = "dir"
  /\ live = {1} /\ issued = 1 /\ session = 1
  /\ mounted = FALSE
  /\ pathname \in Paths
  /\ generation = 0 /\ latest = [get |-> 0, list |-> 0]
  /\ known = {} /\ history = <<>>
  /\ view = InitialView /\ err = FALSE
  /\ pending = {}
  /\ floor = [p \in Paths |-> 0]
  /\ closed = {} /\ stray = FALSE

User == \/ \E p \in Paths : FollowLink(p) \/ Traverse(p) \/ Hover(p) \/ SignIn(p) \/ LateRefresh(p)
        \/ LinkToHere \/ Refresh \/ CloseDialog \/ SignOut
        \/ \E page \in 1 .. MaxPages : GoPage(page)

Next == \/ User
        \/ Mount \/ MountRefused
        \/ Revoke \/ \E p \in Paths : Change(p)
        \/ \E t \in pending : Answer(t) \/ Continue(t)

\* Requests are answered, or fail, and their promises and timers run.
Fairness == /\ WF_vars(Mount) /\ WF_vars(MountRefused)
            /\ WF_vars(\E t \in pending : Answer(t) \/ Continue(t))

Spec == Init /\ [][Next]_vars /\ Fairness
-----------------------------------------------------------------------------
(***************************************************************************)
(* Properties.                                                             *)
(***************************************************************************)

(***************************************************************************)
(* The types of the variables.                                             *)
(***************************************************************************)
TypeOK ==
  /\ \A p \in Paths : \E s \in Shapes, v \in 0 .. MaxChanges :
       server[p] = [kind |-> s.kind, pages |-> s.pages, version |-> v]
  /\ live \subseteq 1 .. issued /\ issued \in 1 .. MaxSessions /\ session \in 0 .. issued
  /\ closed \subseteq Paths /\ stray \in BOOLEAN
  /\ mounted \in BOOLEAN /\ err \in BOOLEAN
  /\ pathname \in Sites
  /\ generation \in Generations
  /\ latest.get <= generation /\ latest.list <= generation
  /\ known \subseteq Sites
  /\ Len(history) <= HISTORY_LIMIT
  /\ \A i \in DOMAIN history : history[i].path \in Paths /\ history[i].view \in Views
  /\ view \in Views
  /\ pending \subseteq Tasks
  /\ floor \in [Paths -> 0 .. MaxChanges]

(***************************************************************************)
(* What is shown is of the path in the address bar, whatever answers       *)
(* arrive late, and a history entry is of the path it is kept under: what  *)
(* the user does to a row is done to pathname() joined with the row's name.*)
(***************************************************************************)
ShownIsCurrent ==
  /\ mounted /\ Shown(view) => view.path = pathname
  /\ \A i \in DOMAIN history : history[i].view.path = history[i].path /\ Shown(history[i].view)

(***************************************************************************)
(* The one thing that breaks it: the refresh of an upload dialog that was  *)
(* closed in another directory loads that directory over the one shown.    *)
(***************************************************************************)
ShownIsCurrentButForStrays == stray \/ ShownIsCurrent

(***************************************************************************)
(* After a refresh of a path, or a link to it, nothing older than it was   *)
(* then is shown for it: neither an answer to an earlier request nor an    *)
(* entry of the history.  Only back and forward show what was seen before. *)
(***************************************************************************)
NothingOlder ==
  \/ stray
  \/ /\ mounted /\ Shown(view) => view.version >= floor[view.path]
     /\ \A i \in DOMAIN history : history[i].view.version >= floor[history[i].path]

(***************************************************************************)
(* Nothing loaded with one session's token is shown, or kept for the back  *)
(* button, in another session or when signed out: resetSessionState throws *)
(* away what is there and what is still under way.                         *)
(***************************************************************************)
NothingOfOthers ==
  /\ Shown(view) => view.session = session
  /\ \A i \in DOMAIN history : history[i].view.session = session

(***************************************************************************)
(* When the user and the server have come to rest the page shows the path, *)
(* or an error, or the login page, and does not stay empty or loading.     *)
(* One sequence is excepted: a link to the path already in the address bar *)
(* that is clicked while that path is being restored from the history.     *)
(***************************************************************************)
Shows   == ~mounted \/ err \/ Shown(view)
Dropped == view.state = "Initial" /\ ~HasHistory(history, pathname)
Settles == <>[](pathname = Login \/ (mounted /\ (Shows \/ Dropped)))

=============================================================================
