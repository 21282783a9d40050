----------------------------- MODULE FolderTree -----------------------------
(***************************************************************************)
(* The dialog in which a destination directory is chosen                   *)
(* (FolderTree.tsx): a tree whose nodes ask for their subdirectories when  *)
(* they are opened, and in which a new directory can be made.  The dialog  *)
(* keeps its value between two openings; the tree, with everything its     *)
(* nodes know, is made anew by every opening, and a node by every listing  *)
(* of its parent that arrives.  Requests of what is gone are not cancelled.*)
(*                                                                         *)
(* A path is a sequence of names, the root is the empty one.               *)
(***************************************************************************)
EXTENDS Integers, FiniteSets, SequencesExt

CONSTANTS
  Paths,        \* the directories there can be
  Dirs0,        \* the ones there are at the beginning
  NewName,      \* the name the user gives to a new directory
  MaxListings,  \* bound: listings awaited at a time
  MaxMkdirs     \* bound: requests to make a directory

ASSUME TreeAssumption ==
  /\ \A p \in Paths : p \in Seq(Range(p))
  /\ <<>> \in Dirs0 /\ Dirs0 \subseteq Paths
  /\ \A p \in Paths : p # <<>> => Front(p) \in Paths
  /\ <<"nowhere">> \notin Paths
  /\ MaxListings \in Nat /\ MaxMkdirs \in Nat

VARIABLES
  dirs,      \* the directories on the server
  opened,    \* the dialog is open
  value,     \* the dialog's value: what OK will send
  path,      \* the tree's path: what is highlighted
  creating,  \* creatingFolderPath, or Nowhere
  nodes,     \* the mounted nodes; made and last are history: the directories
             \* they asked for and were told of, and what has become of the
             \* listing asked for last: it is awaited, or shown, or lost, as it
             \* has failed or an earlier one has come after it
  mkdirs     \* the requests to make a directory: whether their tree, their
             \* node and their input are still there

treeVars == <<dirs, opened, value, path, creating, nodes, mkdirs>>

Root    == <<>>
Nowhere == <<"nowhere">>

\* What is known before the first listing.
Unknown == {Nowhere}

ChildrenIn(ds, p) == {q \in ds : q # Root /\ Front(q) = p}

\* fetchDirs: an answer shows the directories of some moment between its
\* request and its arrival; there never are fewer.
Load(n, p) ==
  [n EXCEPT !.loading = TRUE, !.loads = Append(@, ChildrenIn(dirs, p)), !.last = "awaited"]

ClosedNode == [open |-> FALSE, isLoaded |-> FALSE, children |-> Unknown, loading |-> FALSE,
               loads |-> <<>>, made |-> {}, last |-> "lost"]

Opening(n, p) ==
  LET m == [n EXCEPT !.open = TRUE] IN IF n.isLoaded THEN m ELSE Load(m, p)

\* The effect of a node in which a directory is being made.  It reads isOpen:
\* when it has opened the node it runs again, and asks for what is not listed
\* once more.
ForInput(n, p) == IF n.open THEN Opening(n, p) ELSE Opening(Opening(n, p), p)

\* A node when it is mounted: it opens if the path goes through it
\* (createMatcher, checkIfShouldOpen), and if a directory is being made in it.
NewNode(p, v, c) ==
  LET n == IF IsPrefix(p, v) THEN Opening(ClosedNode, p) ELSE ClosedNode
  IN  IF c = p THEN ForInput(n, p) ELSE n

\* The children of opened nodes are mounted; those of closed ones are not.
Mount(ns, v, c) ==
  LET shown == UNION {ns[p].children : p \in {x \in DOMAIN ns : ns[x].open}}
      fresh == {q \in shown \ Unknown : q \notin DOMAIN ns}
  IN  [q \in DOMAIN ns \cup fresh |-> IF q \in fresh THEN NewNode(q, v, c) ELSE ns[q]]

Dispose(ns, p) == [q \in {x \in DOMAIN ns : ~IsStrictPrefix(p, x)} |-> ns[q]]

\* Mutant: the effect opens the node once, without reading isOpen.
CloseForGood(ns, p, v, c) == Dispose([ns EXCEPT ![p].open = FALSE], p)

\* onToggle of an open node: its subtree goes.  If a directory is being made in
\* it, the effect that has read isOpen opens it again.
Close(ns, p, v, c) ==
  LET closed == Dispose([ns EXCEPT ![p].open = FALSE], p)
  IN  IF c = p THEN Mount([closed EXCEPT ![p] = ForInput(@, p)], v, c) ELSE closed

\* onToggle
Toggle(ns, p, v, c) ==
  IF ns[p].open THEN Close(ns, p, v, c) ELSE Mount([ns EXCEPT ![p].open = TRUE], v, c)

\* The requests of nodes that have gone: their answers reload nothing.  An
\* input is in the subtree of its node and goes when the node closes, too.
Orphan(p) ==
  {[m EXCEPT !.live = @ /\ ~IsStrictPrefix(p, m.parent),
             !.input = @ /\ ~IsStrictPrefix(p, m.parent)] : m \in mkdirs}
OrphanAtClose(p) == {[m EXCEPT !.input = @ /\ m.parent # p] : m \in Orphan(p)}
WithoutInput(ms) == {[m EXCEPT !.input = FALSE] : m \in ms}

\* checkIfShouldOpen in every node, when the tree's path becomes v.
Follow(ns, v, c) ==
  IF v = path THEN ns
  ELSE Mount([p \in DOMAIN ns |-> IF IsPrefix(p, v) THEN Opening(ns[p], p) ELSE ns[p]], v, c)

InBounds(ns) == MapThenSumSet(LAMBDA p : Len(ns[p].loads), DOMAIN ns) <= MaxListings

TreeInit ==
  /\ dirs = Dirs0 /\ opened = FALSE /\ value = Root /\ path = Root /\ creating = Nowhere
  /\ nodes = <<>> /\ mkdirs = {}

-----------------------------------------------------------------------------
(***************************************************************************)
(* The dialog.                                                             *)
(***************************************************************************)
\* The tree begins at the root and is then set to the value of the dialog; the
\* order of the two effects decides whether the root is listed once or twice.
OpenTree ==
  /\ ~opened
  /\ opened' = TRUE /\ path' = value /\ creating' = Nowhere
  /\ LET n == NewNode(Root, value, Nowhere) IN
     nodes' \in {[p \in {Root} |-> n],
                [p \in {Root} |-> IF value = Root THEN n ELSE Load(n, Root)]}
  /\ UNCHANGED <<dirs, value, mkdirs>>

\* Cancel, Escape, or an action that has succeeded.
CloseTree ==
  /\ opened
  /\ opened' = FALSE /\ nodes' = <<>> /\ creating' = Nowhere
  /\ mkdirs' = {[m EXCEPT !.tree = FALSE, !.live = FALSE, !.input = FALSE] : m \in mkdirs}
  /\ UNCHANGED <<dirs, value, path>>

\* The name of a node.
ClickName(p) ==
  /\ p \in DOMAIN nodes
  /\ nodes' = Follow(nodes, p, creating) /\ InBounds(nodes')
  /\ path' = p /\ value' = p
  /\ UNCHANGED <<dirs, opened, creating, mkdirs>>

\* Its arrow, which a node that is loading does not show.  The path comes
\* first: a closed node it goes to has opened before it is toggled.
ClickArrow(p) ==
  /\ p \in DOMAIN nodes /\ ~nodes[p].loading
  /\ LET followed == Follow(nodes, p, creating)
         ns == Toggle(followed, p, p, creating)
         again == ns[p].open /\ ns[p].children \in {{}, Unknown}
     IN  /\ nodes' = IF again THEN [ns EXCEPT ![p] = Load(@, p)] ELSE ns
         /\ InBounds(nodes')
         /\ mkdirs' = IF followed[p].open THEN OrphanAtClose(p) ELSE mkdirs
  /\ path' = p /\ value' = p
  /\ UNCHANGED <<dirs, opened, creating>>

\* "New folder": an input in the node of the path, which is opened for it.
StartCreateFolder ==
  /\ opened /\ creating # path
  /\ creating' = path
  /\ nodes' = IF path \in DOMAIN nodes
              THEN Mount([nodes EXCEPT ![path] = ForInput(@, path)], path, path) ELSE nodes
  /\ InBounds(nodes')
  /\ mkdirs' = WithoutInput(mkdirs)
  /\ UNCHANGED <<dirs, opened, value, path>>

InputShown == creating \in DOMAIN nodes /\ nodes[creating].open

CancelCreateFolder ==
  /\ InputShown
  /\ creating' = Nowhere
  /\ mkdirs' = WithoutInput(mkdirs)
  /\ UNCHANGED <<dirs, opened, value, path, nodes>>

\* handleSubmit of the input, which waits for its answer; an input that has
\* taken its place does not.
SubmitFolder ==
  /\ InputShown /\ Append(creating, NewName) \in Paths
  /\ ~\E m \in mkdirs : m.input
  /\ \E i \in 1 .. MaxMkdirs :
       /\ \A m \in mkdirs : m.id # i
       /\ mkdirs' = mkdirs \cup {[id |-> i, parent |-> creating, state |-> "sent",
                                 tree |-> TRUE, live |-> TRUE, input |-> TRUE]}
  /\ UNCHANGED <<dirs, opened, value, path, creating, nodes>>

-----------------------------------------------------------------------------
(***************************************************************************)
(* Answers.                                                                *)
(***************************************************************************)
\* A listing of p: every child node is made anew.  Of the directories made
\* since it was asked for it may show any.
AwaitedLast(n, i) == n.last = "awaited" /\ i = Len(n.loads)

Loaded(p, i, children) ==
  LET ns == Dispose(nodes, p) IN
  Mount([ns EXCEPT ![p].isLoaded = TRUE, ![p].children = children, ![p].loading = FALSE,
                   ![p].loads = RemoveAt(@, i),
                   ![p].last = IF AwaitedLast(nodes[p], i) THEN "shown"
                               ELSE IF @ = "shown" THEN "lost" ELSE @],
        path, creating)

LoadAnswered(p, i) ==
  /\ p \in DOMAIN nodes /\ i \in DOMAIN nodes[p].loads
  /\ \E children \in {nodes[p].loads[i], ChildrenIn(dirs, p)} : nodes' = Loaded(p, i, children)
  /\ mkdirs' = Orphan(p)
  /\ UNCHANGED <<dirs, opened, value, path, creating>>

\* A listing that fails closes its node.
LoadFails(p, i) ==
  /\ p \in DOMAIN nodes /\ i \in DOMAIN nodes[p].loads
  /\ LET ns == [nodes EXCEPT ![p].loading = FALSE, ![p].loads = RemoveAt(@, i),
                             ![p].last = IF AwaitedLast(nodes[p], i) THEN "lost" ELSE @]
     IN  /\ nodes' = IF ns[p].open THEN Close(ns, p, path, creating) ELSE ns
         /\ mkdirs' = IF ns[p].open THEN OrphanAtClose(p) ELSE mkdirs
  /\ InBounds(nodes')
  /\ UNCHANGED <<dirs, opened, value, path, creating>>

\* The server makes the directory, or refuses to.
MkdirRuns(m, ok) ==
  /\ m \in mkdirs /\ m.state = "sent"
  /\ dirs' = IF ok THEN dirs \cup {Append(m.parent, NewName)} ELSE dirs
  /\ mkdirs' = (mkdirs \ {m}) \cup {[m EXCEPT !.state = IF ok THEN "made" ELSE "refused"]}
  /\ UNCHANGED <<opened, value, path, creating, nodes>>

\* The answer of a request of this tree puts an end to any input in it.
AfterAnswer(m) == IF m.tree THEN WithoutInput(mkdirs \ {m}) ELSE mkdirs \ {m}

\* Mutant: the answer goes to the dialog's value and not to an open tree.
MkdirSetsValue(m) ==
  /\ m \in mkdirs /\ m.state = "made"
  /\ value' = Append(m.parent, NewName)
  /\ mkdirs' = AfterAnswer(m)
  /\ path' = IF m.tree THEN value' ELSE path
  /\ creating' = IF m.tree THEN Nowhere ELSE creating
  /\ nodes' = IF opened /\ m.tree THEN Follow(nodes, value', creating') ELSE nodes
  /\ InBounds(nodes')
  /\ UNCHANGED <<dirs, opened>>

\* Mutant: load() without force, which keeps what it has.
MkdirMadeUnforced(m) ==
  /\ m \in mkdirs /\ m.state = "made"
  /\ value' = Append(m.parent, NewName)
  /\ path' = IF opened THEN value' ELSE path
  /\ creating' = IF m.tree THEN Nowhere ELSE creating
  /\ LET ns == IF opened THEN Follow(nodes, value', creating') ELSE nodes
         n  == [ns[m.parent] EXCEPT !.made = @ \cup {value'}]
     IN  nodes' = IF m.live THEN [ns EXCEPT ![m.parent] =
                    IF n.children \in {{}, Unknown} THEN Load(n, m.parent) ELSE n] ELSE ns
  /\ InBounds(nodes')
  /\ mkdirs' = AfterAnswer(m)
  /\ UNCHANGED <<dirs, opened>>

\* onSuccess: the new directory becomes the value of the dialog, and the path
\* of the tree that is open now, whichever asked for it; the node that asked
\* is listed again if it is still there.
MkdirMade(m) ==
  /\ m \in mkdirs /\ m.state = "made"
  /\ value' = Append(m.parent, NewName)
  /\ path' = IF opened THEN value' ELSE path
  /\ creating' = IF m.tree THEN Nowhere ELSE creating
  /\ LET ns == IF opened THEN Follow(nodes, value', creating') ELSE nodes
         n  == [ns[m.parent] EXCEPT !.made = @ \cup {value'}]
     IN  nodes' = IF m.live THEN [ns EXCEPT ![m.parent] = Load(n, m.parent)] ELSE ns
  /\ InBounds(nodes')
  /\ mkdirs' = AfterAnswer(m)
  /\ UNCHANGED <<dirs, opened>>

MkdirRefused(m) ==
  /\ m \in mkdirs /\ m.state = "refused"
  /\ creating' = IF m.tree THEN Nowhere ELSE creating
  /\ mkdirs' = AfterAnswer(m)
  /\ UNCHANGED <<dirs, opened, value, path, nodes>>

TreeNext ==
  \/ OpenTree \/ CloseTree
  \/ \E p \in DOMAIN nodes : ClickName(p) \/ ClickArrow(p)
  \/ StartCreateFolder \/ CancelCreateFolder \/ SubmitFolder
  \/ \E p \in DOMAIN nodes : \E i \in DOMAIN nodes[p].loads : LoadAnswered(p, i) \/ LoadFails(p, i)
  \/ \E m \in mkdirs : MkdirRuns(m, TRUE) \/ MkdirRuns(m, FALSE) \/ MkdirMade(m) \/ MkdirRefused(m)

TreeSpec == TreeInit /\ [][TreeNext]_treeVars

-----------------------------------------------------------------------------
(***************************************************************************)
(* Properties.                                                             *)
(***************************************************************************)
\* What is highlighted is what OK will send.
DestinationShown == opened => path = value

\* While a node shows the listing it asked for last, it shows every directory
\* that was made in it and that it was told of: whatever else was asked for,
\* failed or overtaken before, closed and opened again.
ListsWhatItMade ==
  \A p \in DOMAIN nodes : nodes[p].last = "shown" => nodes[p].made \subseteq nodes[p].children

\* The node in which a directory is being made stays open, and is listed or
\* being listed, through failed listings, clicks on its arrow and all that
\* makes it anew: nobody loses the input by anything but its end.
InputKept ==
  creating \in DOMAIN nodes =>
    LET n == nodes[creating] IN n.open /\ (n.isLoaded \/ n.loads # <<>>)
=============================================================================
