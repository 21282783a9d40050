-------------------------- MODULE PackageDownload --------------------------
(***************************************************************************)
(* Downloading a selection as one archive.  The page walks the selected    *)
(* directories, fetches the files a few ahead of the one it is writing,    *)
(* packs them with ZipStream and pipes the archive to a service worker     *)
(* (sw.js), which answers the browser's download with it.                  *)
(*                                                                         *)
(* A path is the tuple of positions in the listings on the way to it, so   *)
(* that a walk in depth-first order is an increasing sequence of paths.    *)
(***************************************************************************)
EXTENDS ZipStream, Functions

CONSTANTS
  Selections,   \* the selections to try: sequences of paths below the folder
  Children,     \* Children[p]: the listing of the directory p
  Chunks,       \* Chunks[p]: the length of the file p
  TrimTo,       \* names of entries with blanks around them, and without
  Concurrency,  \* concurrency: fetches ahead of the file being written
  Cap,          \* chunks a transferred stream holds
  Modes         \* "transfer" (a transferable stream) and "messages"

Files    == DOMAIN Chunks
IsDir(p) == p \in DOMAIN Children
Nodes    == Files \cup DOMAIN Children
NoPath   == <<>>

ASSUME PackageAssumption ==
  /\ Concurrency \in Nat \ {0} /\ Cap \in Nat \ {0}
  /\ Modes \subseteq {"transfer", "messages"}
  /\ Files \cap DOMAIN Children = {} /\ Chunks \in [Files -> Nat]

\* Paths are positions: the entry at position k of the listing of d is the path
\* that goes to d and then to k, a path leads through directories only, and a
\* selection is of entries of one folder, in the order of its listing.
ASSUME TreeAssumption ==
  /\ Nodes \subseteq Seq(Nat \ {0}) \ {NoPath}
  /\ \A d \in DOMAIN Children : /\ Children[d] \in Seq(Nodes)
                                /\ \A k \in 1 .. Len(Children[d]) : Children[d][k] = Append(d, k)
  /\ \A p \in Nodes : \A n \in 1 .. Len(p) - 1 :
       IsDir(SubSeq(p, 1, n)) /\ p[n + 1] <= Len(Children[SubSeq(p, 1, n)])
  /\ \A s \in Selections : /\ s \in Seq(Nodes) /\ \A i \in 1 .. Len(s) : Len(s[i]) = 1
                           /\ \A i, j \in 1 .. Len(s) : i < j => s[i][1] < s[j][1]

VARIABLES
  show,       \* the dialog: "closed", "pre_tips" or "package_download"
  status,     \* 0 not begun, 2 listing, 3 downloading, 1 failed, 4 complete
  selected,   \* the selection when the download began
  pending,    \* directories and files still to collect, the next one first
  asked,      \* the directory whose listing is awaited, or NoPath
  downFiles,  \* the files to download
  fetchMap,   \* fetchMap[i]: the request for file i
  currentIndex,
  pulling,    \* pull(): "idle", "file" (awaits its response) or "chunk"
  zip,        \* the writer
  mode,       \* how the archive reaches the worker
  entry,      \* the message to the worker and its map: "none", "sent", "empty"
              \* (registered, no stream yet), "stream" or "gone"
  response,   \* what the browser got: "none", "stream", "empty" or "missed"
  taken,      \* how many of the chunks handed over the browser has saved
  cancelled,  \* the user cancelled the browser's download
  handed,     \* history: the chunks the pipe has written
  fetched     \* history: fetched[i], how often file i was requested

page   == <<show, status, selected, pending, asked, downFiles, mode>>
pull   == <<fetchMap, currentIndex, pulling, fetched>>
worker == <<entry, response, taken, cancelled>>
packageVars   == <<page, pull, zip, worker, handed>>

N == Len(downFiles)

\* The name of an entry: below the selected directory if it is the only one
\* selected, and without blanks around it.
ZipName(p) ==
  LET q == IF Len(selected) = 1 /\ Len(p) > 1 THEN Tail(p) ELSE p
  IN  IF q \in DOMAIN TrimTo THEN TrimTo[q] ELSE q

PackageInit ==
  /\ show = "closed" /\ status = 0 /\ selected = <<>> /\ pending = <<>> /\ asked = NoPath
  /\ downFiles = <<>> /\ fetchMap = <<>> /\ currentIndex = 1 /\ pulling = "idle"
  /\ zip = NewZip /\ mode \in Modes /\ entry = "none" /\ response = "none"
  /\ taken = 0 /\ cancelled = FALSE /\ handed = <<>> /\ fetched = <<>>

-----------------------------------------------------------------------------
(***************************************************************************)
(* The dialog, and the walk.                                               *)
(***************************************************************************)
\* getFileResponse for the indices is: a request already made is kept.
Request(is) ==
  /\ fetchMap' = [i \in DOMAIN fetchMap \cup is |->
                    IF i \in DOMAIN fetchMap THEN fetchMap[i] ELSE "asked"]
  /\ fetched'  = [i \in DOMAIN fetched \cup is |->
                    (IF i \in DOMAIN fetched THEN fetched[i] ELSE 0)
                      + (IF i \in is \ DOMAIN fetchMap THEN 1 ELSE 0)]

\* The loop of collectDownloadFiles up to its next await: files are collected
\* until a directory is on top, whose listing is asked for.
Walk(stack, content, files) ==
  LET queue == content \o stack
      dirs  == {i \in 1 .. Len(queue) : IsDir(queue[i])}
      k     == IF dirs = {} THEN Len(queue) + 1 ELSE CHOOSE i \in dirs : \A j \in dirs : i <= j
  IN  [files |-> files \o SubSeq(queue, 1, k - 1), rest |-> SubSeq(queue, k + 1, Len(queue)),
       dir   |-> IF dirs = {} THEN NoPath ELSE queue[k]]

\* run(), after a walk: it awaits a listing, or it has all the files: it makes
\* the download's stream and requests the first files, before any is pulled.
Continue(w) ==
  /\ downFiles' = w.files /\ pending' = w.rest /\ asked' = w.dir
  /\ \/ /\ w.dir # NoPath \/ w.files = <<>>
        /\ status' = IF w.dir # NoPath THEN 2 ELSE 1
        /\ UNCHANGED <<fetchMap, fetched, entry>>
     \/ /\ w.dir = NoPath /\ w.files # <<>>
        /\ status' = 3 /\ entry' = "sent"
        /\ Request({i \in 1 .. Len(w.files) : i <= Concurrency})

\* The "tool" event, from the toolbar or the menu of an entry.  Bound: one
\* download.
Open ==
  /\ show = "closed" /\ status = 0
  /\ show' = "pre_tips"
  /\ UNCHANGED <<status, selected, pending, asked, downFiles, mode, pull, zip, worker, handed>>

CancelTips ==
  /\ show = "pre_tips"
  /\ show' = "closed"
  /\ UNCHANGED <<status, selected, pending, asked, downFiles, mode, pull, zip, worker, handed>>

\* Confirm mounts PackageDownload, which reads the selection and runs.
Confirm(s) ==
  /\ show = "pre_tips"
  /\ show' = "package_download" /\ selected' = s
  /\ Continue(Walk(<<>>, s, <<>>))
  /\ UNCHANGED <<mode, currentIndex, pulling, zip, response, taken, cancelled, handed>>

ListAnswered ==
  /\ status = 2
  /\ Continue(Walk(pending, Children[asked], downFiles))
  /\ UNCHANGED <<show, selected, mode, currentIndex, pulling, zip, response, taken,
                 cancelled, handed>>

ListFails ==
  /\ status = 2
  /\ status' = 1 /\ asked' = NoPath
  /\ UNCHANGED <<show, selected, pending, downFiles, mode, pull, zip, worker, handed>>

CloseDialog ==
  /\ show = "package_download" /\ status \in {1, 4}
  /\ show' = "closed"
  /\ UNCHANGED <<status, selected, pending, asked, downFiles, mode, pull, zip, worker, handed>>

-----------------------------------------------------------------------------
(***************************************************************************)
(* Requests and pull().                                                    *)
(***************************************************************************)
\* The link, and then the response, of file i.
Fetched(i, outcome) ==
  /\ i \in DOMAIN fetchMap /\ fetchMap[i] = "asked"
  /\ fetchMap' = [fetchMap EXCEPT ![i] = outcome]
  /\ UNCHANGED <<page, currentIndex, pulling, fetched, zip, worker, handed>>

\* Mutant: the loop that requests ahead starts over.
AheadFromFirst(i) == {j \in 1 .. N : j <= i + Concurrency}

Ahead(i) == {j \in i + 1 .. N : j <= i + Concurrency}

\* The stream pulls when its queue is empty and no pull is pending: the active
\* file's next chunk, else the page's pull: the next file, or the end.
Pull ==
  /\ status = 3 /\ pulling = "idle" /\ zip.state = "readable" /\ zip.out = <<>>
  /\ \/ /\ zip.active
        /\ pulling' = "chunk"
        /\ UNCHANGED <<fetchMap, fetched, currentIndex, zip>>
     \/ /\ ~zip.active /\ currentIndex > N
        /\ zip' = Close(zip)
        /\ UNCHANGED <<fetchMap, fetched, currentIndex, pulling>>
     \/ /\ ~zip.active /\ currentIndex <= N
        /\ Request(Ahead(currentIndex) \cup {currentIndex})
        /\ pulling' = "file" /\ currentIndex' = currentIndex + 1
        /\ UNCHANGED zip
  /\ UNCHANGED <<page, worker, handed>>

\* Mutant: the pull does not see that its response failed.
FileAwaitedForEver ==
  LET i == currentIndex - 1 IN
  /\ pulling = "file" /\ fetchMap[i] = "ok"
  /\ fetchMap' = Restrict(fetchMap, DOMAIN fetchMap \ {i})
  /\ zip' = Enqueue(zip, ZipName(downFiles[i]))
  /\ pulling' = "idle"
  /\ UNCHANGED <<page, currentIndex, fetched, worker, handed>>

\* The response the page's pull awaits: it is taken out of the map and its
\* file enqueued; a failed one rejects the pull.
FileArrives ==
  LET i == currentIndex - 1 IN
  /\ pulling = "file" /\ fetchMap[i] # "asked"
  /\ \/ /\ fetchMap[i] = "ok"
        /\ fetchMap' = Restrict(fetchMap, DOMAIN fetchMap \ {i})
        /\ zip' = Enqueue(zip, ZipName(downFiles[i]))
     \/ /\ fetchMap[i] = "failed"
        /\ zip' = Fail(zip)
        /\ UNCHANGED fetchMap
  /\ pulling' = "idle"
  /\ UNCHANGED <<page, currentIndex, fetched, worker, handed>>

\* The active body: a chunk, its end, or an error.
ReadChunk ==
  LET file == downFiles[zip.activeZipIndex] IN
  /\ pulling = "chunk"
  /\ zip' = IF zip.lengths[zip.activeZipIndex] < Chunks[file]
            THEN WriteData(zip, file) ELSE WriteFooter(zip)
  /\ pulling' = "idle"
  /\ UNCHANGED <<page, fetchMap, currentIndex, fetched, worker, handed>>

ReadFails ==
  /\ pulling = "chunk" /\ zip.lengths[zip.activeZipIndex] < Chunks[downFiles[zip.activeZipIndex]]
  /\ zip' = Fail(zip) /\ pulling' = "idle"
  /\ UNCHANGED <<page, fetchMap, currentIndex, fetched, worker, handed>>

-----------------------------------------------------------------------------
(***************************************************************************)
(* pipeTo, the worker and the browser.  StreamSaver has put the stream in  *)
(* the port before it sends the message, but the worker registers the      *)
(* download, and answers, when it gets the message.                        *)
(***************************************************************************)
Broken == mode = "transfer" /\ cancelled

Pipe ==
  /\ status = 3 /\ zip.out # <<>> /\ ~Broken
  /\ mode = "transfer" => Len(handed) - taken < Cap
  /\ handed' = Append(handed, Head(zip.out))
  /\ zip' = [zip EXCEPT !.out = Tail(@)]
  /\ UNCHANGED <<page, pull, worker>>

Ends(st) ==
  /\ status = 3
  /\ status' = st
  /\ UNCHANGED <<show, selected, pending, asked, downFiles, mode, pull, zip, worker, handed>>

PipeCloses == zip.state = "closed" /\ zip.out = <<>> /\ Ends(4)

PipeFails == (zip.state = "errored" \/ Broken) /\ Ends(1)

\* onmessage: without a transferable stream the worker makes its own.
WorkerMessage ==
  /\ entry = "sent"
  /\ entry' = IF mode = "messages" THEN "stream" ELSE "empty"
  /\ UNCHANGED <<page, pull, zip, response, taken, cancelled, handed>>

\* port.onmessage: the transferred stream arrives.
StreamArrives ==
  /\ entry = "empty"
  /\ entry' = "stream"
  /\ UNCHANGED <<page, pull, zip, response, taken, cancelled, handed>>

\* onfetch: the entry is taken, with the stream or without; a download that is
\* not in the map goes to the network.
WorkerFetch ==
  /\ response = "none" /\ entry \in {"empty", "stream", "gone"}
  /\ response' = IF entry = "gone" THEN "missed" ELSE entry
  /\ entry' = "gone"
  /\ UNCHANGED <<page, pull, zip, taken, cancelled, handed>>

\* The browser stops an idle worker, whose map is lost.
WorkerStops ==
  /\ entry \in {"empty", "stream"}
  /\ entry' = "gone"
  /\ UNCHANGED <<page, pull, zip, response, taken, cancelled, handed>>

Save ==
  /\ response = "stream" /\ ~cancelled /\ taken < Len(handed)
  /\ taken' = taken + 1
  /\ UNCHANGED <<page, pull, zip, entry, response, cancelled, handed>>

UserCancels ==
  /\ response = "stream" /\ ~cancelled
  /\ cancelled' = TRUE
  /\ UNCHANGED <<page, pull, zip, entry, response, taken, handed>>

-----------------------------------------------------------------------------
PackageNext ==
  \/ Open \/ CancelTips \/ CloseDialog \/ \E s \in Selections : Confirm(s)
  \/ ListAnswered \/ ListFails
  \/ \E i \in DOMAIN fetchMap, outcome \in {"ok", "failed"} : Fetched(i, outcome)
  \/ Pull \/ FileArrives \/ ReadChunk \/ ReadFails
  \/ Pipe \/ PipeCloses \/ PipeFails
  \/ WorkerMessage \/ StreamArrives \/ WorkerFetch \/ WorkerStops
  \/ Save \/ UserCancels

\* The server answers, streams go on and the browser takes what it gets; the
\* user need not do anything, and no request need succeed.
Fairness ==
  /\ WF_packageVars(ListAnswered \/ ListFails)
  /\ WF_packageVars(\E i \in DOMAIN fetchMap, outcome \in {"ok", "failed"} : Fetched(i, outcome))
  /\ WF_packageVars(Pull \/ FileArrives \/ ReadChunk \/ ReadFails)
  /\ WF_packageVars(Pipe \/ PipeCloses \/ PipeFails)
  /\ WF_packageVars(WorkerMessage) /\ WF_packageVars(WorkerFetch) /\ WF_packageVars(Save)

PackageSpec == PackageInit /\ [][PackageNext]_packageVars /\ Fairness

-----------------------------------------------------------------------------
(***************************************************************************)
(* Properties.                                                             *)
(***************************************************************************)
\* The archive of the files fs: a depth-first walk of the selection, every file
\* whole and under its own name, and a directory that tells the truth.
Before(p, q) ==
  \E k \in 1 .. Len(q) : /\ SubSeq(p, 1, k - 1) = SubSeq(q, 1, k - 1)
                         /\ k <= Len(p) /\ p[k] < q[k]

IsWalk(fs) ==
  /\ Range(fs) = {p \in Files : \E s \in Range(selected) : IsPrefix(s, p)}
  /\ \A i \in 1 .. Len(fs) - 1 : Before(fs[i], fs[i + 1])

FileInArchive(p) ==
  <<Header(ZipName(p))>> \o [n \in 1 .. Chunks[p] |-> Data(p, n)] \o <<Footer(Chunks[p])>>

\* The archive of the first n files, and what is to follow the last of them.
ArchiveOf(n) == FlattenSeq([i \in 1 .. n |-> FileInArchive(downFiles[i])])

BytesOf(chunks) ==
  LET upTo[n \in 0 .. Len(chunks)] == IF n = 0 THEN 0 ELSE upTo[n - 1] + Bytes(chunks[n])
  IN  upTo[Len(chunks)]

Directory ==
  [kind    |-> "central",
   entries |-> [i \in 1 .. N |-> [name   |-> ZipName(downFiles[i]),
                                 offset |-> BytesOf(ArchiveOf(i - 1)),
                                 length |-> Chunks[downFiles[i]]]],
   count   |-> N]

\* A download shown as complete has handed over the archive of the whole
\* selection: every file once, whole and in the order of the walk, no two under
\* one name, with a directory that finds them if the archive is within the
\* limits of its format; and if the stream was transferred, the worker has
\* answered the browser's download with it.
CompleteIsWhole ==
  status = 4 =>
    /\ IsWalk(downFiles)
    /\ \A i, j \in 1 .. N : i # j => ZipName(downFiles[i]) # ZipName(downFiles[j])
    /\ Front(handed) = ArchiveOf(N)
    /\ BytesOf(ArchiveOf(N)) < Uint32 /\ N < Uint16 => Last(handed) = Directory
    /\ mode = "transfer" /\ Len(handed) > Cap => response = "stream"

\* A file is requested once, and no more than Concurrency files ahead of the
\* one being written: with a transferred stream a slow browser holds back the
\* fetches, with messages only the archive's writer does.
FetchedOnce ==
  /\ \A i \in DOMAIN fetched : fetched[i] = 1 /\ i < currentIndex + Concurrency
  /\ Cardinality(DOMAIN fetchMap) <= Concurrency + 1

\* The worker has no stream for the browser, or lost the download.
LostByWorker == mode = "transfer" /\ (entry = "gone" /\ response # "stream")

\* A download that has begun ends, complete or failed, even if files fail or
\* the user cancels it, unless the worker lost it: then a page that transfers
\* its stream waits for ever.
DownloadEnds == (status \in {2, 3}) ~> (status \in {1, 4} \/ LostByWorker)
=============================================================================
