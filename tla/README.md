# Rulist in TLA+

Rulist is a single-binary web file manager: an axum server that gives each user
one directory of the host (`src/src`), a SQLite database of users, a management
console that is a process of its own, and a SolidJS client (`src/web`). This
directory holds TLA+ models of it, TLC configurations that check them on small
instances, and proofs for TLAPS. `PROJECT.json` lists the components, the runs,
the code lines each definition stands for, the hazards of the code and the
theorems.

## 1. The system

| component | state it keeps | operations | talks to |
|---|---|---|---|
| file operations, `filesystem/ops.rs` | none of its own: the directory tree, and hidden `.rulist-*` entries while it works | rename without replacing, safe copy, safe move, move across devices, recursive copy and removal | the file system, one system call at a time |
| user directory, `filesystem/local.rs` | the process-wide `LISTING_CACHE` (one directory, a generation) | list, get, open, mkdir, remove, rename, batch rename, move, copy | ops.rs; every mutation makes a `ListingMutation` guard |
| mutating handlers, `server/files/mutate.rs`, `upload.rs` | none; each request is a task that can be dropped at any await | mkdir, rename, batch rename, move, copy, delete of several names, upload | local.rs |
| browsing and streaming, `server/files/browse.rs`, `stream.rs`, `sign.rs` | none; links carry an expiry and a context | list, get, dirs, link, download, preview, ranges | local.rs, users table |
| login and authentication, `server/auth.rs`, `server/security.rs`, `auth.rs` | the semaphore of password hashes; tokens live at the clients | login with password and TOTP, logout, `/me`, authentication of each request | users, `revoked_tokens`, `login_attempts` |
| database, `db/` | users, revoked tokens, login attempts, schema version | one statement per change; `pwd_ts` stamps the credentials | SQLite, shared by server and consoles |
| configuration and start-up, `config.rs`, `db/mod.rs`, `app.rs` | `config.json`, the schema version, the first administrator | create or load, initialise, seed | both processes |
| console, `interactive.rs` | a copy of the user it manages, as last read | password, directory, permission, 2FA, enable/disable, delete, add | users table |
| names, sorting, paging, previews | none: pure functions | | |
| web: directory state, `useFiles`, `store/files.ts`, `store/history.ts` | the listing shown and its generation, the selection, filter and sort order, 50 history entries, known directories, the session | navigate, go back, refresh, page, search, select, sort, sign in and out | the server |
| web: dialogs, `toolbar/*`, `FolderTree.tsx` | the dialog open, the chosen destination, the tree of directories | delete, rename, move, copy, make a directory | the directory state, which they read when they are confirmed |
| web: uploads, `uploads/*` | files being read, waiting or in a batch, the dialog | drop, pick, a pool of three, retry, refresh at the end | the server, the directory state |
| web: package download, `PackageDownload.tsx`, `zip-stream.js`, `sw.js` | the walk, requests ahead, the archive being written, the worker's map of streams | walk the selection, fetch, pack, pipe | the server; a service worker that answers the browser's download |

What is hard here is concurrency without locks. Every request is a task; the
server takes no lock on the file tree and the database only makes single
statements atomic, so the steps of two requests interleave at every `.await`. A
client that hangs up drops the handler's future at an `.await`, without running
the rest of it. The file operations therefore build their guarantees from
`RENAME_NOREPLACE`, staging, backups and restoring; the listing cache from a
generation and a stamp; the sessions from a credential stamp (`pwd_ts`) carried
by tokens and links; a start of the program from `create_new`, `IF NOT EXISTS`,
unique indexes and validation of what it finds; the web client from a request
generation. These are the mechanisms the models are about.

What makes each part correct:

* file operations - data once stored is not lost unless an operation that was
  asked to replace or remove it does; no partial file is visible; a failed
  overwrite restores; an undisturbed operation is all or nothing.
* batch rename - no entry is lost or duplicated; all or nothing when undisturbed.
* listing cache - a listing is never older than a mutation that had ended, or a
  change of stamp that had happened, when it was asked for.
* sessions - a token or link is accepted only for the credentials it was issued
  on; logout, passwordless login and TOTP codes keep their promises.
* login limit - valid credentials are never throttled; wrong guesses of a name
  are bounded in time; the table is bounded in size.
* browser - what is shown is of the path in the address bar, not older than when
  it was asked for, and of the session signed in; the page settles.
* selection and dialogs - what a dialog does is done to rows that were in sight and
  highlighted when it was opened; rows are in the order their header indicates.
* destination dialog - what is highlighted is what is sent; a directory just made
  is listed.
* upload queue - no chosen file is lost or sent twice; each batch keeps its pool
  full and ends.
* package download - an archive shown as complete is whole, and a download ends.
* start-up - processes that start together share one secret and one administrator;
  once the program has run, every later start succeeds.
* multi-name transfers - see the plan.

## 2. The modules

**Transfer** (ops.rs, rename_safe, mkdir, remove, upload_handler). Each operation
`o` is a request with a program counter `pc[o]`; an action is one system call
with its success and its error branch. `files` is the visible directory,
`stage[o]` and `backup[o]` are the hidden entries the operation has made under
fresh random names, `existed[o]` is the local `dst_exists` / `had_destination`.
`Begin` takes a job from `Jobs`; `Cancel` is the future being dropped or the
process being killed. A call that cannot succeed errs; `MaxFaults` more may err
for outside reasons (I/O errors, a full disk). Files are stored in one step or by
`Fill`/`Filling` (copy) and `Create`/`Receive` (upload), so that a copy under way
is visible to the model; a directory is filled and emptied in two steps, so that
half of one is. `known`, `copied`, `claims` and `taken` are history variables; the
requests are the finitely many that have come so far.

**TransferAlone** states that Transfer with one operation implements
**AtomicTransfer**, the promise: each operation has its whole effect or none,
wherever it ends. The mapping counts an entry that is set aside as still in its
place. A move across devices is two effects, copy and removal, and a directory's
removal may stop half-way; the abstract specification says so. **TransferProof**
proves all that the two runs check.

**BatchRename** (`LocalFs::batch_rename`): the four forward loops and the two
rollback loops, one `rename_no_replace` per step. Pairs that change nothing are
skipped by the code in every loop; here `Changing` is the list of the others.
**SelectionProof** proves what it promises.

**ListingCache** (`LocalFs::list`, `ListingMutation`): the two critical sections
of `list` around its scan, the guard's two invalidations, a guard dropped with
its call still running (`Abandon`), other programs (`Outside`), and a clock. A
directory is its version; a change may or may not give it a new stamp.
**ListingCacheProof** proves what it promises.

**Accounts** (db/users.rs, interactive.rs): the row of one user name, the clock
and the consoles, which act on the row as they last read it. **Sessions** extends
it with logins, tokens, authenticated requests, logout and signed links, one step
per database query. **SessionsProof** proves what they promise.

**LoginLimit** (db/security.rs, the failure paths of `login_handler`): the
attempt table and the requests between its statements. `Readings` lets the clock
be read up to `MaxLag` before the statement runs. What a login finds in the users
table is its `verdict` here and Sessions' matter there. **LimitsProof** proves what
it promises.

**FileLoading** (web: `useFiles`, `store/files.ts`, `store/history.ts`,
`store/reset.ts`, `Content`, the response interceptor, `MustUser`): an action is
what JavaScript runs between two awaits - an event of the user, an answer, a
timer. `pending` holds the loads that await something, each with the generation
it took; `Answer` (external) is the server's reply, and the actions after it are
what the load does with it. `LateRefresh` is the refresh of an upload dialog that
has been disposed of: its `pathname()` is a memo that keeps its last value.
`floor` and `stray` are history variables. Scrolling and sorting are left out.
**FileLoadingProof** proves its safety properties.

**FolderView** (web: `store/files.ts`, `List`, `ListItem`, `Folder`, `Toolbar` and
the dialogs Delete, Rename, CopyMove and the new-directory input): the rows of one
listing, which of them are selected (`view.sel`), the filter, the saved sort
orders, the pages, the history and the dialog that is open. Only the load that is
still wanted is kept; that superseded ones change nothing is FileLoading's subject.
A dialog keeps nothing of what it was opened for; its `names`, `dir` and `left`
are history variables that remember it. Names are numbers in the order of the
sort; the other sort keys are abstracted to that order.

**FolderTree** (web: `FolderTree.tsx`): the dialog's value, the tree's mounted
nodes, each with the listings it awaits, and the requests to make a directory, each
with the input it was typed into. A listing that arrives makes the node's children
anew. The effect that shows the input for a name reads `isOpen` and runs again
whenever its node closes: `ForInput` and `Close` open the node again and ask for what
is not listed, twice. A node's `made` and `last` are history variables: what it was
told is made in it, and whether the listing it asked for last is awaited, shown, or
lost. **DialogsProof** proves the safety properties of FolderView and of FolderTree;
it extends both modules, hence the names `TreeInit` and `TreeNext` here.

**UploadQueue** (web: `Upload`, `uploads/util.ts`, `asyncPool`, `DropZone`,
`UploadModal`): files being extracted, waiting for the dialog's code, or in a
batch; each batch is one call of `handleAddFiles` with its pool of three. `Finish`
is the settling of an upload's promise together with the pool's loop, which
starts what it has room for before it awaits again. What the server does with an
upload is Transfer's matter. **LimitsProof** proves its safety properties beside those
of LoginLimit; it extends both, hence the names `QueueInit` and `QueueNext`.

**ZipStream** (`zip-stream.js`) is the archive writer as operators from writers to
writers, and **PackageDownload** (`PackageDownload.tsx`, `Download.tsx`, `sw.js`)
the rest: the walk of the selection, the requests `Concurrency` ahead of the file
being written, `pull` and its awaits, the pipe, and the service worker in its two
modes, in which the message, the stream and the browser's fetch come in any order.
Offsets, sizes and counts are stored modulo `Uint32` and `Uint16`. A path is the tuple
of its positions in the listings (`TreeAssumption`), so the order of the walk is the
order of paths; `ArchiveOf` and `Directory` say what a reader of the archive expects.
**SelectionProof** proves its safety properties beside those of BatchRename, which it
extends, too: hence the names `PackageInit` and `PackageNext`.

**StartUp** (`config.rs`, `db/mod.rs`, `validate_admin_invariants`, `seed_admin`):
each process finds or creates `config.json`, reads the schema version, validates
tables of no version, makes what is missing, records the version, checks the
administrators and seeds one. Every system call and SQL statement is a step;
`Dies` kills a process, or fails a call, at any of them. The database may be new,
of this program, or of something else. **StartUpProof** proves its safety properties.

`MC*.tla` give the constants for TLC. Operators commented "Mutant" are plausible
mistakes; each is paired in `PROJECT.json` with the property that catches it.

## 3. What the runs check

| run | instance | properties |
|---|---|---|
| transfer | 2 operations of any kind, 3 names on 2 devices, 2 failing calls | TypeOK, NoLoss, VisibleFilesWhole, DestinationGivenBack |
| transfer_alone | 1 operation, 3 names on 2 devices, 3 failing calls | AllOrNothing (refinement), CleanFailure |
| batch | 2 batches of up to 2 pairs or a cycle of 3, 4 names, 2 failing calls | NothingLost, StrandedByAnother, AllOrNothing |
| listing | 2 listers, 2 views of a directory, 1 mutator, outside changes, 4 instants, TTL and scans of 1 | Fresh, BoundedStaleness |
| sessions | 2 consoles, 2 logins, 1 request, 2 directories, 2 seconds, 1 change that ends sessions | CurrentCredentials, LoggedOut, PasswordlessEnds, OtpOnce |
| login | 3 requests, 2 names, limit 1, cap 1, window 2, 4 seconds, readings up to 1 late | TwoWindows, ValidPasses, RowsBounded |
| loading | a directory and an entry of it, 2 pages, 1 history entry, 2 sessions, 4 user actions, 1 change | ShownIsCurrentButForStrays, NothingOlder, NothingOfOthers, Settles (liveness) |
| folder | 2 directories with names in common, one with 1 or 2 pages, a filter, 4 loads, 1 operation | TypeOK, SelectedVisible, ActsOnWhatItWasOpenedFor, InTheOrderIndicated |
| tree | the root, 1 directory, 1 that is made in it, 3 listings awaited at a time, 2 requests | DestinationShown, ListsWhatItMade, InputKept |
| uploads | 3 files, pool of 2, 1 navigation, 1 retry of each file | InOnePlace, PoolIsFull, EveryFileEnds (liveness) |
| package | 6 selections of files and directories, 2 requests ahead, both modes, offsets modulo 16, counts modulo 4 | CompleteIsWhole, FetchedOnce, DownloadEnds (liveness) |
| startup | a server and a console, a new or a found directory and database, 2 deaths | OneSecret, RunsWithOneAdmin, StartsAgain, ForeignUntouched (action), ComesToRun (liveness) |

ListingCache, BatchRename, Sessions, LoginLimit, FileLoading and UploadQueue
(`QueueTypeOK`) state a type invariant that holds on the same instances; no run asks
for it.

What they show, and where the code's promises end:

* **NoLoss** holds for any two interfering operations, with the exceptions its
  comment names. The case-only *move* undoes itself with plain `rename`
  (ops.rs:174), so it can fail and have replaced a newcomer; `rename_safe` uses
  `rename_no_replace` there. A move across devices removes whatever stands at
  its source when the copy is in place, also what was stored there meanwhile. That
  may be data of which another operation is just making a copy, which is then
  incomplete: `claims` grants what such a removal finds, whoever else reads it.
* **DestinationGivenBack**: a failed overwrite leaves the destination under its
  hidden backup name only if a call failed for an outside reason or another
  request took the name in the window. *When* it took it matters: the name may be
  free again by the time the operation has failed, so the property reads `taken`, and
  not the directory as it is.
* **CleanFailure** allows one failure of each operation. Two leave hidden
  entries behind, which nothing ever removes; so does a dropped request.
* **AllOrNothing** (batch) holds undisturbed. Two interfering batches that both
  succeed need not equal either order of the two: with four names, a -> b, b -> c
  beside c -> b, b -> d is a counterexample, which is why no property claims it.
* **BoundedStaleness**: the time a change no guard covers can stay hidden is the
  TTL *plus the duration of a scan*, because `created` is read after the scan.
* **LoggedOut** is about the time before a token's `exp`. After it,
  `is_token_revoked` ignores the row while the JWT library grants 60 s of leeway,
  so a logged-out token is accepted again in that minute. Logout also does not
  end signed links, which live five minutes.
* **PasswordlessEnds** needs two consoles to be interesting: what protects it
  against a stale view is the CHECK of the users table, not the console.
* **TwoWindows**: the limit is of failures per window, and a window begins with its
  first failure, so twice the limit can fall into a span as long as a window; no
  interleaving makes it more. `already_limited` alone would not achieve that: it
  is read before hashing, and the bound comes from the count the insertion
  returns. A full table, an eviction and a valid login start the count afresh.
* **ShownIsCurrentButForStrays** has one exception, see Known deviations.
* **Settles** excepts a link to the path already in the address bar, clicked while
  that path is being restored from the history: the click drops the entry, the
  restoration finds none, and nothing loads the page.
* **ActsOnWhatItWasOpenedFor** says "nothing but": a refresh that arrives while a
  dialog is open may leave fewer rows selected than were highlighted, never others.
  It excepts dialogs left open while the address changed, see Known deviations. The
  anchor of a range survives reloads, so a range can begin at another row than the
  one last clicked; what is then selected is highlighted. An answer closes whatever
  dialog is open, also one opened since. A sort order chosen while a listing is
  being restored from the history is saved and shows at the next load only.
* **ListsWhatItMade** is about the listing a node asked for last, when that is what it
  shows. Listings are not numbered, so an earlier one that comes after it shows the
  older state, and stays: no document promises otherwise.
* **DestinationShown**: an answer to a request for a directory that arrives after the
  dialog was closed and opened again still changes the destination, visibly. Clicking
  the arrow of a closed node that is not the active one opens and closes it, unless an
  input is shown in it.
* **InputKept**: while an input is shown, a node whose listing fails opens again and
  asks twice, and so on for as long as listings fail; nothing slows it down.
* **InOnePlace** counts files that could be read. Files dropped in a dialog that was
  closed before they were read become a batch that nobody sees.
* **CompleteIsWhole** is about archives within the limits of the format: beyond
  2^32 bytes or 2^16 files the download is shown as complete with a directory whose
  numbers have wrapped. Two names that are equal without the blanks around them fail
  the archive. In the mode that sends chunks as messages, a cancelled download also
  ends as complete: the worker's message is only logged.
* **DownloadEnds** excepts a download that the service worker lost: it was restarted,
  or the browser's fetch overtook the transferred stream (sw.js:41). The page then
  waits for ever (`LostByWorker`).
* **ComesToRun** excepts what nothing recovers from: a death between creating
  `config.json` and its last byte, or between two statements that make tables,
  leaves a file or a database that every later start refuses. Of two processes that
  start for the first time together one may be refused - `create_new` fails, the
  tables are half made, or the other's administrator appears between two queries -
  but one of them runs, and then **StartsAgain** holds. A process that dies after
  inserting the administrator and before printing the password leaves one that
  nobody knows; a console resets it.

Known deviations. These are not runs; they are what the code does where a reader of
its tests or comments may expect something else.

* A dialog closed in one directory while its uploads run refreshes that directory
  when they end, over the page of another (Upload.tsx:111; compare
  `tests/file-loading.test.ts:128`). The rows shown then belong to the old
  directory, and what the user does to a row is done to `pathname()` joined with
  its name. TLC shows it when `ShownIsCurrent` is added to MCFileLoading.cfg.
* `handleFile` asks for `pathname()` when the upload's turn comes (Upload.tsx:144):
  a navigation sends the rest of a batch, and every retry, to the directory then
  shown, although the drop zone says "current directory" when the files are dropped.
* A dialog that stays open while the browser goes back acts, when it is confirmed,
  on the selection of the directory then shown (Delete.tsx:36, 43).
* A dropped directory with an entry that cannot be read is not uploaded, and nothing
  says so (uploads/util.ts:26).

Bounds. Two operations (requests, logins, consoles) are the number at which every
property here can be violated by interference; the mutants show that each run's
instance is large enough to break its properties when the code is changed. Three
names let two operations share none, one or both of theirs; two devices make a
move between them fall back to copying; the batch run has the names for a swap and
for a cycle beside a free name. Limits, caps, windows and lifetimes are as small
as lets them be reached, exceeded and, with `MaxTime`, outlived. `MaxFaults` covers a
failing step whose cleanup fails as well. `MaxEras`, `MaxTime`, `MaxChanges`,
`MaxGuards` cut off counters the code never resets. With two logins and two
consoles `MaxEras` is 1, one change under everything else; that any number of
changes, each other's reversal or not, breaks nothing is what SessionsProof adds.
All models but StartUp stop when their requests have ended, so deadlock is checked
only there. In FileLoading and FolderView `MaxLoads` bounds the user, not the
program: below the bound the user acts, above it answers still arrive and loads
still follow each other. `MaxListings` of FolderTree bounds the listings awaited, over
all nodes: three are two of one node, of which one can overtake the other, beside one
of its parent or child, or beside the second that a failure with an input asks for;
with two requests an input that has replaced another can ask before the first is
answered. In FolderView a page of 3 makes
the second page of four names one row, which goes when the listing shrinks. In
UploadQueue each file is chosen once and called by its turn, which makes files
interchangeable without a symmetry set; a run of three files over a pool of two has
one that waits; `StartDir` names one of two directories that are alike. In
PackageDownload there is one download at a time, as the page has one dialog; the
selections have nested and empty directories, an empty file, and two names that
collide when trimmed; the moduli are small enough that the largest archive wraps.
`MaxDeaths` lets a death be followed by another at the repair.

Fairness. The server's handlers are bounded sequences of calls and end by
construction, so nothing is claimed of them. In the browser, weak fairness says
that requests are answered or fail and that promises and timers run
(`FileLoading!Fairness`, `PackageDownload!Fairness`), that every upload's request
ends and that the dialog's code arrives (`UploadQueue!Fairness`), and that the
service worker gets its messages and the browser saves what it is given. The client
sets no timeouts, so this is the browser's and the network's doing. Nothing says
that a dropped directory is ever read, and no fairness is assumed of the user. In
StartUp processes run, and one that has ended is started again, by a service manager
or a person; deaths are bounded, for nothing comes to run that is killed each time.

## 4. What is proved

`TransferProof` proves, for every finite set of names and of requests of any kind, any
placement on devices and any number of failing calls:

* `TypeCorrect`: `Spec => []TypeOK`;
* `OnlyWholeFiles`: `Spec => []VisibleFilesWhole`;
* `GivesBack`: `Spec => []DestinationGivenBack`;
* `NothingIsLost`: `Spec => []NoLoss`;

and, for every single request (`Ops = {o}`), whichever of its calls fail and wherever it
is cut off:

* `AloneIsAtomic`: `Spec => AllOrNothing`, the refinement of AtomicTransfer;
* `AloneIsTidy`: `Spec => []CleanFailure`.

NoLoss is not inductive: one request may remove data that another is about to remove
as well, or copy. The invariant counts (`Enough`): of data that no request was entitled
to destroy, unless it has failed and kept its hands off, there are more complete
copies - visible or in a backup - than requests that have published a copy and are about
to remove the original (`Owing`). A rename moves a copy; a move across devices makes one
before it owes one; any other removal is an entitled one. What each program counter
says of a request's hidden entries and of its history is `OpFits` and `HistoryFits`;
one lemma per system call shows that they are kept, and `Enough` with them. For one
request `AInv` says more (`Asks`, `Finds`, `Stages`, `Blames`): what each step still finds of what the
request read before; `See` reads the abstract directory off it. The step lemmas of the
second part show that each call is a step of AtomicTransfer or leaves it alone. The
proof showed that earlier, stronger forms of NoLoss and DestinationGivenBack
held of the two operations of the run but fail with four and with three.

`SelectionProof` proves of BatchRename, for every number of batches, pairs, names and
failing calls:

* `NothingIsLost`: `Spec => []NothingLost`;
* `StrandedOnlyByOthers`: `Spec => []StrandedByAnother`;
* `RenamesAllOrNothing`: `Spec => []AllOrNothing`;

and the TypeOK they rest on. NothingLost needs that no entry is in two places
(`Single`). StrandedByAnother needs, while no call has failed, that every pair whose
entry is out of its place has its old name free or a request at work on it (`Clear`),
and that a batch that gives up can blame another (`Blames`, by way of the names a
request works on, `Claims`). AllOrNothing is by `AloneInv`: while one batch runs, which
entries are out (`Out`) and which have landed (`Placed`) is a function of its
program counter and index, and laying them back gives the directory it found
(`Atomic`). Nothing is assumed of a list of pairs
but that it is one: that a batch never stands in its own way is due to `Distinct`, to
the probe of every new name, which leaves only its own old names occupied, and to the
order of the rollback.

And of PackageDownload, for every tree, selection, lengths of files, moduli, capacity
and number of files fetched ahead:

* `FetchesOnce`: `PackageSpec => []FetchedOnce`;
* `HandsOverTheWhole`: `PackageSpec => []CompleteIsWhole`.

FetchesOnce needs that the requests of files not yet reached are all in the map, and
that the map is within a window that `currentIndex` slides (`Requested`).
HandsOverTheWhole has three invariants. `WalkInv`: the files collected, then what is
still to be walked, are in the order of the archive, and together they are all there
is below the selection (`Collected`); replacing a directory by its listing keeps that.
`ArchiveInv`: while the writer's stream is readable it has entered the first `e` files
(`Entered`: names, offsets and lengths are right so far) and is between two of them or
within the last (`Between`, `Within`); what it has handed over and what it has queued
is, put together, the archive up to there. `ChannelInv`: no more than `Cap` chunks are
out that the browser has not taken. What `ArchiveOf` and `BytesOf` compute for any
number of files is proved by induction: a set of naturals that has 0 and every
successor has them all (`NaturalInduction`, from the well-foundedness of their order),
and their recursive functions are unfolded with it (`Recursion`, `RecursionIsUnique`).
Assumptions: ZipAssumption, PackageAssumption and TreeAssumption, that is, the
constants' types and that paths are positions in a tree.

`StartUpProof` proves, for any set of processes and any number of deaths:

* `SecretIsOne`: `Spec => []OneSecret`;
* `AdminIsOne`: `Spec => []RunsWithOneAdmin`;
* `KeepsStarting`: `Spec => []StartsAgain`;
* `LeavesForeign`: `Spec => [][ForeignUntouched]_vars`.

The invariant says what each place of a process's way has made true of the file and the
database and that no other process can undo (`ConfigFits`, `TablesFit`, `RowsFit`):
`create_new` gives one writer, tables once whole stay so, the unique index
admits one administrator. `LaterFits` and `ServedFits` say that once a process has
run, nothing a later start validates can refuse it.

`ListingCacheProof` proves, for every number of listers, mutators, directories
and views, all times and bounds:

* `TypeCorrect`: `Spec => []TypeOK`;
* `Freshness`: `Spec => []Fresh`;
* `NeverLongStale`: `Spec => []BoundedStaleness`.

Assumptions: those stated in ListingCache about its constants. Fresh is not
inductive: that a cached entry is as new as every settled change with its stamp
depends on what each scan under way will store. The invariant IInv adds: stamps
and creation times never exceed the clock (`Clocks`); an entry in the cache shows
every settled change its directory's stamp stands for (`EntryGood`); what is
settled is never ahead of the versions (`Lagging`); a lister whose generation is still
current began its scan after everything settled so far with the stamp it read
(`ScanGood`); a hit is as new as its floor (`HitGood`). One lemma per action
shows that IInv is preserved; the step that needs the generation is `StoreInv`,
the step that needs the stamp is `AlterInv`. BoundedStaleness has an
invariant of its own, `TInv`: the entry shows all that was true more than
`MaxScan` before its creation (`EntryCovers`), a scan all that was true before it began,
and a hit all that was true `TTL + MaxScan` before it was asked for.

`LimitsProof` proves of LoginLimit, for every number of requests and names, every limit,
window, cap, number of permits and delay of clock readings:

* `RowsStayBounded`: `Spec => []RowsBounded`, from the rows' being finitely many;
* `ValidCredentialsPass`: `Spec => []ValidPasses`;
* `GuessesBounded`: `Spec => []TwoWindows`.

TwoWindows needs an account of *eras*, an era being the life of a row. `EraInv`
says that at most LIMIT answers belong to the current era (`Answered`), that all
earlier ones came before the row was inserted, but for a late reading
(`EarlierEras`), and that those of eras before the last are a window old
(`OldEras`). A row expires only when a window has passed since its `started`; that
is the step `DeleteExpiredEras`, which makes answers before the row old. The
assumption is LimitAssumption: the limits are positive.

And of UploadQueue, for every number of files, directories, navigations and retries
and every pool:

* `NoFileStrays`: `QueueSpec => []InOnePlace`;
* `PoolStaysFull`: `QueueSpec => []PoolIsFull`.

The invariant has two halves. `PlacesFit`: drops, waiting files and batches are disjoint
lists without repetition, and together they are the chosen files that can be read.
`BatchesFit`: where a file stands in its batch's list, before or behind `started`,
decides its state and how often it has been sent (`Standing`), and the batch's running
uploads are as many as the pool takes (`Full`). The pool stays full because an upload's
end makes room for exactly one (`RoomLeft`), for the next file in the list, which
nobody has sent (`NextIsSent`); `LastEnds` is the refresh. The assumption is
QueueAssumption: the pool is not empty.

`SessionsProof` proves, for every number of consoles, logins, requests and
directories, all times and any number of changes:

* `CredentialsAreCurrent`: `Spec => []CurrentCredentials`;
* `PasswordlessSessionsEnd`: `Spec => []PasswordlessEnds`;
* `LogoutHolds`: `Spec => []LoggedOut`;
* `CodesOpenOnce`: `Spec => []OtpOnce`.

Whatever is accepted is accepted by an id and a `pwd_ts`. `Of` says of such a pair,
wherever a login, a token, a request or a link holds it, that its id has been given
out, that its `pwd_ts` is not ahead of the row's, and that it is of the present era if
the row has both (`Live`). `AccountStep` is all that sessions need to know of the
consoles: the row is renewed with a larger `pwd_ts` (the step that needs
`MAX(pwd_ts + 1, ?)`), kept, deleted, or created with an id above all earlier ones;
`AccountsStep` shows that each menu entry does one of these. Then `LoginFits` and
`TokenFits` relate a live login or token to the row's password and secret, so that
the CHECK of the users table gives PasswordlessEnds; `OutFits` keeps a logged-out
token in the table until it expires; and `StepsFit` says that a TOTP step spent by a
live session is later than the enrolling one, no later than `last_otp_step`, and
nobody else's, which `last_otp_step < s` preserves (`AcceptInv`). Assumptions: the
constants' types, and a period that is positive.

`FileLoadingProof` proves, for any paths, sessions, history limit and bounds:

* `NothingOfOtherSessions`: `Spec => []NothingOfOthers`;
* `ShownIsOfTheAddress`: `Spec => []ShownIsCurrentButForStrays`;
* `NothingOlderShown`: `Spec => []NothingOlder`.

None is inductive, since answers arrive late. The invariant says of every load under
way that it is no younger than the generation, and that one as young as it is of the
current session, of the address (unless a stray refresh has run) and brings nothing
older than the path's floor (`TasksFit`); that each history entry and the view would
pass if shown (`HistoryFits`, `ViewFits`); and that the server has reached every floor
(`FloorsReached`).

`DialogsProof` proves, for any directories, names, contents and bounds:

* `SelectionInSight`: `Spec => []SelectedVisible`;
* `ActsAsOpened`: `Spec => []ActsOnWhatItWasOpenedFor`;
* `ListingsWellFormed`: `Spec => []TypeOK`;
* `OrderIsIndicated`: `Spec => []InTheOrderIndicated`;
* `MadeIsListed`: `TreeSpec => []ListsWhatItMade`;
* `InputIsKept`: `TreeSpec => []InputKept`;
* `ShownIsSent`: `TreeSpec => []DestinationShown`.

The first two need that history entries were recorded with no filter or no selection
(`HistoryInSight`), that nothing is shown while one is restored (`Restoring`), and
that a dialog not left open reads what it was opened for, or less (`Aimed`).
The next two rest on the rows: any set of names has an order, because a name's place
is one more than the number of names before it (`OrderExists`, by cardinalities of
finite sets), so `Rows` is a page of a sorted listing (`RowsFit`) and there is a last
page (`PagesFit`). Their invariant (`Listed`) adds to IInv that rows shown are those of
the address (`ShownFits`), that the load under way asks in the order the header shows
already (`AskedFits`), and that a history entry is of its directory and in its own order
(`RecordedFits`), which is why it may be shown as it is. MadeIsListed needs `Lists`:
the listing a mounted node asked for last, awaited or shown, has everything the node
has been told is made; and `AskFits`: a request that has been confirmed has made its
directory. InputIsKept needs `Kept` of every step that mounts, opens or closes nodes,
and that the steps that set `creatingFolderPath` open its node.

The assumptions are FolderAssumption, finitely many names and a page size that is
positive, and TreeAssumption: the directories are paths that contain the root and the
parent of each, and `Nowhere` is none of them.

Every invariant that a run checks is thus proved. Only model-checked are the
liveness properties (Settles, EveryFileEnds, DownloadEnds, ComesToRun): they hold by
fairness, which is out of the prover's reach.

## 5. What is left out

Symbolic links (every operation refuses them) and the resolution of paths; the
contents and permissions of files; nested names, except that a directory can be
half copied or half removed; durability of writes across a power failure (the
code calls no `fsync`). Hashes, signatures and random names are taken to be what
they promise. `generation` is a `u64` that wraps; it is unbounded in the model.
Presentation, HTTP details, previews and vendored assets are not modelled: they
keep no state. In the client: views of single files are in FileLoading only, and
the history's limit; the package dialog is in PackageDownload only; FolderTree leaves
out hidden directories (`hidePath`) and the comparison of paths without case. The
batch rename dialog cannot be opened - "rename" is offered for one row only - so
BatchRename models the server's side alone. In StartUp: the choice of the data
directory, permissions of files, the pool's settings, and the disabled administrator,
which counts as one of another name.

## 6. Plan

1. *done* Transfer, TransferAlone against AtomicTransfer; ListingCache; BatchRename;
   Accounts and Sessions; LoginLimit; FileLoading; FolderView; FolderTree;
   UploadQueue; ZipStream and PackageDownload; StartUp. Proofs of all of them.
2. TransferBatch: `prepare_transfer` with its conflict policies and the loops of
   move, copy and delete over Transfer's promise; what the message "N item(s)
   already moved" means when a name changed after the probe.
3. Pure operators against reference definitions: `parse_range`, `natural_cmp`.
   Each with theorems beside those of the module it joins.
