---------------------------- MODULE ListingCache ----------------------------
(***************************************************************************)
(* LISTING_CACHE of filesystem/local.rs: one cached directory listing for  *)
(* the whole server, filled by LocalFs::list and emptied by every          *)
(* ListingMutation guard when it is made and when it is dropped.           *)
(*                                                                         *)
(* A directory is reduced to its version, the number of changes a listing  *)
(* of it would show.  Its stamp (dev, ino, mtime, ctime) is taken from a   *)
(* clock that may tick between two changes or not, and some changes - a    *)
(* file written in place, an entry of a subdirectory - leave it alone.     *)
(***************************************************************************)
EXTENDS Naturals

CONSTANTS
  Listers,    \* requests running LocalFs::list
  Mutators,   \* requests holding a ListingMutation
  Dirs,       \* directories
  Views,      \* what is listed: a directory, with hidden names or without
  DirOf,      \* the directory of each view
  TTL,        \* LISTING_CACHE_TTL
  MaxScan,    \* the longest a directory scan takes
  MaxChanges, \* bound: changes per directory
  MaxTime,    \* bound: the last instant
  MaxGuards,  \* bound: guards made
  Nothing     \* the cache is empty

ASSUME DirOfAssumption   == DirOf \in [Views -> Dirs]
ASSUME TimesAssumption   == TTL \in Nat \ {0} /\ MaxScan \in Nat
ASSUME BoundsAssumption  == MaxChanges \in Nat /\ MaxTime \in Nat /\ MaxGuards \in Nat

CachedListing == [view : Views, stamp : Nat, created : Nat, version : Nat]

ASSUME NothingAssumption == Nothing \notin CachedListing

VARIABLES
  generation, \* ListingCache.generation; u64, taken as unbounded
  entry,      \* ListingCache.entry
  version,    \* per directory: how often its listing has changed
  stamp,      \* per directory: its stamp
  now,        \* the clock
  guard,      \* per mutator: idle, held, or loose (dropped with a call under way)
  place,      \* per mutator: the directory it changes
  step,       \* per lister: where it is in list()
  want,       \* per lister: the view it was asked for
  seen,       \* per lister: the stamp it read first
  mark,       \* per lister: the generation it read under the lock
  since,      \* per lister: when its scan began, or when it looked into the cache
  found,      \* per lister: the listing it has, [view, version]
  settled,    \* history: the version that later requests must show
  floor,      \* history: per lister, settled when it was asked
  past        \* history: the versions at the end of each earlier instant

cache   == <<generation, entry>>
mutator == <<guard, place>>
lister  == <<step, want, seen, mark, since, found, floor>>
vars == <<generation, entry, version, stamp, now, guard, place,
          step, want, seen, mark, since, found, settled, floor, past>>

Steps == {"idle", "lookup", "open", "scan", "store", "hit", "done"}

TypeOK ==
  /\ generation \in Nat
  /\ entry   \in CachedListing \cup {Nothing}
  /\ version \in [Dirs -> Nat]
  /\ stamp   \in [Dirs -> Nat]
  /\ now     \in Nat
  /\ guard   \in [Mutators -> {"idle", "held", "loose"}]
  /\ place   \in [Mutators -> Dirs]
  /\ step    \in [Listers -> Steps]
  /\ want    \in [Listers -> Views]
  /\ seen    \in [Listers -> Nat]
  /\ mark    \in [Listers -> Nat]
  /\ since   \in [Listers -> Nat]
  /\ found   \in [Listers -> [view : Views, version : Nat]]
  /\ settled \in [Dirs -> Nat]
  /\ floor   \in [Listers -> Nat]
  /\ past    \in [0 .. MaxTime -> [Dirs -> Nat]]

-----------------------------------------------------------------------------
(***************************************************************************)
(* Changes to the directories.                                             *)
(***************************************************************************)

Invalidate == generation' = generation + 1 /\ entry' = Nothing

\* A change shows in the listing; it moves the stamp to the present or not.
\* One that gives the directory a new stamp must be seen by later requests.
Alter(d) ==
  /\ version[d] < MaxChanges
  /\ version' = [version EXCEPT ![d] = @ + 1]
  /\ stamp' \in {stamp, [stamp EXCEPT ![d] = now]}
  /\ settled' = IF stamp' = stamp THEN settled
                ELSE [settled EXCEPT ![d] = version'[d]]

\* ListingMutation::new
Guard(m) ==
  /\ guard[m] = "idle"
  /\ generation < 2 * MaxGuards
  /\ guard' = [guard EXCEPT ![m] = "held"]
  /\ \E d \in Dirs : place' = [place EXCEPT ![m] = d]
  /\ Invalidate
  /\ UNCHANGED <<version, stamp, now, lister, settled, past>>

Change(m) ==
  /\ guard[m] \in {"held", "loose"}
  /\ Alter(place[m])
  /\ guard' = [guard EXCEPT ![m] = IF @ = "held" THEN "held" ELSE "idle"]
  /\ UNCHANGED <<cache, now, place, lister, past>>

\* Drop for ListingMutation, at the end of the handler.  Whatever has been
\* done by now must be seen by every later request.
Release(m) ==
  /\ guard[m] = "held"
  /\ guard' = [guard EXCEPT ![m] = "idle"]
  /\ Invalidate
  /\ settled' = version
  /\ UNCHANGED <<version, stamp, now, place, lister, past>>

\* The client went away: the guard is dropped while the system call it
\* covered still runs on the blocking pool.
Abandon(m) ==
  /\ guard[m] = "held"
  /\ guard' = [guard EXCEPT ![m] = "loose"]
  /\ Invalidate
  /\ settled' = version
  /\ UNCHANGED <<version, stamp, now, place, lister, past>>

\* Another program changes the user's directory.
Outside(d) ==
  /\ Alter(d)
  /\ UNCHANGED <<cache, now, mutator, lister, past>>

\* No scan lasts longer than MaxScan.
Tick ==
  /\ now < MaxTime
  /\ \A l \in Listers : step[l] \in {"scan", "store"} => now < since[l] + MaxScan
  /\ now' = now + 1
  /\ past' = [past EXCEPT ![now] = version]
  /\ UNCHANGED <<cache, version, stamp, mutator, lister, settled>>

-----------------------------------------------------------------------------
(***************************************************************************)
(* LocalFs::list.                                                          *)
(***************************************************************************)

\* fs::metadata
Stat(l) ==
  /\ step[l] \in {"idle", "done", "hit"}
  /\ step' = [step EXCEPT ![l] = "lookup"]
  /\ \E v \in Views :
       /\ want'  = [want EXCEPT ![l] = v]
       /\ seen'  = [seen EXCEPT ![l] = stamp[DirOf[v]]]
       /\ floor' = [floor EXCEPT ![l] = settled[DirOf[v]]]
       /\ found' = [found EXCEPT ![l] = [view |-> v, version |-> 0]]
       /\ since' = [since EXCEPT ![l] = 0]
  /\ UNCHANGED <<cache, version, stamp, now, mutator, mark, settled, past>>

\* Mutant: an entry never expires.
UsableForever(e, v, s) == e # Nothing /\ e.view = v /\ e.stamp = s

Usable(e, v, s) ==
  /\ e # Nothing
  /\ e.view = v
  /\ e.stamp = s
  /\ now < e.created + TTL

\* The first critical section: a hit, or the generation to scan under.
Lookup(l) ==
  /\ step[l] = "lookup"
  /\ IF Usable(entry, want[l], seen[l])
       THEN /\ step'  = [step EXCEPT ![l] = "hit"]
            /\ found' = [found EXCEPT ![l] = [view |-> entry.view, version |-> entry.version]]
            /\ since' = [since EXCEPT ![l] = now]
            /\ seen'  = [seen EXCEPT ![l] = 0]
            /\ UNCHANGED mark
       ELSE /\ step'  = [step EXCEPT ![l] = "open"]
            /\ mark'  = [mark EXCEPT ![l] = generation]
            /\ UNCHANGED <<found, since, seen>>
  /\ UNCHANGED <<cache, version, stamp, now, mutator, want, settled, floor, past>>

\* read_dir in spawn_blocking: it reports what was there when it began, and
\* of the changes made while it runs as many as it happens to meet.
Open(l) ==
  /\ step[l] = "open"
  /\ step'  = [step EXCEPT ![l] = "scan"]
  /\ found' = [found EXCEPT ![l] = [view |-> want[l], version |-> version[DirOf[want[l]]]]]
  /\ since' = [since EXCEPT ![l] = now]
  /\ UNCHANGED <<cache, version, stamp, now, mutator, want, seen, mark, settled, floor, past>>

Scan(l) ==
  /\ step[l] = "scan"
  /\ step' = [step EXCEPT ![l] = "store"]
  /\ \E n \in found[l].version .. version[DirOf[want[l]]] :
       found' = [found EXCEPT ![l].version = n]
  /\ UNCHANGED <<cache, version, stamp, now, mutator, want, seen, mark, since, settled, floor, past>>

\* The locals of list() are gone when it returns.
Forget(l) ==
  /\ seen'  = [seen EXCEPT ![l] = 0]
  /\ mark'  = [mark EXCEPT ![l] = 0]
  /\ since' = [since EXCEPT ![l] = 0]

\* The scan fails, or the request is dropped: nothing is stored.
GiveUp(l) ==
  /\ step[l] \in {"lookup", "open", "scan", "store"}
  /\ step'  = [step EXCEPT ![l] = "idle"]
  /\ found' = [found EXCEPT ![l] = [view |-> want[l], version |-> 0]]
  /\ floor' = [floor EXCEPT ![l] = 0]
  /\ Forget(l)
  /\ UNCHANGED <<cache, version, stamp, now, mutator, want, settled, past>>

\* Mutant: the generation is not compared.
KeepAnyway(l) ==
  entry' = [view |-> want[l], stamp |-> seen[l], created |-> now,
            version |-> found[l].version]

\* The second critical section.  A listing of more than
\* LISTING_CACHE_MAX_ENTRIES is not kept.
Keep(l) ==
  IF generation = mark[l]
    THEN entry' = [view |-> want[l], stamp |-> seen[l], created |-> now,
                   version |-> found[l].version]
    ELSE UNCHANGED entry

Store(l) ==
  /\ step[l] = "store"
  /\ step' = [step EXCEPT ![l] = "done"]
  /\ Keep(l) \/ UNCHANGED entry
  /\ Forget(l)
  /\ UNCHANGED <<generation, version, stamp, now, mutator, want, found, settled, floor, past>>

-----------------------------------------------------------------------------
Init ==
  /\ generation = 0
  /\ entry   = Nothing
  /\ version = [d \in Dirs |-> 0]
  /\ stamp   = [d \in Dirs |-> 0]
  /\ now     = 0
  /\ guard   = [m \in Mutators |-> "idle"]
  /\ place   \in [Mutators -> Dirs]
  /\ step    = [l \in Listers |-> "idle"]
  /\ want    \in [Listers -> Views]
  /\ seen    = [l \in Listers |-> 0]
  /\ mark    = [l \in Listers |-> 0]
  /\ since   = [l \in Listers |-> 0]
  /\ found   = [l \in Listers |-> [view |-> want[l], version |-> 0]]
  /\ settled = [d \in Dirs |-> 0]
  /\ floor   = [l \in Listers |-> 0]
  /\ past    = [t \in 0 .. MaxTime |-> [d \in Dirs |-> 0]]

Next ==
  \/ \E m \in Mutators : Guard(m) \/ Change(m) \/ Release(m) \/ Abandon(m)
  \/ \E d \in Dirs : Outside(d)
  \/ Tick
  \/ \E l \in Listers : \/ Stat(l) \/ Lookup(l) \/ Open(l) \/ Scan(l)
                        \/ GiveUp(l) \/ Store(l)

Spec == Init /\ [][Next]_vars

-----------------------------------------------------------------------------
(***************************************************************************)
(* Properties.                                                             *)
(***************************************************************************)

\* A request for a listing shows the directory and the hidden-name policy it
\* asked for, with everything done before the last guard was dropped and
\* every change that gave the directory a new stamp, if those came before it
\* started; however scans, lookups and operations overlap.  The generation
\* read under the lock before the scan must still be current when the result
\* is stored, and the stamp stored with it must be older than the scan.
Fresh ==
  \A l \in Listers :
    step[l] \in {"hit", "done"} =>
      found[l].view = want[l] /\ found[l].version >= floor[l]

\* Changes no guard covers - by another program, or by a call that outlives
\* its request - that leave the stamp alone are hidden by a hit for at most
\* LISTING_CACHE_TTL and the duration of the scan that was cached: created is
\* taken when the scan ends, not when it begins.
BoundedStaleness ==
  \A l \in Listers :
    step[l] = "hit" =>
      \A t \in 0 .. MaxTime :
        t + TTL + MaxScan <= since[l] => found[l].version >= past[t][DirOf[want[l]]]
=============================================================================
