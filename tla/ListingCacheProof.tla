------------------------- MODULE ListingCacheProof --------------------------
(***************************************************************************)
(* ListingCache keeps its promise for any number of requests, directories  *)
(* and views, whatever the bounds.                                         *)
(***************************************************************************)
EXTENDS ListingCache, TLAPS

At(l)    == DirOf[want[l]]
Scans(l) == step[l] \in {"scan", "store"}

\* Time runs forward, and nothing is promised that has not happened.
Clocks == \A d \in Dirs : stamp[d] <= now /\ settled[d] <= version[d]

\* The cached listing is good as long as its stamp is the directory's.
EntryGood ==
  entry # Nothing =>
    LET d == DirOf[entry.view] IN
    /\ entry.stamp <= stamp[d]
    /\ entry.stamp = stamp[d] => entry.version >= settled[d]

\* What a request under way knows is old.
Lagging ==
  \A l \in Listers :
    /\ mark[l] <= generation
    /\ step[l] \in {"lookup", "open", "scan", "store"} =>
         seen[l] <= stamp[At(l)] /\ floor[l] <= settled[At(l)]

\* What has been scanned may be stored, if nothing was invalidated since.
ScanGood ==
  \A l \in Listers : Scans(l) =>
    /\ found[l].view = want[l]
    /\ found[l].version >= floor[l]
    /\ mark[l] = generation /\ seen[l] = stamp[At(l)]
         => found[l].version >= settled[At(l)]

\* A request that has its stamp but not yet the lock may hit the entry that
\* is there, or one that another request is about to store.
HitGood ==
  \A l \in Listers : step[l] = "lookup" =>
    /\ entry # Nothing /\ DirOf[entry.view] = At(l) /\ entry.stamp = seen[l]
         => entry.version >= floor[l]
    /\ \A k \in Listers :
         Scans(k) /\ At(k) = At(l) /\ seen[k] = seen[l] /\ mark[k] = generation
           => found[k].version >= floor[l]

IInv == TypeOK /\ Clocks /\ EntryGood /\ Lagging /\ ScanGood /\ HitGood /\ Fresh

-----------------------------------------------------------------------------
USE DirOfAssumption, TimesAssumption, BoundsAssumption, NothingAssumption

LEMMA TypeInit == Init => TypeOK
  BY DEF Init, TypeOK, Steps

LEMMA AlterType ==
  ASSUME TypeOK, NEW d \in Dirs, Alter(d)
  PROVE  /\ version' \in [Dirs -> Nat]
         /\ stamp' \in [Dirs -> Nat]
         /\ settled' \in [Dirs -> Nat]
<1>1. version' \in [Dirs -> Nat]
  BY DEF Alter, TypeOK
<1>2. version'[d] \in Nat
  BY <1>1
<1>3. settled' \in [Dirs -> Nat]
  BY <1>2 DEF Alter, TypeOK
<1>4. stamp' \in [Dirs -> Nat]
  BY DEF Alter, TypeOK
<1> QED
  BY <1>1, <1>3, <1>4

\* Every action keeps every variable in its type.
LEMMA TypeStep == TypeOK /\ [Next]_vars => TypeOK'
<1> SUFFICES ASSUME TypeOK, [Next]_vars PROVE TypeOK'
  OBVIOUS
<1> USE DEF TypeOK, CachedListing, Steps, cache, mutator, lister
<1>1. ASSUME NEW m \in Mutators, Guard(m) PROVE TypeOK'
  <2>1. PICK d \in Dirs : place' = [place EXCEPT ![m] = d]
    BY <1>1 DEF Guard
  <2>2. place' \in [Mutators -> Dirs]
    BY <2>1
  <2>3. guard' \in [Mutators -> {"idle", "held", "loose"}]
    BY <1>1 DEF Guard
  <2>4. generation' \in Nat /\ entry' = Nothing
    BY <1>1 DEF Guard, Invalidate
  <2>5. UNCHANGED <<version, stamp, now, lister, settled, past>>
    BY <1>1 DEF Guard
  <2> QED
    BY <2>2, <2>3, <2>4, <2>5
<1>2. ASSUME NEW m \in Mutators, Change(m) PROVE TypeOK'
  <2>1. guard' \in [Mutators -> {"idle", "held", "loose"}]
    BY <1>2 DEF Change
  <2>2. place[m] \in Dirs /\ Alter(place[m])
    BY <1>2 DEF Change
  <2> QED
    BY <1>2, <2>1, <2>2, AlterType DEF Change
<1>3. ASSUME NEW m \in Mutators, Release(m) PROVE TypeOK'
  BY <1>3 DEF Release, Invalidate
<1>4. ASSUME NEW m \in Mutators, Abandon(m) PROVE TypeOK'
  BY <1>4 DEF Abandon, Invalidate
<1>5. ASSUME NEW d \in Dirs, Outside(d) PROVE TypeOK'
  BY <1>5, AlterType DEF Outside
<1>6. ASSUME Tick PROVE TypeOK'
  <2>1. past' \in [0 .. MaxTime -> [Dirs -> Nat]]
    BY <1>6 DEF Tick
  <2>2. now' \in Nat
    BY <1>6 DEF Tick
  <2> QED
    BY <1>6, <2>1, <2>2 DEF Tick
<1>7. ASSUME NEW l \in Listers, Stat(l) PROVE TypeOK'
  <2>1. PICK v \in Views :
          /\ want'  = [want EXCEPT ![l] = v]
          /\ seen'  = [seen EXCEPT ![l] = stamp[DirOf[v]]]
          /\ floor' = [floor EXCEPT ![l] = settled[DirOf[v]]]
          /\ found' = [found EXCEPT ![l] = [view |-> v, version |-> 0]]
          /\ since' = [since EXCEPT ![l] = 0]
    BY <1>7 DEF Stat
  <2>2. stamp[DirOf[v]] \in Nat /\ settled[DirOf[v]] \in Nat
    OBVIOUS
  <2>3. want' \in [Listers -> Views] /\ seen' \in [Listers -> Nat] /\ floor' \in [Listers -> Nat]
    BY <2>1, <2>2
  <2>4. found' \in [Listers -> [view : Views, version : Nat]] /\ since' \in [Listers -> Nat]
    BY <2>1
  <2>5. step' \in [Listers -> Steps]
    BY <1>7 DEF Stat
  <2> QED
    BY <1>7, <2>3, <2>4, <2>5 DEF Stat
<1>8. ASSUME NEW l \in Listers, Lookup(l) PROVE TypeOK'
  <2>1. CASE Usable(entry, want[l], seen[l])
    <3>1. [view |-> entry.view, version |-> entry.version] \in [view : Views, version : Nat]
      BY <2>1 DEF Usable
    <3>2. /\ step'  = [step EXCEPT ![l] = "hit"]
          /\ found' = [found EXCEPT ![l] = [view |-> entry.view, version |-> entry.version]]
          /\ since' = [since EXCEPT ![l] = now]
          /\ seen'  = [seen EXCEPT ![l] = 0]
      BY <1>8, <2>1 DEF Lookup
    <3>3. /\ step' \in [Listers -> Steps] /\ since' \in [Listers -> Nat]
          /\ seen' \in [Listers -> Nat] /\ found' \in [Listers -> [view : Views, version : Nat]]
      BY <3>1, <3>2
    <3> QED
      BY <1>8, <2>1, <3>3 DEF Lookup
  <2>2. CASE ~Usable(entry, want[l], seen[l])
    BY <1>8, <2>2 DEF Lookup
  <2> QED
    BY <2>1, <2>2
<1>9. ASSUME NEW l \in Listers, Open(l) PROVE TypeOK'
  BY <1>9 DEF Open
<1>10. ASSUME NEW l \in Listers, Scan(l) PROVE TypeOK'
  <2>1. PICK n \in found[l].version .. version[DirOf[want[l]]] :
          found' = [found EXCEPT ![l].version = n]
    BY <1>10 DEF Scan
  <2>2. n \in Nat
    BY <2>1
  <2>3. found' \in [Listers -> [view : Views, version : Nat]]
    BY <2>1, <2>2
  <2>4. step' \in [Listers -> Steps]
    BY <1>10 DEF Scan
  <2> QED
    BY <1>10, <2>3, <2>4 DEF Scan
<1>11. ASSUME NEW l \in Listers, GiveUp(l) PROVE TypeOK'
  BY <1>11 DEF GiveUp, Forget
<1>12. ASSUME NEW l \in Listers, Store(l) PROVE TypeOK'
  <2>1. entry' \in CachedListing \cup {Nothing}
    BY <1>12 DEF Store, Keep
  <2>2. /\ step' \in [Listers -> Steps]
        /\ seen' \in [Listers -> Nat] /\ mark' \in [Listers -> Nat] /\ since' \in [Listers -> Nat]
    BY <1>12 DEF Store, Forget
  <2> QED
    BY <1>12, <2>1, <2>2 DEF Store
<1>13. CASE UNCHANGED vars
  BY <1>13 DEF vars
<1> QED
  BY <1>1, <1>2, <1>3, <1>4, <1>5, <1>6, <1>7, <1>8, <1>9, <1>10, <1>11, <1>12, <1>13
  DEF Next

\* Every variable of the model keeps its type.
THEOREM TypeCorrect == Spec => []TypeOK
  BY TypeInit, TypeStep, PTL DEF Spec

-----------------------------------------------------------------------------
LEMMA DirType ==
  ASSUME TypeOK, NEW d \in Dirs
  PROVE  version[d] \in Nat /\ stamp[d] \in Nat /\ settled[d] \in Nat /\ now \in Nat
  BY DEF TypeOK

LEMMA ListerType ==
  ASSUME TypeOK, NEW l \in Listers
  PROVE  /\ want[l] \in Views /\ At(l) \in Dirs
         /\ seen[l] \in Nat /\ mark[l] \in Nat /\ since[l] \in Nat /\ floor[l] \in Nat
         /\ found[l] \in [view : Views, version : Nat] /\ found[l].version \in Nat
         /\ generation \in Nat
  BY DEF TypeOK, At

LEMMA EntryType ==
  ASSUME TypeOK, entry # Nothing
  PROVE  /\ entry.view \in Views /\ DirOf[entry.view] \in Dirs
         /\ entry.stamp \in Nat /\ entry.created \in Nat /\ entry.version \in Nat
  BY DEF TypeOK, CachedListing

LEMMA InvInit == Init => IInv
<1> SUFFICES ASSUME Init PROVE IInv
  OBVIOUS
<1>1. TypeOK
  BY TypeInit
<1>2. Clocks /\ EntryGood
  BY DEF Init, Clocks, EntryGood
<1>3. Lagging /\ ScanGood /\ HitGood /\ Fresh
  BY DEF Init, Lagging, ScanGood, HitGood, Fresh, Scans
<1> QED
  BY <1>1, <1>2, <1>3 DEF IInv

\* A new generation makes what is being scanned useless to later requests.
LEMMA InvalidateInv ==
  ASSUME IInv, TypeOK', Invalidate, UNCHANGED <<version, stamp, now, lister>>,
         settled' = settled \/ settled' = version
  PROVE  IInv'
<1> USE DEF lister, At, Scans
<1>1. Clocks'
  BY DEF IInv, Clocks, TypeOK
<1>2. EntryGood'
  BY DEF Invalidate, EntryGood
<1>3. \A d \in Dirs : settled[d] <= settled'[d]
  BY DEF IInv, Clocks, TypeOK
<1>4. \A l \in Listers : mark'[l] < generation'
  BY DEF IInv, Lagging, Invalidate, TypeOK
<1>5. Lagging'
  <2> SUFFICES ASSUME NEW l \in Listers
               PROVE  /\ mark'[l] <= generation'
                      /\ step'[l] \in {"lookup", "open", "scan", "store"} =>
                           seen'[l] <= stamp'[At(l)'] /\ floor'[l] <= settled'[At(l)']
    BY DEF Lagging
  <2>1. At(l) \in Dirs /\ At(l)' = At(l)
    BY DEF IInv, TypeOK
  <2>2. floor[l] \in Nat /\ settled[At(l)] \in Nat /\ settled'[At(l)] \in Nat
    BY <2>1 DEF IInv, TypeOK
  <2>3. settled[At(l)] <= settled'[At(l)]
    BY <1>3, <2>1
  <2>4. mark'[l] <= generation'
    BY <1>4 DEF TypeOK
  <2>5. ASSUME step[l] \in {"lookup", "open", "scan", "store"}
        PROVE  seen[l] <= stamp[At(l)] /\ floor[l] <= settled[At(l)]
    BY <2>5 DEF IInv, Lagging
  <2> QED
    BY <2>1, <2>2, <2>3, <2>4, <2>5
<1>6. \A l \in Listers : mark'[l] # generation'
  <2> TAKE l \in Listers
  <2>1. mark'[l] \in Nat /\ generation' \in Nat /\ mark'[l] < generation'
    BY <1>4 DEF TypeOK
  <2> QED
    BY <2>1
<1>7. ScanGood' /\ HitGood'
  BY <1>6 DEF IInv, ScanGood, HitGood, Invalidate
<1>8. Fresh'
  BY DEF IInv, Fresh
<1> QED
  BY <1>1, <1>2, <1>5, <1>7, <1>8 DEF IInv

\* A change moves the stamp past every stamp that was read before, or is not
\* yet owed to anybody.
LEMMA AlterInv ==
  ASSUME IInv, TypeOK', NEW d \in Dirs, Alter(d), UNCHANGED <<cache, now, lister>>
  PROVE  IInv'
<1> USE DEF lister, cache
<1>1. TypeOK
  BY DEF IInv
<1>2. \A e \in Dirs : /\ version[e] <= version'[e]
                      /\ stamp[e] <= stamp'[e] /\ stamp'[e] <= now
                      /\ settled[e] <= settled'[e] /\ settled'[e] <= version'[e]
                      /\ stamp'[e] = stamp[e] => settled'[e] = settled[e]
  <2>1. version' = [version EXCEPT ![d] = @ + 1]
    BY DEF Alter
  <2>2. version'[d] = version[d] + 1
    BY <1>1, <2>1 DEF TypeOK
  <2>3. CASE stamp' = stamp
    BY <1>1, <2>1, <2>3 DEF IInv, Clocks, Alter, TypeOK
  <2>4. CASE stamp' # stamp
    <3>1. stamp' = [stamp EXCEPT ![d] = now]
      BY <2>4 DEF Alter
    <3>2. settled' = [settled EXCEPT ![d] = version[d] + 1]
      BY <2>2, <2>4 DEF Alter
    <3>3. stamp[d] < now
      BY <1>1, <2>4, <3>1 DEF IInv, Clocks, TypeOK
    <3> QED
      BY <1>1, <2>1, <3>1, <3>2, <3>3 DEF IInv, Clocks, TypeOK
  <2> QED
    BY <2>3, <2>4
<1>3. \A e \in Dirs : /\ stamp[e] \in Nat /\ stamp'[e] \in Nat /\ now \in Nat
                      /\ settled[e] \in Nat /\ settled'[e] \in Nat /\ version'[e] \in Nat
  BY <1>1 DEF TypeOK
<1>4. Clocks'
  <2> SUFFICES ASSUME NEW e \in Dirs PROVE stamp'[e] <= now /\ settled'[e] <= version'[e]
    BY DEF Clocks
  <2> QED
    BY <1>2
<1>5. EntryGood'
  <2> SUFFICES ASSUME entry # Nothing
               PROVE  LET e == DirOf[entry.view] IN
                      /\ entry.stamp <= stamp'[e]
                      /\ entry.stamp = stamp'[e] => entry.version >= settled'[e]
    BY DEF EntryGood
  <2> DEFINE e == DirOf[entry.view]
  <2>1. e \in Dirs /\ entry.stamp \in Nat /\ entry.version \in Nat
    BY <1>1, EntryType
  <2>2. entry.stamp <= stamp[e] /\ (entry.stamp = stamp[e] => entry.version >= settled[e])
    BY DEF IInv, EntryGood
  <2> HIDE DEF e
  <2>3. entry.stamp <= stamp'[e] /\ (entry.stamp = stamp'[e] => entry.version >= settled'[e])
    BY <1>2, <1>3, <2>1, <2>2
  <2> QED
    BY <2>3 DEF e
<1>6. Lagging'
  <2> SUFFICES ASSUME NEW l \in Listers
               PROVE  /\ mark[l] <= generation
                      /\ step[l] \in {"lookup", "open", "scan", "store"} =>
                           seen[l] <= stamp'[At(l)] /\ floor[l] <= settled'[At(l)]
    BY DEF Lagging, At
  <2>1. At(l) \in Dirs /\ seen[l] \in Nat /\ floor[l] \in Nat
    BY <1>1, ListerType
  <2>2. /\ mark[l] <= generation
        /\ step[l] \in {"lookup", "open", "scan", "store"} =>
             seen[l] <= stamp[At(l)] /\ floor[l] <= settled[At(l)]
    BY DEF IInv, Lagging
  <2> QED
    BY <1>2, <1>3, <2>1, <2>2
<1>7. ScanGood'
  <2> SUFFICES ASSUME NEW l \in Listers, Scans(l)
               PROVE  /\ found[l].view = want[l]
                      /\ found[l].version >= floor[l]
                      /\ mark[l] = generation /\ seen[l] = stamp'[At(l)]
                           => found[l].version >= settled'[At(l)]
    BY DEF ScanGood, Scans, At
  <2>1. At(l) \in Dirs /\ seen[l] \in Nat /\ found[l].version \in Nat
    BY <1>1, ListerType
  <2>2. /\ found[l].view = want[l]
        /\ found[l].version >= floor[l]
        /\ mark[l] = generation /\ seen[l] = stamp[At(l)]
             => found[l].version >= settled[At(l)]
    BY DEF IInv, ScanGood
  <2>3. seen[l] <= stamp[At(l)]
    BY DEF IInv, Lagging, Scans
  <2> QED
    BY <1>2, <1>3, <2>1, <2>2, <2>3
<1>8. HitGood' /\ Fresh'
  BY DEF IInv, HitGood, Fresh, Scans, At
<1> QED
  BY <1>4, <1>5, <1>6, <1>7, <1>8 DEF IInv

LEMMA TickInv == ASSUME IInv, TypeOK', Tick PROVE IInv'
<1> USE DEF Tick, cache, lister
<1>1. Clocks'
  BY DEF IInv, Clocks, TypeOK
<1>2. (EntryGood /\ Lagging)'
  BY DEF IInv, EntryGood, Lagging, At
<1>3. (ScanGood /\ HitGood /\ Fresh)'
  BY DEF IInv, ScanGood, HitGood, Fresh, At, Scans
<1> QED
  BY <1>1, <1>2, <1>3 DEF IInv

\* What a step of one request leaves alone.
Apart(l) ==
  \A k \in Listers : k # l =>
    /\ step'[k] = step[k] /\ want'[k] = want[k] /\ seen'[k] = seen[k]
    /\ mark'[k] = mark[k] /\ floor'[k] = floor[k] /\ found'[k] = found[k]

\* An entry that is not older than the stamp just read is as good as anything
\* the request may expect, whether it is there or still being scanned.
LEMMA StatInv == ASSUME IInv, TypeOK', NEW l \in Listers, Stat(l) PROVE IInv'
<1>1. TypeOK
  BY DEF IInv
<1>2. PICK v \in Views :
        /\ want'  = [want EXCEPT ![l] = v]
        /\ seen'  = [seen EXCEPT ![l] = stamp[DirOf[v]]]
        /\ floor' = [floor EXCEPT ![l] = settled[DirOf[v]]]
        /\ found' = [found EXCEPT ![l] = [view |-> v, version |-> 0]]
  BY DEF Stat
<1> DEFINE d == DirOf[v]
<1>3. /\ d \in Dirs /\ stamp[d] \in Nat /\ settled[d] \in Nat
      /\ step'[l] = "lookup" /\ want'[l] = v /\ seen'[l] = stamp[d]
      /\ floor'[l] = settled[d] /\ mark'[l] = mark[l]
  BY <1>1, <1>2 DEF Stat, TypeOK
<1>4. Apart(l)
  BY <1>1, <1>2 DEF Apart, Stat, TypeOK
<1>5. UNCHANGED <<generation, entry, version, stamp, now, settled>>
  BY DEF Stat, cache
<1>6. (Clocks /\ EntryGood)'
  BY <1>5 DEF IInv, Clocks, EntryGood
<1>7. Lagging'
  BY <1>3, <1>4, <1>5 DEF IInv, Lagging, Apart, At
<1>8. ScanGood'
  BY <1>3, <1>4, <1>5 DEF IInv, ScanGood, Apart, At, Scans
<1>9. HitGood'
  <2> SUFFICES ASSUME NEW i \in Listers, step'[i] = "lookup"
               PROVE  /\ entry # Nothing /\ DirOf[entry.view] = At(i)' /\ entry.stamp = seen'[i]
                           => entry.version >= floor'[i]
                      /\ \A k \in Listers :
                           Scans(k)' /\ At(k)' = At(i)' /\ seen'[k] = seen'[i] /\ mark'[k] = generation
                             => found'[k].version >= floor'[i]
    BY <1>5 DEF HitGood
  <2>1. CASE i = l
    <3>1. At(i)' = d
      BY <1>3, <2>1 DEF At
    <3>2. entry # Nothing /\ DirOf[entry.view] = d /\ entry.stamp = stamp[d]
            => entry.version >= settled[d]
      BY DEF IInv, EntryGood
    <3>3. ASSUME NEW k \in Listers, Scans(k)', At(k)' = d, seen'[k] = stamp[d], mark'[k] = generation
          PROVE  found'[k].version >= settled[d]
      <4>1. k # l
        BY <1>3, <3>3 DEF Scans
      <4>2. Scans(k) /\ At(k) = d /\ seen[k] = stamp[d] /\ mark[k] = generation /\ found'[k] = found[k]
        BY <1>4, <3>3, <4>1 DEF Apart, Scans, At
      <4> QED
        BY <4>2 DEF IInv, ScanGood
    <3> QED
      BY <1>3, <2>1, <3>1, <3>2, <3>3
  <2>2. CASE i # l
    <3>1. step[i] = "lookup" /\ At(i)' = At(i) /\ seen'[i] = seen[i] /\ floor'[i] = floor[i]
      BY <1>4, <2>2 DEF Apart, At
    <3>2. \A k \in Listers : Scans(k)' => k # l
      BY <1>3 DEF Scans
    <3>3. \A k \in Listers : k # l => /\ Scans(k)' = Scans(k) /\ At(k)' = At(k)
                                     /\ seen'[k] = seen[k] /\ mark'[k] = mark[k]
                                     /\ found'[k] = found[k]
      BY <1>4 DEF Apart, Scans, At
    <3> QED
      BY <3>1, <3>2, <3>3 DEF IInv, HitGood
  <2> QED
    BY <2>1, <2>2
<1>10. Fresh'
  BY <1>3, <1>4 DEF IInv, Fresh, Apart
<1> QED
  BY <1>6, <1>7, <1>8, <1>9, <1>10 DEF IInv

\* A request that gives up, or whose scan goes on, weakens nothing that
\* another one relies on.
LEMMA LeaveInv ==
  ASSUME IInv, TypeOK', NEW l \in Listers, Apart(l),
         UNCHANGED <<generation, entry, version, stamp, now, settled>>,
         step'[l] \in {"idle", "open"}, mark'[l] <= generation,
         step'[l] = "open" => seen'[l] <= stamp[At(l)'] /\ floor'[l] <= settled[At(l)']
  PROVE  IInv'
<1>1. (Clocks /\ EntryGood)'
  BY DEF IInv, Clocks, EntryGood
<1>2. Lagging'
  BY DEF IInv, Lagging, Apart, At
<1>3. ScanGood'
  BY DEF IInv, ScanGood, Apart, At, Scans
<1>4. HitGood'
  <2>1. \A k \in Listers : step'[k] = "lookup" \/ Scans(k)' => k # l
    BY DEF Scans
  <2>2. \A k \in Listers : k # l => /\ Scans(k)' = Scans(k) /\ At(k)' = At(k)
                                   /\ seen'[k] = seen[k] /\ mark'[k] = mark[k]
                                   /\ found'[k] = found[k] /\ floor'[k] = floor[k]
                                   /\ step'[k] = step[k]
    BY DEF Apart, Scans, At
  <2> QED
    BY <2>1, <2>2 DEF IInv, HitGood
<1>5. Fresh'
  BY DEF IInv, Fresh, Apart
<1> QED
  BY <1>1, <1>2, <1>3, <1>4, <1>5 DEF IInv

LEMMA GiveUpInv == ASSUME IInv, TypeOK', NEW l \in Listers, GiveUp(l) PROVE IInv'
<1>1. TypeOK
  BY DEF IInv
<1>2. Apart(l)
  BY <1>1 DEF Apart, GiveUp, Forget, TypeOK
<1>3. step'[l] = "idle" /\ mark'[l] = 0 /\ generation \in Nat
  BY <1>1 DEF GiveUp, Forget, TypeOK
<1>4. UNCHANGED <<generation, entry, version, stamp, now, settled>>
  BY DEF GiveUp, cache
<1> QED
  BY <1>2, <1>3, <1>4, LeaveInv

\* A hit is as good as HitGood says; a miss goes on with the current generation.
LEMMA LookupInv == ASSUME IInv, TypeOK', NEW l \in Listers, Lookup(l) PROVE IInv'
<1>1. TypeOK
  BY DEF IInv
<1>2. UNCHANGED <<generation, entry, version, stamp, now, want, settled, floor>>
  BY DEF Lookup, cache
<1>3. step[l] = "lookup"
  BY DEF Lookup
<1>4. CASE Usable(entry, want[l], seen[l])
  <2>1. /\ step'  = [step EXCEPT ![l] = "hit"]
        /\ found' = [found EXCEPT ![l] = [view |-> entry.view, version |-> entry.version]]
        /\ seen'  = [seen EXCEPT ![l] = 0]
        /\ mark'  = mark
    BY <1>4 DEF Lookup
  <2>2. Apart(l)
    BY <1>1, <1>2, <2>1 DEF Apart, TypeOK
  <2>3. step'[l] = "hit" /\ found'[l].view = want[l] /\ found'[l].version = entry.version
    BY <1>1, <1>4, <2>1 DEF TypeOK, Usable
  <2>4. entry.version >= floor[l]
    BY <1>3, <1>4 DEF IInv, HitGood, Usable, At
  <2>5. (Clocks /\ EntryGood)'
    BY <1>2 DEF IInv, Clocks, EntryGood
  <2>6. Lagging'
    BY <1>2, <2>1, <2>2, <2>3 DEF IInv, Lagging, Apart, At
  <2>7. ScanGood'
    BY <1>2, <2>2, <2>3 DEF IInv, ScanGood, Apart, At, Scans
  <2>8. HitGood'
    <3>1. \A k \in Listers : step'[k] = "lookup" \/ Scans(k)' => k # l
      BY <2>3 DEF Scans
    <3>2. \A k \in Listers : k # l => /\ Scans(k)' = Scans(k) /\ At(k)' = At(k)
                                     /\ seen'[k] = seen[k] /\ mark'[k] = mark[k]
                                     /\ found'[k] = found[k] /\ floor'[k] = floor[k]
                                     /\ step'[k] = step[k]
      BY <2>2 DEF Apart, Scans, At
    <3> QED
      BY <1>2, <3>1, <3>2 DEF IInv, HitGood
  <2>9. Fresh'
    BY <1>2, <2>2, <2>3, <2>4 DEF IInv, Fresh, Apart
  <2> QED
    BY <2>5, <2>6, <2>7, <2>8, <2>9 DEF IInv
<1>5. CASE ~Usable(entry, want[l], seen[l])
  <2>1. /\ step'  = [step EXCEPT ![l] = "open"]
        /\ mark'  = [mark EXCEPT ![l] = generation]
        /\ UNCHANGED <<found, seen>>
    BY <1>5 DEF Lookup
  <2>2. Apart(l)
    BY <1>1, <1>2, <2>1 DEF Apart, TypeOK
  <2>3. step'[l] = "open" /\ mark'[l] = generation /\ generation \in Nat
    BY <1>1, <2>1 DEF TypeOK
  <2>4. seen'[l] <= stamp[At(l)'] /\ floor'[l] <= settled[At(l)']
    BY <1>2, <1>3, <2>1 DEF IInv, Lagging, At
  <2> QED
    BY <1>2, <2>2, <2>3, <2>4, LeaveInv
<1> QED
  BY <1>4, <1>5

\* A scan starts with all there is, and only finds more.
LEMMA ScanningInv ==
  ASSUME IInv, TypeOK', NEW l \in Listers, Apart(l), Scans(l)', step[l] \in {"open", "scan"},
         UNCHANGED <<generation, entry, version, stamp, now, want, seen, mark, settled, floor>>,
         found'[l].view = want[l],
         \/ found'[l].version = version[At(l)]
         \/ Scans(l) /\ found'[l].version >= found[l].version
  PROVE  IInv'
<1>1. TypeOK
  BY DEF IInv
<1>2. /\ At(l) \in Dirs /\ At(l)' = At(l) /\ found'[l].version \in Nat /\ found[l].version \in Nat
      /\ settled[At(l)] \in Nat /\ version[At(l)] \in Nat
      /\ \A k \in Listers : floor[k] \in Nat
  <2>1. At(l)' = At(l)
    BY DEF At
  <2>2. found'[l].version \in Nat
    BY ListerType DEF TypeOK
  <2> QED
    BY <1>1, <2>1, <2>2, DirType, ListerType
<1>3. settled[At(l)] <= version[At(l)]
  BY <1>2 DEF IInv, Clocks
<1>4. /\ seen[l] <= stamp[At(l)] /\ floor[l] <= settled[At(l)] /\ mark[l] <= generation
  BY DEF IInv, Lagging
<1>5. (Clocks /\ EntryGood)'
  BY DEF IInv, Clocks, EntryGood
<1>6. Lagging'
  BY <1>2, <1>4 DEF IInv, Lagging, Apart, At
<1>7. /\ found'[l].version >= floor[l]
      /\ mark[l] = generation /\ seen[l] = stamp[At(l)] => found'[l].version >= settled[At(l)]
  <2>1. CASE found'[l].version = version[At(l)]
    BY <1>2, <1>3, <1>4, <2>1
  <2>2. CASE Scans(l) /\ found'[l].version >= found[l].version
    <3>1. /\ found[l].version >= floor[l]
          /\ mark[l] = generation /\ seen[l] = stamp[At(l)] => found[l].version >= settled[At(l)]
      BY <2>2 DEF IInv, ScanGood
    <3> QED
      BY <1>2, <2>2, <3>1
  <2> QED
    BY <2>1, <2>2
<1>8. ScanGood'
  <2> SUFFICES ASSUME NEW k \in Listers, Scans(k)'
               PROVE  /\ found'[k].view = want[k]
                      /\ found'[k].version >= floor[k]
                      /\ (mark[k] = generation /\ seen[k] = stamp[At(k)]
                           => found'[k].version >= settled[At(k)])
    BY DEF ScanGood, At
  <2>1. CASE k = l
    BY <1>7, <2>1
  <2>2. CASE k # l
    BY <2>2 DEF IInv, ScanGood, Apart, Scans
  <2> QED
    BY <2>1, <2>2
<1>9. HitGood'
  <2> SUFFICES ASSUME NEW i \in Listers, step'[i] = "lookup"
               PROVE  /\ (entry # Nothing /\ DirOf[entry.view] = At(i) /\ entry.stamp = seen[i]
                           => entry.version >= floor[i])
                      /\ \A k \in Listers :
                           Scans(k)' /\ At(k) = At(i) /\ seen[k] = seen[i] /\ mark[k] = generation
                             => found'[k].version >= floor[i]
    BY DEF HitGood, At
  <2>1. i # l /\ step[i] = "lookup"
    BY DEF Scans, Apart
  <2>2. ASSUME NEW k \in Listers, Scans(k)', At(k) = At(i), seen[k] = seen[i], mark[k] = generation
        PROVE  found'[k].version >= floor[i]
    <3>1. CASE k # l
      BY <2>1, <2>2, <3>1 DEF IInv, HitGood, Apart, Scans
    <3>2. CASE k = l /\ found'[l].version = version[At(l)]
      <4>1. floor[i] <= settled[At(l)]
        BY <2>1, <2>2, <3>2 DEF IInv, Lagging
      <4> QED
        BY <1>2, <1>3, <3>2, <4>1
    <3>3. CASE k = l /\ Scans(l) /\ found'[l].version >= found[l].version
      <4>1. found[l].version >= floor[i]
        BY <2>1, <2>2, <3>3 DEF IInv, HitGood
      <4> QED
        BY <1>2, <3>3, <4>1
    <3> QED
      BY <3>1, <3>2, <3>3
  <2>3. entry # Nothing /\ DirOf[entry.view] = At(i) /\ entry.stamp = seen[i]
          => entry.version >= floor[i]
    BY <2>1 DEF IInv, HitGood
  <2> QED
    BY <2>2, <2>3
<1>10. Fresh'
  <2>1. step'[l] \notin {"hit", "done"}
    BY DEF Scans
  <2> QED
    BY <2>1 DEF IInv, Fresh, Apart
<1> QED
  BY <1>5, <1>6, <1>8, <1>9, <1>10 DEF IInv

LEMMA OpenInv == ASSUME IInv, TypeOK', NEW l \in Listers, Open(l) PROVE IInv'
<1>1. TypeOK
  BY DEF IInv
<1>2. Apart(l)
  BY <1>1 DEF Apart, Open, TypeOK
<1>3. Scans(l)' /\ found'[l].view = want[l] /\ found'[l].version = version[At(l)]
  BY <1>1 DEF Open, Scans, At, TypeOK
<1> QED
  BY <1>2, <1>3, ScanningInv DEF Open, cache

LEMMA ScanInv == ASSUME IInv, TypeOK', NEW l \in Listers, Scan(l) PROVE IInv'
<1>1. TypeOK /\ Scans(l) /\ found[l].view = want[l] /\ found[l].version \in Nat
  BY ListerType DEF IInv, Scan, Scans, ScanGood
<1>2. PICK n \in found[l].version .. version[DirOf[want[l]]] :
        found' = [found EXCEPT ![l].version = n]
  BY DEF Scan
<1>3. n \in Nat /\ n >= found[l].version
  BY <1>1
<1>4. found'[l].view = want[l] /\ found'[l].version = n
  BY <1>1, <1>2 DEF TypeOK
<1>5. Apart(l)
  BY <1>1, <1>2 DEF Apart, Scan, TypeOK
<1>6. Scans(l)'
  BY <1>1 DEF Scan, Scans, TypeOK
<1> QED
  BY <1>1, <1>3, <1>4, <1>5, <1>6, ScanningInv DEF Scan, cache

\* What is stored is what ScanGood and HitGood say of the scan.
LEMMA StoreInv == ASSUME IInv, TypeOK', NEW l \in Listers, Store(l) PROVE IInv'
<1>1. TypeOK
  BY DEF IInv
<1>2. UNCHANGED <<generation, version, stamp, now, want, found, settled, floor>>
  BY DEF Store
<1>3. step[l] = "store" /\ step'[l] = "done" /\ mark'[l] = 0 /\ generation \in Nat
  BY <1>1 DEF Store, Forget, TypeOK
<1>4. Apart(l)
  BY <1>1 DEF Apart, Store, Forget, TypeOK
<1>5. \/ entry' = entry
      \/ /\ mark[l] = generation
         /\ entry' = [view |-> want[l], stamp |-> seen[l], created |-> now,
                      version |-> found[l].version]
  BY DEF Store, Keep
<1>6. Clocks'
  BY <1>2 DEF IInv, Clocks
<1>7. EntryGood'
  <2>1. CASE entry' = entry
    BY <1>2, <2>1 DEF IInv, EntryGood
  <2>2. CASE /\ mark[l] = generation
             /\ entry' = [view |-> want[l], stamp |-> seen[l], created |-> now,
                          version |-> found[l].version]
    <3>1. seen[l] <= stamp[At(l)]
      BY <1>3 DEF IInv, Lagging
    <3>2. seen[l] = stamp[At(l)] => found[l].version >= settled[At(l)]
      BY <1>3, <2>2 DEF IInv, ScanGood, Scans
    <3>3. entry'.view = want[l] /\ entry'.stamp = seen[l] /\ entry'.version = found[l].version
      BY <2>2
    <3> QED
      BY <1>2, <3>1, <3>2, <3>3 DEF EntryGood, At
  <2> QED
    BY <1>5, <2>1, <2>2
<1>8. Lagging'
  BY <1>2, <1>3, <1>4 DEF IInv, Lagging, Apart, At
<1>9. ScanGood'
  BY <1>2, <1>3, <1>4 DEF IInv, ScanGood, Apart, At, Scans
<1>10. HitGood'
  <2> SUFFICES ASSUME NEW i \in Listers, step'[i] = "lookup"
               PROVE  /\ (entry' # Nothing /\ DirOf[entry'.view] = At(i) /\ entry'.stamp = seen'[i]
                           => entry'.version >= floor[i])
                      /\ \A k \in Listers :
                           Scans(k)' /\ At(k) = At(i) /\ seen'[k] = seen'[i] /\ mark'[k] = generation
                             => found[k].version >= floor[i]
    BY <1>2 DEF HitGood, At
  <2>1. i # l /\ step[i] = "lookup" /\ seen'[i] = seen[i]
    BY <1>3, <1>4 DEF Apart
  <2>2. \A k \in Listers : Scans(k)' => Scans(k) /\ seen'[k] = seen[k] /\ mark'[k] = mark[k]
    BY <1>3, <1>4 DEF Apart, Scans
  <2>3. \A k \in Listers :
          Scans(k)' /\ At(k) = At(i) /\ seen'[k] = seen'[i] /\ mark'[k] = generation
            => found[k].version >= floor[i]
    BY <2>1, <2>2 DEF IInv, HitGood
  <2>4. entry' # Nothing /\ DirOf[entry'.view] = At(i) /\ entry'.stamp = seen[i]
          => entry'.version >= floor[i]
    <3>1. CASE entry' = entry
      BY <2>1, <3>1 DEF IInv, HitGood
    <3>2. CASE /\ mark[l] = generation
               /\ entry' = [view |-> want[l], stamp |-> seen[l], created |-> now,
                            version |-> found[l].version]
      <4>1. DirOf[entry'.view] = At(l) /\ entry'.stamp = seen[l] /\ entry'.version = found[l].version
        BY <3>2 DEF At
      <4>2. Scans(l) /\ At(l) = At(i) /\ seen[l] = seen[i] /\ mark[l] = generation
              => found[l].version >= floor[i]
        BY <2>1 DEF IInv, HitGood
      <4> QED
        BY <1>3, <3>2, <4>1, <4>2 DEF Scans
    <3> QED
      BY <1>5, <3>1, <3>2
  <2> QED
    BY <2>1, <2>3, <2>4
<1>11. Fresh'
  <2>1. found[l].view = want[l] /\ found[l].version >= floor[l]
    BY <1>3 DEF IInv, ScanGood, Scans
  <2> QED
    BY <1>2, <1>4, <2>1 DEF IInv, Fresh, Apart
<1> QED
  BY <1>6, <1>7, <1>8, <1>9, <1>10, <1>11 DEF IInv

LEMMA InvStep == IInv /\ [Next]_vars => IInv'
<1> SUFFICES ASSUME IInv, [Next]_vars PROVE IInv'
  OBVIOUS
<1>1. TypeOK'
  BY TypeStep DEF IInv
<1>2. ASSUME NEW m \in Mutators, Guard(m) \/ Release(m) \/ Abandon(m) PROVE IInv'
  BY <1>1, <1>2, InvalidateInv DEF Guard, Release, Abandon
<1>3. ASSUME NEW m \in Mutators, Change(m) PROVE IInv'
  <2>1. place[m] \in Dirs
    BY DEF IInv, TypeOK
  <2> QED
    BY <1>1, <1>3, <2>1, AlterInv DEF Change
<1>4. ASSUME NEW d \in Dirs, Outside(d) PROVE IInv'
  BY <1>1, <1>4, AlterInv DEF Outside
<1>5. CASE Tick
  BY <1>1, <1>5, TickInv
<1>6. ASSUME NEW l \in Listers,
             Stat(l) \/ Lookup(l) \/ Open(l) \/ Scan(l) \/ GiveUp(l) \/ Store(l)
      PROVE  IInv'
  BY <1>1, <1>6, StatInv, LookupInv, OpenInv, ScanInv, GiveUpInv, StoreInv
<1>7. CASE UNCHANGED vars
  <2> USE <1>7 DEF vars, At, Scans
  <2>1. (Clocks /\ EntryGood /\ Lagging)'
    BY DEF IInv, Clocks, EntryGood, Lagging
  <2>2. (ScanGood /\ HitGood /\ Fresh)'
    BY DEF IInv, ScanGood, HitGood, Fresh
  <2> QED
    BY <1>1, <2>1, <2>2 DEF IInv
<1> QED
  BY <1>2, <1>3, <1>4, <1>5, <1>6, <1>7 DEF Next

\* However many requests list directories, change them and are dropped half
\* way, a listing is never older than what its request may rely on.
THEOREM Freshness == Spec => []Fresh
<1>1. IInv => Fresh
  BY DEF IInv
<1> QED
  BY <1>1, InvInit, InvStep, PTL DEF Spec

-----------------------------------------------------------------------------
(***************************************************************************)
(* How long a hit may hide a change that moves no stamp and that no guard  *)
(* covers.  The invariant above is about the others.                       *)
(***************************************************************************)

Instants == 0 .. MaxTime

\* The versions of earlier instants are behind.
Passed == \A t \in Instants, d \in Dirs : past[t][d] <= version[d]

\* A scan has seen what there was before it began, and it began not long ago.
ScanCovers(l) ==
  Scans(l) => /\ since[l] <= now /\ now <= since[l] + MaxScan
              /\ \A t \in Instants : t < since[l] => found[l].version >= past[t][At(l)]

EntryCovers ==
  entry # Nothing =>
    /\ entry.created <= now
    /\ \A t \in Instants :
         t + MaxScan < entry.created => entry.version >= past[t][DirOf[entry.view]]

HitCovers(l) ==
  step[l] = "hit" =>
    /\ since[l] <= now
    /\ \A t \in Instants : t + TTL + MaxScan <= since[l] => found[l].version >= past[t][At(l)]

TInv ==
  /\ TypeOK /\ now <= MaxTime
  /\ Passed /\ EntryCovers
  /\ \A l \in Listers : ScanCovers(l) /\ HitCovers(l)

LEMMA TimeType ==
  ASSUME TypeOK
  PROVE  /\ TTL \in Nat \ {0} /\ MaxScan \in Nat /\ MaxTime \in Nat /\ now \in Nat
         /\ \A t \in Instants : t \in Nat
         /\ \A t \in Instants, d \in Dirs : past[t][d] \in Nat
         /\ \A d \in Dirs : version[d] \in Nat
  BY DEF TypeOK, Instants

LEMMA StaleInit == Init => TInv
<1> SUFFICES ASSUME Init PROVE TInv
  OBVIOUS
<1>1. TypeOK
  BY TypeInit
<1>2. now <= MaxTime /\ Passed
  BY DEF Init, Passed, Instants
<1>3. EntryCovers /\ \A l \in Listers : ScanCovers(l) /\ HitCovers(l)
  BY DEF Init, EntryCovers, ScanCovers, HitCovers, Scans
<1> QED
  BY <1>1, <1>2, <1>3 DEF TInv

\* The steps of the requests that change directories, and of other programs.
LEMMA StaleAlter ==
  ASSUME TInv, TypeOK', UNCHANGED <<now, lister, past>>, entry' = entry \/ entry' = Nothing,
         \A d \in Dirs : version[d] <= version'[d]
  PROVE  TInv'
<1>1. Passed'
  <2> SUFFICES ASSUME NEW t \in Instants, NEW d \in Dirs PROVE past[t][d] <= version'[d]
    BY DEF Passed, Instants
  <2>1. past[t][d] \in Nat /\ version[d] \in Nat /\ version'[d] \in Nat
    BY TimeType DEF TInv, TypeOK
  <2>2. past[t][d] <= version[d]
    BY DEF TInv, Passed
  <2> QED
    BY <2>1, <2>2
<1>2. EntryCovers'
  BY DEF TInv, EntryCovers
<1>3. \A l \in Listers : (ScanCovers(l) /\ HitCovers(l))'
  BY DEF TInv, ScanCovers, HitCovers, Scans, At, lister
<1> QED
  BY <1>1, <1>2, <1>3 DEF TInv

LEMMA StaleTick == ASSUME TInv, TypeOK', Tick PROVE TInv'
<1>1. /\ TypeOK /\ now' = now + 1 /\ now < MaxTime /\ now \in Instants
      /\ past' = [past EXCEPT ![now] = version]
      /\ UNCHANGED <<entry, version, lister>>
  BY TimeType DEF TInv, Tick, cache, Instants
<1>2. \A t \in Instants : past'[t] = IF t = now THEN version ELSE past[t]
  BY <1>1 DEF TypeOK, Instants
<1>3. now' <= MaxTime
  BY <1>1, TimeType
<1>4. Passed'
  BY <1>1, <1>2, TimeType DEF TInv, Passed, Instants
<1>5. EntryCovers'
  <2> SUFFICES ASSUME entry # Nothing
               PROVE  /\ entry.created <= now'
                      /\ \A t \in Instants :
                           t + MaxScan < entry.created => entry.version >= past'[t][DirOf[entry.view]]
    BY <1>1 DEF EntryCovers, Instants
  <2>1. entry.created \in Nat /\ entry.created <= now
    BY <1>1, EntryType DEF TInv, EntryCovers
  <2>2. \A t \in Instants : t + MaxScan < entry.created => t # now
    BY <1>1, <2>1, TimeType
  <2>3. entry.created <= now'
    BY <1>1, <2>1, TimeType
  <2>4. \A t \in Instants : t + MaxScan < entry.created => entry.version >= past[t][DirOf[entry.view]]
    BY DEF TInv, EntryCovers
  <2> QED
    BY <1>2, <2>2, <2>3, <2>4
<1>6. ASSUME NEW l \in Listers PROVE ScanCovers(l)' /\ HitCovers(l)'
  <2>1. since[l] \in Nat /\ since' = since /\ found' = found /\ At(l)' = At(l) /\ Scans(l)' = Scans(l)
        /\ step' = step
    BY <1>1, ListerType DEF lister, At, Scans
  <2>2. ScanCovers(l)'
    <3> SUFFICES ASSUME Scans(l)
                 PROVE  /\ since[l] <= now' /\ now' <= since[l] + MaxScan
                        /\ \A t \in Instants : t < since[l] => found[l].version >= past'[t][At(l)]
      BY <2>1 DEF ScanCovers, Instants
    <3>1. since[l] <= now /\ now < since[l] + MaxScan
      BY DEF TInv, ScanCovers, Tick, Scans
    <3>2. \A t \in Instants : t < since[l] => t # now
      BY <1>1, <2>1, <3>1, TimeType
    <3> QED
      BY <1>1, <1>2, <2>1, <3>1, <3>2, TimeType DEF TInv, ScanCovers
  <2>3. HitCovers(l)'
    <3> SUFFICES ASSUME step[l] = "hit"
                 PROVE  /\ since[l] <= now'
                        /\ \A t \in Instants : t + TTL + MaxScan <= since[l] =>
                             found[l].version >= past'[t][At(l)]
      BY <2>1 DEF HitCovers, Instants
    <3>1. since[l] <= now
      BY DEF TInv, HitCovers
    <3>2. \A t \in Instants : t + TTL + MaxScan <= since[l] => t # now
      BY <1>1, <2>1, <3>1, TimeType
    <3> QED
      BY <1>1, <1>2, <2>1, <3>1, <3>2, TimeType DEF TInv, HitCovers
  <2> QED
    BY <2>2, <2>3
<1> QED
  BY <1>3, <1>4, <1>5, <1>6 DEF TInv

\* The steps of a request that lists.
LEMMA StaleLister ==
  ASSUME TInv, TypeOK', NEW l \in Listers, Apart(l), \A k \in Listers \ {l} : since'[k] = since[k],
         UNCHANGED <<now, past, version>>, EntryCovers', ScanCovers(l)', HitCovers(l)'
  PROVE  TInv'
<1>1. Passed'
  BY DEF TInv, Passed, Instants
<1>2. ASSUME NEW k \in Listers \ {l} PROVE (ScanCovers(k) /\ HitCovers(k))'
  BY DEF TInv, Apart, ScanCovers, HitCovers, Scans, At, Instants
<1> QED
  BY <1>1, <1>2 DEF TInv

LEMMA StaleStat == ASSUME TInv, TypeOK', NEW l \in Listers, Stat(l) PROVE TInv'
<1>1. /\ Apart(l) /\ \A k \in Listers \ {l} : since'[k] = since[k]
      /\ step'[l] = "lookup" /\ UNCHANGED <<now, past, version, entry>>
  BY DEF TInv, Stat, TypeOK, Apart, cache
<1>2. EntryCovers' /\ ScanCovers(l)' /\ HitCovers(l)'
  BY <1>1 DEF TInv, EntryCovers, ScanCovers, HitCovers, Scans, Instants
<1> QED
  BY <1>1, <1>2, StaleLister

LEMMA StaleGiveUp == ASSUME TInv, TypeOK', NEW l \in Listers, GiveUp(l) PROVE TInv'
<1>1. /\ Apart(l) /\ \A k \in Listers \ {l} : since'[k] = since[k]
      /\ step'[l] = "idle" /\ UNCHANGED <<now, past, version, entry>>
  BY DEF TInv, GiveUp, Forget, TypeOK, Apart, cache
<1>2. EntryCovers' /\ ScanCovers(l)' /\ HitCovers(l)'
  BY <1>1 DEF TInv, EntryCovers, ScanCovers, HitCovers, Scans, Instants
<1> QED
  BY <1>1, <1>2, StaleLister

\* A hit comes before the entry is TTL old.
LEMMA StaleLookup == ASSUME TInv, TypeOK', NEW l \in Listers, Lookup(l) PROVE TInv'
<1>1. /\ Apart(l) /\ \A k \in Listers \ {l} : since'[k] = since[k]
      /\ step'[l] \in {"hit", "open"} /\ UNCHANGED <<now, past, version, entry, want>>
  BY DEF TInv, Lookup, TypeOK, Apart, cache
<1>2. EntryCovers' /\ ScanCovers(l)'
  BY <1>1 DEF TInv, EntryCovers, ScanCovers, Scans, Instants
<1>3. HitCovers(l)'
  <2>1. CASE Usable(entry, want[l], seen[l])
    <3>1. since'[l] = now /\ found'[l].version = entry.version
      BY <2>1 DEF TInv, TypeOK, Lookup
    <3>2. /\ entry # Nothing /\ entry.view = want[l] /\ now < entry.created + TTL
      BY <2>1 DEF Usable
    <3>3. entry.created \in Nat /\ At(l)' = DirOf[entry.view]
      BY <1>1, <3>2, EntryType DEF TInv, At
    <3>4. \A t \in Instants : t + TTL + MaxScan <= now => t + MaxScan < entry.created
      BY <3>2, <3>3, TimeType DEF TInv
    <3>5. \A t \in Instants : t + TTL + MaxScan <= now =>
            entry.version >= past[t][DirOf[entry.view]]
      BY <3>2, <3>4 DEF TInv, EntryCovers
    <3> QED
      BY <1>1, <3>1, <3>3, <3>5, TimeType DEF TInv, HitCovers, Instants
  <2>2. CASE ~Usable(entry, want[l], seen[l])
    <3>1. step'[l] = "open"
      BY <2>2 DEF TInv, TypeOK, Lookup
    <3> QED
      BY <3>1 DEF HitCovers
  <2> QED
    BY <2>1, <2>2
<1> QED
  BY <1>1, <1>2, <1>3, StaleLister

LEMMA StaleOpen == ASSUME TInv, TypeOK', NEW l \in Listers, Open(l) PROVE TInv'
<1>1. /\ Apart(l) /\ \A k \in Listers \ {l} : since'[k] = since[k]
      /\ step'[l] = "scan" /\ UNCHANGED <<now, past, version, entry, want>>
      /\ since'[l] = now /\ found'[l].version = version[At(l)] /\ At(l)' = At(l)
  BY DEF TInv, Open, TypeOK, Apart, cache, At
<1>2. EntryCovers' /\ HitCovers(l)'
  BY <1>1 DEF TInv, EntryCovers, HitCovers, Instants
<1>3. ScanCovers(l)'
  <2>1. At(l) \in Dirs
    BY ListerType DEF TInv
  <2>2. \A t \in Instants : version[At(l)] >= past[t][At(l)]
    BY <2>1, TimeType DEF TInv, Passed
  <2> QED
    BY <1>1, <2>2, TimeType DEF TInv, ScanCovers, Instants
<1> QED
  BY <1>1, <1>2, <1>3, StaleLister

LEMMA StaleScan == ASSUME TInv, TypeOK', NEW l \in Listers, Scan(l) PROVE TInv'
<1>1. PICK n \in found[l].version .. version[DirOf[want[l]]] :
        found' = [found EXCEPT ![l].version = n]
  BY DEF Scan
<1>2. /\ found[l].version \in Nat /\ version[DirOf[want[l]]] \in Nat
      /\ At(l) \in Dirs
  BY ListerType, TimeType DEF TInv, At
<1>3. n \in Nat /\ n >= found[l].version
  BY <1>1, <1>2
<1>4. /\ Apart(l) /\ \A k \in Listers \ {l} : since'[k] = since[k]
      /\ step'[l] = "store" /\ Scans(l) /\ UNCHANGED <<now, past, version, entry, want>>
      /\ since'[l] = since[l] /\ found'[l].version = n /\ At(l)' = At(l)
  <2>2. found'[l].version = n /\ \A k \in Listers \ {l} : found'[k] = found[k]
    BY <1>1 DEF TInv, TypeOK
  <2>3. UNCHANGED <<now, past, version, entry, want, since>>
    BY DEF Scan, cache
  <2>4. step'[l] = "store" /\ Scans(l) /\ \A k \in Listers \ {l} : step'[k] = step[k]
    BY DEF TInv, TypeOK, Scan, Scans
  <2>5. Apart(l)
    BY <2>2, <2>3, <2>4 DEF Apart, Scan
  <2> QED
    BY <2>2, <2>3, <2>4, <2>5 DEF At
<1>5. EntryCovers' /\ HitCovers(l)'
  BY <1>4 DEF TInv, EntryCovers, HitCovers, Instants
<1>6. ScanCovers(l)'
  <2>1. \A t \in Instants : t < since[l] => n >= past[t][At(l)]
    <3> SUFFICES ASSUME NEW t \in Instants, t < since[l] PROVE n >= past[t][At(l)]
      OBVIOUS
    <3>1. found[l].version >= past[t][At(l)]
      BY <1>4 DEF TInv, ScanCovers
    <3>2. past[t][At(l)] \in Nat
      BY <1>2, TimeType DEF TInv
    <3> QED
      BY <1>2, <1>3, <3>1, <3>2
  <2> QED
    BY <1>4, <2>1 DEF TInv, ScanCovers, Instants
<1> QED
  BY <1>4, <1>5, <1>6, StaleLister

\* What is stored was scanned at most MaxScan before it is dated.
LEMMA StaleStore == ASSUME TInv, TypeOK', NEW l \in Listers, Store(l) PROVE TInv'
<1>1. /\ Apart(l) /\ \A k \in Listers \ {l} : since'[k] = since[k]
      /\ step'[l] = "done" /\ Scans(l) /\ UNCHANGED <<now, past, version>>
  BY DEF TInv, Store, Forget, TypeOK, Apart, Scans
<1>2. ScanCovers(l)' /\ HitCovers(l)'
  BY <1>1 DEF ScanCovers, HitCovers, Scans
<1>3. EntryCovers'
  <2>1. CASE entry' = entry
    BY <1>1, <2>1 DEF TInv, EntryCovers, Instants
  <2>2. CASE entry' = [view |-> want[l], stamp |-> seen[l], created |-> now,
                       version |-> found[l].version]
    <3>1. /\ entry'.created = now /\ entry'.version = found[l].version
          /\ DirOf[entry'.view] = At(l) /\ since[l] \in Nat
      BY <2>2, ListerType DEF TInv, At
    <3>2. now <= since[l] + MaxScan
          /\ \A t \in Instants : t < since[l] => found[l].version >= past[t][At(l)]
      BY <1>1 DEF TInv, ScanCovers
    <3>3. \A t \in Instants : t + MaxScan < now => t < since[l]
      BY <3>1, <3>2, TimeType DEF TInv
    <3> QED
      BY <1>1, <3>1, <3>2, <3>3, TimeType DEF TInv, EntryCovers, Instants
  <2> QED
    BY <2>1, <2>2 DEF Store, Keep
<1> QED
  BY <1>1, <1>2, <1>3, StaleLister

LEMMA StaleStep == TInv /\ [Next]_vars => TInv'
<1> SUFFICES ASSUME TInv, [Next]_vars PROVE TInv'
  OBVIOUS
<1>1. TypeOK' /\ TypeOK
  BY TypeStep DEF TInv
<1>2. \A d \in Dirs : version[d] <= version[d]
  BY <1>1, TimeType
<1>3. ASSUME NEW m \in Mutators, Guard(m) \/ Release(m) \/ Abandon(m) PROVE TInv'
  BY <1>1, <1>2, <1>3, StaleAlter DEF Guard, Release, Abandon, Invalidate
<1>4. ASSUME NEW d \in Dirs, Alter(d) PROVE \A e \in Dirs : version[e] <= version'[e]
  <2>1. version' = [version EXCEPT ![d] = @ + 1] /\ version \in [Dirs -> Nat]
    BY <1>1, <1>4 DEF Alter, TypeOK
  <2> QED
    BY <2>1
<1>5. ASSUME NEW m \in Mutators, Change(m) PROVE TInv'
  <2>1. place[m] \in Dirs
    BY <1>1 DEF TypeOK
  <2> QED
    BY <1>1, <1>4, <1>5, <2>1, StaleAlter DEF Change, cache
<1>6. ASSUME NEW d \in Dirs, Outside(d) PROVE TInv'
  BY <1>1, <1>4, <1>6, StaleAlter DEF Outside, cache
<1>7. CASE Tick
  BY <1>1, <1>7, StaleTick
<1>8. ASSUME NEW l \in Listers,
             Stat(l) \/ Lookup(l) \/ Open(l) \/ Scan(l) \/ GiveUp(l) \/ Store(l)
      PROVE  TInv'
  BY <1>1, <1>8, StaleStat, StaleLookup, StaleOpen, StaleScan, StaleGiveUp, StaleStore
<1>9. CASE UNCHANGED vars
  BY <1>1, <1>2, <1>9, StaleAlter DEF vars, lister
<1> QED
  BY <1>3, <1>5, <1>6, <1>7, <1>8, <1>9 DEF Next

\* A change that leaves the directory's stamp alone is hidden by a hit for at
\* most the life of an entry and the time its scan took.
THEOREM NeverLongStale == Spec => []BoundedStaleness
<1>1. TInv => BoundedStaleness
  BY DEF TInv, HitCovers, BoundedStaleness, Instants, At
<1> QED
  BY <1>1, StaleInit, StaleStep, PTL DEF Spec

=============================================================================
