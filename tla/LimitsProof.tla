---------------------------- MODULE LimitsProof -----------------------------
(***************************************************************************)
(* What is limited stays within its limit, for every limit: the uploads of *)
(* a batch, whose files besides are never lost or sent twice, for any      *)
(* number of files, drops, batches and retries; and the failed logins, for *)
(* any number of requests and names, any window, cap and delay.            *)
(***************************************************************************)
EXTENDS UploadQueue, LoginLimit, FiniteSetTheorems, SequenceTheorems, TLAPS

-----------------------------------------------------------------------------
(***************************************************************************)
(* UploadQueue: the pool of a batch, and where its files stand.            *)
(***************************************************************************)
Statuses == {None, "unread", "pending", "uploading", "success", "error"}

\* A list of files without repetition.
Injective(s) == \A i, j \in DOMAIN s : s[i] = s[j] => i = j
FileList(s)  == s \in Seq(Files) /\ Injective(s)

DropRec  == [files : Seq(Files), inDialog : BOOLEAN, closedAt : Dirs \cup {None}]
BatchRec == [files : Seq(Files), started : Nat, closedAt : Dirs \cup {None}, refreshed : BOOLEAN]

Types ==
  /\ pathname \in Dirs /\ extracting \subseteq DropRec /\ batches \in Seq(BatchRec)
  /\ status \in [Files -> Statuses] /\ pool \in [Files -> BOOLEAN]
  /\ sent \in [Files -> Nat] /\ retries \in [Files -> Nat] /\ chosen \in 0 .. MaxFiles

\* The pool of one batch.
Full(b, running) ==
  /\ running <= PoolLimit
  /\ b.started < Len(b.files) => running = PoolLimit
  /\ b.refreshed <=> running = 0

\* Where a file stands in its batch's list decides what has been done to it.
Standing(f, started, k) ==
  IF k <= started
  THEN status[f] \in {"uploading", "success", "error"} /\ sent[f] = 1 + retries[f]
  ELSE status[f] = "pending" /\ sent[f] = 0 /\ retries[f] = 0

BatchFits(b) ==
  /\ FileList(b.files) /\ b.started <= Len(b.files)
  /\ \A k \in DOMAIN b.files : Standing(b.files[k], b.started, k)
  /\ Full(b, Cardinality(Running(b, status)))

Batched == UNION {Range(batches[i].files) : i \in DOMAIN batches}
Dropped == UNION {Range(d.files) : d \in extracting}

\* A file outside all batches has not been touched.
Untouched(f) == status[f] \in {None, "unread"} /\ sent[f] = 0 /\ retries[f] = 0

BatchesFit ==
  /\ \A b \in Range(batches) : BatchFits(b)
  /\ \A i, j \in DOMAIN batches :
       i # j => Range(batches[i].files) \cap Range(batches[j].files) = {}
  /\ \A f \in Files \ Batched : Untouched(f)

\* Every file is in one place.
PlacesFit ==
  /\ \A d \in extracting : FileList(d.files)
  /\ \A d, e \in extracting : d # e => Range(d.files) \cap Range(e.files) = {}
  /\ FileList(waiting)
  /\ Dropped \cap Range(waiting) = {} /\ Dropped \cap Batched = {} /\ Range(waiting) \cap Batched = {}
  /\ Dropped \cup Range(waiting) \cup Batched = {f \in 1 .. chosen : status[f] # "unread"}
  /\ \A f \in Files : f > chosen => status[f] = None

QueueInv == Types /\ BatchesFit /\ PlacesFit

-----------------------------------------------------------------------------
LEMMA InRange == ASSUME NEW S, NEW s \in Seq(S), NEW x
                 PROVE  x \in Range(s) <=> \E i \in 1 .. Len(s) : s[i] = x
  <1>1. DOMAIN s = 1 .. Len(s) BY LenProperties
  <1> QED BY <1>1 DEF Range

Segment(s, m, n) == {s[i] : i \in m .. n}

\* As many files as positions.
LEMMA SegmentSize ==
  ASSUME NEW S, NEW s \in Seq(S), Injective(s), NEW m \in Nat \ {0}, NEW n \in Nat,
         m <= n + 1, n <= Len(s)
  PROVE  /\ IsFiniteSet(Segment(s, m, n))
         /\ Cardinality(Segment(s, m, n)) = n + 1 - m
  <1> DEFINE I == m .. n
             T == {s[i] : i \in I}
             g == [i \in I |-> s[i]]
  <1>1. IsFiniteSet(I) /\ Cardinality(I) = n + 1 - m
    <2>1. m \in Int /\ n \in Int OBVIOUS
    <2>2. IsFiniteSet(m .. n) /\ Cardinality(m .. n) = IF m > n THEN 0 ELSE n - m + 1
      BY <2>1, FS_Interval
    <2> QED BY <2>2
  <1>2. I \subseteq DOMAIN s BY LenProperties
  <1>3. g \in [I -> T] OBVIOUS
  <1>4. \A i, j \in I : g[i] = g[j] => i = j BY <1>2 DEF Injective
  <1>5. \A t \in T : \E i \in I : g[i] = t OBVIOUS
  <1> HIDE DEF g, T, I
  <1>6. g \in Bijection(I, T) BY <1>3, <1>4, <1>5 DEF Bijection, Injection, Surjection, IsInjective
  <1>7. ExistsBijection(I, T) BY <1>6 DEF ExistsBijection
  <1>8. IsFiniteSet(T) /\ Cardinality(T) = n + 1 - m BY <1>1, <1>7, FS_Bijection
  <1> QED BY <1>8 DEF T, I, Segment

LEMMA OneMore ==
  ASSUME NEW S, IsFiniteSet(S), NEW x, x \notin S
  PROVE  Cardinality(S \cup {x}) = Cardinality(S) + 1
  BY FS_AddElement

LEMMA FilesFinite == IsFiniteSet(Files)
  BY FS_Interval, QueueAssumption DEF Files

LEMMA RunningFinite ==
  ASSUME NEW b, b \in BatchRec, b.started <= Len(b.files), NEW st
  PROVE  /\ Running(b, st) \subseteq Files /\ IsFiniteSet(Running(b, st))
         /\ Cardinality(Running(b, st)) \in Nat
  <1>1. Started(b) \subseteq Files
    <2>1. b.files \in Seq(Files) /\ b.started \in Nat BY DEF BatchRec
    <2>2. Len(b.files) \in Nat BY <2>1, LenProperties
    <2>3. \A i \in 1 .. b.started : i \in 1 .. Len(b.files) BY <2>1, <2>2
    <2> QED BY <2>1, <2>3, ElementOfSeq DEF Started
  <1>2. Running(b, st) \subseteq Files BY <1>1 DEF Running
  <1> QED BY <1>2, FilesFinite, FS_Subset, FS_CardinalityType

\* A batch whose files stand as they should and of which the same are running.
LEMMA KeptBatch ==
  ASSUME NEW b \in BatchRec, BatchFits(b), NEW c \in BatchRec,
         c.files = b.files, c.started = b.started, c.refreshed = b.refreshed,
         \A k \in DOMAIN b.files : Standing(b.files[k], b.started, k)',
         Running(c, status)' = Running(b, status)
  PROVE  BatchFits(c)'
  <1>1. FileList(c.files)' BY DEF BatchFits, FileList
  <1>2. \A k \in DOMAIN c.files : Standing(c.files[k], c.started, k)' OBVIOUS
  <1>3. Full(c, Cardinality(Running(b, status))) BY DEF BatchFits, Full
  <1>4. Full(c, Cardinality(Running(c, status)))' BY <1>3 DEF Full
  <1>5. c.started <= Len(c.files) BY DEF BatchFits
  <1> QED BY <1>1, <1>2, <1>4, <1>5 DEF BatchFits

\* A batch none of whose files changes.
LEMMA QuietBatch ==
  ASSUME NEW b \in BatchRec, BatchFits(b), NEW c \in BatchRec,
         c.files = b.files, c.started = b.started, c.refreshed = b.refreshed,
         \A f \in Range(b.files) : /\ status'[f] = status[f] /\ pool'[f] = pool[f]
                                   /\ sent'[f] = sent[f] /\ retries'[f] = retries[f]
  PROVE  BatchFits(c)'
  <1>1. \A k \in DOMAIN b.files : b.files[k] \in Range(b.files) BY DEF Range
  <1>2. \A k \in DOMAIN b.files : Standing(b.files[k], b.started, k)'
    BY <1>1 DEF BatchFits, Standing
  <1>3. Started(c) = Started(b) BY DEF Started
  <1>4. Started(b) \subseteq Range(b.files)
    <2>1. b.files \in Seq(Files) /\ b.started \in Nat /\ b.started <= Len(b.files)
      BY DEF BatchFits, BatchRec
    <2>2. DOMAIN b.files = 1 .. Len(b.files) /\ Len(b.files) \in Nat BY <2>1, LenProperties
    <2>3. \A i \in 1 .. b.started : i \in DOMAIN b.files BY <2>1, <2>2
    <2> QED BY <1>1, <2>3 DEF Started
  <1>5. Running(c, status)' = Running(b, status) BY <1>3, <1>4 DEF Running, Started
  <1> QED BY <1>2, <1>5, KeptBatch

LEMMA InBatched ==
  ASSUME NEW f
  PROVE  f \in Batched <=> \E i \in DOMAIN batches : f \in Range(batches[i].files)
  BY DEF Batched

\* A new batch: as many of its files as the pool takes are sent.
LEMMA NewBatchFits ==
  ASSUME NEW b \in BatchRec, FileList(b.files), b.files # <<>>, b.refreshed = FALSE,
         b.started = Fewest(PoolLimit, Len(b.files)),
         \A k \in DOMAIN b.files :
           IF k <= b.started
           THEN /\ status'[b.files[k]] = "uploading" /\ pool'[b.files[k]] = TRUE
                /\ sent'[b.files[k]] = 1 /\ retries'[b.files[k]] = 0
           ELSE /\ status'[b.files[k]] = "pending"
                /\ sent'[b.files[k]] = 0 /\ retries'[b.files[k]] = 0
  PROVE  BatchFits(b)'
  <1> DEFINE n == b.started
             len == Len(b.files)
             R == Segment(b.files, 1, n)
  <1>1. b.files \in Seq(Files) /\ Injective(b.files) BY DEF FileList
  <1>2. len \in Nat \ {0} /\ DOMAIN b.files = 1 .. len BY <1>1, LenProperties, EmptySeq
  <1>3. /\ n \in Nat \ {0} /\ n <= len /\ n <= PoolLimit
        /\ n < len => n = PoolLimit
        /\ PoolLimit \in Nat \ {0}
    BY <1>2, QueueAssumption DEF Fewest
  <1>4. Started(b) = R BY DEF Started, Segment
  <1>5. Cardinality(R) = n
    <2> HIDE DEF n
    <2>1. 1 \in Nat \ {0} /\ n \in Nat /\ 1 <= n + 1 /\ n <= Len(b.files) BY <1>3
    <2>2. Cardinality(Segment(b.files, 1, n)) = n + 1 - 1
      BY <1>1, <2>1, SegmentSize
    <2> QED BY <1>3, <2>2
  <1>6. \A f \in R : pool'[f] = TRUE /\ status'[f] = "uploading"
    <2> SUFFICES ASSUME NEW i \in 1 .. n
                 PROVE  pool'[b.files[i]] = TRUE /\ status'[b.files[i]] = "uploading"
      BY DEF Segment
    <2>1. i \in DOMAIN b.files /\ i <= b.started BY <1>2, <1>3
    <2> QED BY <2>1
  <1>7. Running(b, status)' = Started(b) BY <1>4, <1>6 DEF Running, Started
  <1>8. Full(b, n) BY <1>3 DEF Full
  <1>9. Full(b, Cardinality(Running(b, status)))' BY <1>4, <1>5, <1>7, <1>8 DEF Full
  <1>10. \A k \in DOMAIN b.files : Standing(b.files[k], b.started, k)' BY DEF Standing
  <1>11. FileList(b.files)' BY DEF FileList
  <1> QED BY <1>3, <1>9, <1>10, <1>11 DEF BatchFits

LEMMA AddFits ==
  ASSUME Types, BatchesFit, NEW files, FileList(files), files # <<>>,
         NEW closedAt \in Dirs \cup {None}, NEW st \in [Files -> Statuses],
         Range(files) \cap Batched = {},
         \A f \in Files \ Range(files) : st[f] = status[f] \/ (st[f] = "unread" /\ f \notin Batched),
         retries' = retries, AddFiles(files, closedAt, st)
  PROVE  /\ BatchesFit' /\ Batched' = Batched \cup Range(files)
         /\ batches' \in Seq(BatchRec) /\ status' \in [Files -> Statuses]
         /\ pool' \in [Files -> BOOLEAN] /\ sent' \in [Files -> Nat]
         /\ \A f \in Files : IF f \in Range(files) THEN status'[f] \in {"pending", "uploading"}
                                                   ELSE status'[f] = st[f]
  <1> DEFINE b == [Batch(files, 0) EXCEPT !.closedAt = closedAt]
  <1>1. files \in Seq(Files) /\ Injective(files) BY DEF FileList
  <1>2. Len(files) \in Nat \ {0} /\ DOMAIN files = 1 .. Len(files)
    BY <1>1, LenProperties, EmptySeq
  <1>3. b \in BatchRec /\ b.files = files /\ b.started = 0 /\ b.refreshed = FALSE
    <2>1. Batch(files, 0) \in BatchRec BY <1>1 DEF Batch, BatchRec
    <2>2. /\ Batch(files, 0).files = files /\ Batch(files, 0).started = 0
          /\ Batch(files, 0).refreshed = FALSE
      BY DEF Batch
    <2> QED BY <2>1, <2>2 DEF BatchRec
  <1>4. Room(b, st) = Fewest(PoolLimit, Len(files))
    <2>1. Started(b) = {} BY <1>3 DEF Started
    <2>2. Running(b, st) = {} BY <2>1 DEF Running
    <2>3. Cardinality(Running(b, st)) = 0 BY <2>2, FS_EmptySet
    <2>4. b.started = 0 /\ b.files = files BY <1>3
    <2>5. PoolLimit - 0 = PoolLimit /\ Len(files) - 0 = Len(files) BY <1>2, QueueAssumption
    <2> QED BY <2>3, <2>4, <2>5 DEF Room
  <1>0. PICK n : n = Room(b, st) OBVIOUS
  <1> DEFINE F == {files[i] : i \in 1 .. n}
  <1>5. n \in Nat /\ n <= Len(files) /\ n = Fewest(PoolLimit, Len(files))
    BY <1>0, <1>2, <1>4, QueueAssumption DEF Fewest
  <1>6. /\ batches' = Append(batches, [b EXCEPT !.started = n])
        /\ status' = [f \in Files |-> IF f \in F THEN "uploading"
                        ELSE IF f \in Range(files) THEN "pending" ELSE st[f]]
        /\ sent' = [f \in Files |-> IF f \in F THEN sent[f] + 1 ELSE sent[f]]
        /\ pool' = [f \in Files |-> IF f \in F THEN TRUE ELSE pool[f]]
    BY <1>0 DEF AddFiles, Send
  <1> HIDE DEF b
  <1>7. PICK c : c = [b EXCEPT !.started = n] OBVIOUS
  <1>8. c \in BatchRec BY <1>3, <1>5, <1>7 DEF BatchRec
  <1>9. c.files = files /\ c.started = n /\ c.refreshed = FALSE BY <1>3, <1>7 DEF BatchRec
  <1>10. /\ \A k \in DOMAIN files : files[k] \in Files /\ files[k] \in Range(files)
         /\ F \subseteq Range(files) /\ Range(files) \subseteq Files
    BY <1>1, <1>2, <1>5, ElementOfSeq DEF Range
  <1>11. \A k \in DOMAIN files : files[k] \in F <=> k <= n
    <2>1. \A i \in 1 .. n : i \in DOMAIN files BY <1>2, <1>5
    <2> QED BY <1>1, <1>2, <1>5, <2>1 DEF Injective
  <1> HIDE DEF F
  <1>12. /\ status' \in [Files -> Statuses] /\ pool' \in [Files -> BOOLEAN]
         /\ sent' \in [Files -> Nat]
         /\ \A f \in Files : IF f \in Range(files) THEN status'[f] \in {"pending", "uploading"}
                                                   ELSE status'[f] = st[f]
    <2>1. \A f \in Files : (IF f \in F THEN "uploading" ELSE IF f \in Range(files) THEN "pending"
                             ELSE st[f]) \in Statuses
      BY DEF Statuses
    <2>2. status' \in [Files -> Statuses] BY <1>6, <2>1
    <2>3. \A f \in Files : sent[f] \in Nat /\ pool[f] \in BOOLEAN BY DEF Types
    <2>4. sent' \in [Files -> Nat]
      <3>1. \A f \in Files : (IF f \in F THEN sent[f] + 1 ELSE sent[f]) \in Nat BY <2>3
      <3> QED BY <1>6, <3>1
    <2>5. pool' \in [Files -> BOOLEAN]
      <3>1. \A f \in Files : (IF f \in F THEN TRUE ELSE pool[f]) \in BOOLEAN BY <2>3
      <3> QED BY <1>6, <3>1
    <2> QED BY <1>6, <1>10, <2>2, <2>4, <2>5
  <1>13. \A f \in Range(files) : Untouched(f)
    BY <1>10 DEF BatchesFit
  <1>14. BatchFits(c)'
    <2>1. \A k \in DOMAIN files :
            IF k <= n THEN /\ status'[files[k]] = "uploading" /\ pool'[files[k]] = TRUE
                           /\ sent'[files[k]] = 1 /\ retries'[files[k]] = 0
            ELSE status'[files[k]] = "pending" /\ sent'[files[k]] = 0 /\ retries'[files[k]] = 0
      BY <1>6, <1>10, <1>11, <1>13 DEF Untouched
    <2>2. \A k \in DOMAIN c.files :
            IF k <= c.started
            THEN /\ status'[c.files[k]] = "uploading" /\ pool'[c.files[k]] = TRUE
                 /\ sent'[c.files[k]] = 1 /\ retries'[c.files[k]] = 0
            ELSE /\ status'[c.files[k]] = "pending"
                 /\ sent'[c.files[k]] = 0 /\ retries'[c.files[k]] = 0
      BY <1>9, <2>1
    <2>3. FileList(c.files) /\ c.files # <<>> /\ c.started = Fewest(PoolLimit, Len(c.files))
      BY <1>5, <1>9
    <2> QED BY <1>8, <1>9, <2>2, <2>3, NewBatchFits
  <1>15. /\ batches \in Seq(BatchRec) /\ batches' \in Seq(BatchRec)
         /\ DOMAIN batches = 1 .. Len(batches) /\ Len(batches) \in Nat
         /\ DOMAIN batches' = 1 .. Len(batches) + 1
         /\ \A i \in DOMAIN batches : batches'[i] = batches[i]
         /\ batches'[Len(batches) + 1] = c
    BY <1>6, <1>7, <1>8, AppendProperties, LenProperties DEF Types
  <1>16. \A i \in DOMAIN batches' : i \in DOMAIN batches \/ i = Len(batches) + 1 BY <1>15
  <1>17. Batched' = Batched \cup Range(files)
    BY <1>9, <1>15, <1>16 DEF Batched
  <1>18. \A i \in DOMAIN batches : Range(batches[i].files) \cap Range(files) = {}
    BY InBatched
  <1>19. ASSUME NEW x \in Range(batches) PROVE BatchFits(x)'
    <2>1. PICK i \in DOMAIN batches : x = batches[i] BY DEF Range
    <2>2. x \in BatchRec /\ BatchFits(x) BY <1>15, <2>1, ElementOfSeq DEF BatchesFit
    <2>3. \A f \in Range(x.files) : f \in Batched /\ f \notin Range(files) BY <1>18, <2>1, InBatched
    <2>4. Range(x.files) \subseteq Files
      <3>1. x.files \in Seq(Files) BY <2>2 DEF BatchRec
      <3> QED BY <3>1, LenProperties, ElementOfSeq DEF Range
    <2>5. \A f \in Range(x.files) : /\ status'[f] = status[f] /\ pool'[f] = pool[f]
                                    /\ sent'[f] = sent[f] /\ retries'[f] = retries[f]
      BY <1>6, <1>10, <2>3, <2>4
    <2> QED BY <2>2, <2>5, QuietBatch
  <1>20. Range(batches)' = Range(batches) \cup {c} BY <1>15, <1>16 DEF Range
  <1>21. (\A x \in Range(batches) : BatchFits(x))' BY <1>14, <1>19, <1>20
  <1>22. (\A i, j \in DOMAIN batches :
            i # j => Range(batches[i].files) \cap Range(batches[j].files) = {})'
    <2> SUFFICES ASSUME NEW i \in DOMAIN batches', NEW j \in DOMAIN batches', i # j
                 PROVE  Range(batches'[i].files) \cap Range(batches'[j].files) = {}
      OBVIOUS
    <2>1. CASE i \in DOMAIN batches /\ j \in DOMAIN batches
      BY <1>15, <2>1 DEF BatchesFit
    <2>2. CASE i = Len(batches) + 1 BY <1>9, <1>15, <1>16, <1>18, <2>2
    <2>3. CASE j = Len(batches) + 1 BY <1>9, <1>15, <1>16, <1>18, <2>3
    <2> QED BY <1>16, <2>1, <2>2, <2>3
  <1>23. (\A f \in Files \ Batched : Untouched(f))'
    <2> SUFFICES ASSUME NEW f \in Files, f \notin Batched, f \notin Range(files)
                 PROVE  Untouched(f)'
      BY <1>17
    <2>1. Untouched(f) BY DEF BatchesFit
    <2>2. status'[f] \in {None, "unread"} BY <1>12, <2>1 DEF Untouched
    <2>3. sent'[f] = 0 /\ retries'[f] = 0 BY <1>6, <1>10, <2>1 DEF Untouched
    <2> QED BY <2>2, <2>3 DEF Untouched
  <1> QED BY <1>12, <1>15, <1>17, <1>21, <1>22, <1>23 DEF BatchesFit

LEMMA FilesOf ==
  ASSUME NEW b \in BatchRec
  PROVE  /\ b.files \in Seq(Files) /\ Len(b.files) \in Nat /\ DOMAIN b.files = 1 .. Len(b.files)
         /\ Range(b.files) \subseteq Files /\ b.started \in Nat
         /\ \A k \in DOMAIN b.files : b.files[k] \in Range(b.files)
         /\ b.started <= Len(b.files) =>
              /\ Started(b) \subseteq Range(b.files)
              /\ \A k \in DOMAIN b.files : k <= b.started => b.files[k] \in Started(b)
  <1>1. b.files \in Seq(Files) /\ b.started \in Nat BY DEF BatchRec
  <1>2. Len(b.files) \in Nat /\ DOMAIN b.files = 1 .. Len(b.files) BY <1>1, LenProperties
  <1>3. Range(b.files) \subseteq Files BY <1>1, <1>2, ElementOfSeq DEF Range
  <1>4. \A k \in DOMAIN b.files : b.files[k] \in Range(b.files) BY DEF Range
  <1>5. ASSUME b.started <= Len(b.files)
        PROVE  /\ Started(b) \subseteq Range(b.files)
               /\ \A k \in DOMAIN b.files : k <= b.started => b.files[k] \in Started(b)
    <2>1. \A i \in 1 .. b.started : i \in DOMAIN b.files BY <1>1, <1>2, <1>5
    <2>2. \A k \in DOMAIN b.files : k <= b.started => k \in 1 .. b.started BY <1>1, <1>2
    <2> QED BY <1>4, <2>1, <2>2 DEF Started
  <1> QED BY <1>1, <1>2, <1>3, <1>4, <1>5

\* A retry runs beside the pool.
LEMMA RetryFits ==
  ASSUME Types, BatchesFit, NEW f \in Files, Retry(f)
  PROVE  /\ BatchesFit' /\ Batched' = Batched
         /\ batches' \in Seq(BatchRec) /\ status' \in [Files -> Statuses]
         /\ pool' \in [Files -> BOOLEAN] /\ sent' \in [Files -> Nat] /\ retries' \in [Files -> Nat]
         /\ \A g \in Files : (status[g] = "unread" <=> status'[g] = "unread")
                             /\ (status[g] = None <=> status'[g] = None)
  <1>1. /\ status[f] = "error" /\ batches' = batches
        /\ retries' = [retries EXCEPT ![f] = @ + 1]
        /\ status' = [g \in Files |-> IF g \in {f} THEN "uploading" ELSE status[g]]
        /\ sent' = [g \in Files |-> IF g \in {f} THEN sent[g] + 1 ELSE sent[g]]
        /\ pool' = [g \in Files |-> IF g \in {f} THEN FALSE ELSE pool[g]]
    BY DEF Retry, Send
  <1>2. \A g \in Files : sent[g] \in Nat /\ retries[g] \in Nat /\ status[g] \in Statuses
                         /\ pool[g] \in BOOLEAN
    BY DEF Types
  <1>3. /\ \A g \in Files : g # f => /\ status'[g] = status[g] /\ sent'[g] = sent[g]
                                     /\ retries'[g] = retries[g] /\ pool'[g] = pool[g]
        /\ status'[f] = "uploading" /\ sent'[f] = sent[f] + 1 /\ retries'[f] = retries[f] + 1
        /\ pool'[f] = FALSE
    BY <1>1 DEF Types
  <1>4. /\ status' \in [Files -> Statuses] /\ sent' \in [Files -> Nat] /\ retries' \in [Files -> Nat]
    <2>1. \A g \in Files : status'[g] \in Statuses /\ sent'[g] \in Nat /\ retries'[g] \in Nat
      BY <1>2, <1>3 DEF Statuses
    <2>2. retries' = [g \in Files |-> retries'[g]] BY <1>1 DEF Types
    <2>3. status' = [g \in Files |-> status'[g]] /\ sent' = [g \in Files |-> sent'[g]]
      BY <1>1
    <2> QED BY <2>1, <2>2, <2>3
  <1>5. pool' \in [Files -> BOOLEAN]
    <2>1. \A g \in Files : (IF g \in {f} THEN FALSE ELSE pool[g]) \in BOOLEAN BY <1>2
    <2> QED BY <1>1, <2>1
  <1>6. Batched' = Batched BY <1>1 DEF Batched
  <1>7. f \in Batched BY <1>1 DEF BatchesFit, Untouched, None
  <1>8. ASSUME NEW b \in Range(batches) PROVE BatchFits(b)'
    <2>1. b \in BatchRec /\ BatchFits(b)
      BY LenProperties, ElementOfSeq DEF Range, Types, BatchesFit
    <2>2. \A k \in DOMAIN b.files : Standing(b.files[k], b.started, k)'
      <3> SUFFICES ASSUME NEW k \in DOMAIN b.files PROVE Standing(b.files[k], b.started, k)'
        OBVIOUS
      <3>1. b.files[k] \in Files /\ Standing(b.files[k], b.started, k)
        BY <2>1, FilesOf DEF BatchFits
      <3>2. CASE b.files[k] # f BY <1>3, <3>1, <3>2 DEF Standing
      <3>3. CASE b.files[k] = f
        <4>1. k <= b.started /\ sent[f] = 1 + retries[f] BY <1>1, <3>1, <3>3 DEF Standing
        <4> QED BY <1>2, <1>3, <3>3, <4>1 DEF Standing
      <3> QED BY <3>2, <3>3
    <2>3. Started(b) \subseteq Files BY <2>1, FilesOf DEF BatchFits
    <2>4. Running(b, status)' = Running(b, status)
      <3>1. \A g \in Started(b) : pool'[g] /\ status'[g] = "uploading"
                                  <=> pool[g] /\ status[g] = "uploading"
        BY <1>1, <1>3, <2>3
      <3> QED BY <3>1 DEF Running, Started
    <2> QED BY <2>1, <2>2, <2>4, KeptBatch
  <1>9. BatchesFit'
    <2>1. (\A b \in Range(batches) : BatchFits(b))' BY <1>1, <1>8 DEF Range
    <2>2. (\A i, j \in DOMAIN batches :
             i # j => Range(batches[i].files) \cap Range(batches[j].files) = {})'
      BY <1>1 DEF BatchesFit
    <2>3. (\A g \in Files \ Batched : Untouched(g))' BY <1>3, <1>6, <1>7 DEF BatchesFit, Untouched
    <2> QED BY <2>1, <2>2, <2>3 DEF BatchesFit
  <1>10. \A g \in Files : (status[g] = "unread" <=> status'[g] = "unread")
                          /\ (status[g] = None <=> status'[g] = None)
    BY <1>1, <1>3 DEF None
  <1> QED BY <1>1, <1>4, <1>5, <1>6, <1>9, <1>10 DEF Types

\* When an upload of the pool ends, the next file is sent if there is one.
LEMMA NextIsSent ==
  ASSUME Types, NEW b \in BatchRec, BatchFits(b), NEW f \in Running(b, status),
         NEW outcome \in {"success", "error"}, b.started < Len(b.files),
         NEW g \in Files, b.files[b.started + 1] = g,
         NEW c \in BatchRec, c.files = b.files, c.started = b.started + 1, ~c.refreshed,
         retries' = retries, status'[g] = "uploading", sent'[g] = sent[g] + 1, pool'[g],
         \A x \in Files \ {g} : sent'[x] = sent[x] /\ pool'[x] = pool[x]
                                /\ status'[x] = IF x = f THEN outcome ELSE status[x]
  PROVE  BatchFits(c)' /\ g \in Range(b.files) /\ g # f
  <1> DEFINE s == b.started
             running == Running(b, status)
  <1>1. /\ FileList(b.files) /\ s \in Nat /\ Len(b.files) \in Nat /\ s < Len(b.files)
        /\ DOMAIN b.files = 1 .. Len(b.files) /\ Range(b.files) \subseteq Files
        /\ Started(b) \subseteq Range(b.files)
        /\ \A k \in DOMAIN b.files : b.files[k] \in Range(b.files)
                                     /\ Standing(b.files[k], s, k)
    BY FilesOf DEF BatchFits
  <1>2. s + 1 \in DOMAIN b.files /\ g \in Range(b.files) /\ Standing(g, s, s + 1)
    BY <1>1
  <1>3. status[g] = "pending" /\ sent[g] = 0 /\ retries[g] = 0 BY <1>1, <1>2 DEF Standing
  <1>4. f \in Started(b) /\ status[f] = "uploading" /\ pool[f] BY DEF Running
  <1>5. g # f BY <1>3, <1>4
  <1>6. \A k \in DOMAIN b.files : b.files[k] = g <=> k = s + 1
    BY <1>1, <1>2 DEF FileList, Injective
  <1>7. \A k \in DOMAIN b.files : Standing(b.files[k], c.started, k)'
    <2> SUFFICES ASSUME NEW k \in DOMAIN b.files PROVE Standing(b.files[k], s + 1, k)'
      OBVIOUS
    <2>1. b.files[k] \in Files /\ Standing(b.files[k], s, k) /\ k \in Nat BY <1>1
    <2>2. CASE k = s + 1
      <3>1. b.files[k] = g /\ k <= s + 1 BY <1>1, <2>2
      <3>2. sent'[g] = 1 + retries'[g] BY <1>3
      <3> QED BY <3>1, <3>2 DEF Standing
    <2>3. CASE k # s + 1
      <3>1. b.files[k] # g /\ (k <= s + 1 <=> k <= s) BY <1>1, <1>6, <2>1, <2>3
      <3>2. CASE b.files[k] = f BY <1>4, <2>1, <3>1, <3>2 DEF Standing
      <3>3. CASE b.files[k] # f BY <2>1, <3>1, <3>3 DEF Standing
      <3> QED BY <3>2, <3>3
    <2> QED BY <2>2, <2>3
  <1>8. Started(c) = Started(b) \cup {g}
    <2>1. \A k \in 1 .. s + 1 : k \in 1 .. s \/ k = s + 1 BY <1>1
    <2>2. 1 .. s \subseteq 1 .. s + 1 /\ s + 1 \in 1 .. s + 1 BY <1>1
    <2> QED BY <2>1, <2>2 DEF Started
  <1>9. g \notin running BY <1>3 DEF Running
  <1>10. Running(c, status)' = (running \ {f}) \cup {g}
    <2>1. Running(c, status)' = {x \in Started(c) : pool'[x] /\ status'[x] = "uploading"}
      BY DEF Running, Started
    <2>2. \A x \in Started(b) \ {g} : pool'[x] /\ status'[x] = "uploading"
                                      <=> x # f /\ pool[x] /\ status[x] = "uploading"
      BY <1>1
    <2>3. running = {x \in Started(b) : pool[x] /\ status[x] = "uploading"} BY DEF Running
    <2> HIDE DEF running
    <2> QED BY <1>5, <1>8, <1>9, <2>1, <2>2, <2>3
  <1>11. IsFiniteSet(running) /\ Cardinality(running) = PoolLimit
    BY RunningFinite DEF BatchFits, Full
  <1>12. Cardinality((running \ {f}) \cup {g}) = PoolLimit
    <2> HIDE DEF running
    <2>1. PICK R : R = running \ {f} OBVIOUS
    <2>2. IsFiniteSet(R) /\ Cardinality(R) = PoolLimit - 1
      BY <1>11, <2>1, FS_RemoveElement DEF running
    <2>3. g \notin R BY <1>9, <2>1
    <2>4. Cardinality(R \cup {g}) = Cardinality(R) + 1 BY <2>2, <2>3, OneMore
    <2> QED BY <2>1, <2>2, <2>3, <2>4, QueueAssumption
  <1>13. Full(c, Cardinality(Running(c, status)))'
    <2>1. PICK n : n = Cardinality((running \ {f}) \cup {g}) OBVIOUS
    <2>2. n = PoolLimit BY <1>12, <2>1
    <2>3. Full(c, n) BY <2>2, QueueAssumption DEF Full
    <2>4. Cardinality(Running(c, status)') = n BY <1>10, <2>1
    <2> QED BY <2>3, <2>4 DEF Full
  <1>14. c.started <= Len(c.files) BY <1>1
  <1>15. BatchFits(c)' BY <1>1, <1>7, <1>13, <1>14 DEF BatchFits, FileList
  <1> QED BY <1>2, <1>5, <1>15

\* With no file left, the last upload's end is followed by the refresh.
LEMMA LastEnds ==
  ASSUME Types, NEW b \in BatchRec, BatchFits(b), NEW f \in Running(b, status),
         NEW outcome \in {"success", "error"}, b.started = Len(b.files),
         NEW c \in BatchRec, c.files = b.files, c.started = b.started,
         c.refreshed <=> Running(b, status) \ {f} = {},
         retries' = retries,
         \A x \in Files : sent'[x] = sent[x] /\ pool'[x] = pool[x]
                          /\ status'[x] = IF x = f THEN outcome ELSE status[x]
  PROVE  BatchFits(c)'
  <1> DEFINE running == Running(b, status)
  <1>1. /\ FileList(b.files) /\ Started(b) \subseteq Files
        /\ \A k \in DOMAIN b.files : b.files[k] \in Files /\ Standing(b.files[k], b.started, k)
    BY FilesOf DEF BatchFits
  <1>2. f \in Started(b) /\ status[f] = "uploading" /\ pool[f] BY DEF Running
  <1>3. \A k \in DOMAIN b.files : Standing(b.files[k], c.started, k)'
    <2> SUFFICES ASSUME NEW k \in DOMAIN b.files PROVE Standing(b.files[k], b.started, k)'
      OBVIOUS
    <2>1. CASE b.files[k] = f BY <1>1, <1>2, <2>1 DEF Standing
    <2>2. CASE b.files[k] # f BY <1>1, <2>2 DEF Standing
    <2> QED BY <2>1, <2>2
  <1>4. Running(c, status)' = running \ {f}
    <2>1. Running(c, status)' = {x \in Started(b) : pool'[x] /\ status'[x] = "uploading"}
      BY DEF Running, Started
    <2>2. \A x \in Started(b) : pool'[x] /\ status'[x] = "uploading"
                                <=> x # f /\ pool[x] /\ status[x] = "uploading"
      BY <1>1
    <2>3. running = {x \in Started(b) : pool[x] /\ status[x] = "uploading"} BY DEF Running
    <2> HIDE DEF running
    <2> QED BY <2>1, <2>2, <2>3
  <1>5. /\ IsFiniteSet(running) /\ Cardinality(running) \in Nat
        /\ Cardinality(running) <= PoolLimit
    BY RunningFinite DEF BatchFits, Full
  <1>6. /\ IsFiniteSet(running \ {f}) /\ Cardinality(running \ {f}) \in Nat
        /\ Cardinality(running \ {f}) <= PoolLimit
        /\ Cardinality(running \ {f}) = 0 <=> running \ {f} = {}
    <2> HIDE DEF running
    <2>1. IsFiniteSet(running \ {f}) /\ Cardinality(running \ {f}) <= Cardinality(running)
      BY <1>5, FS_Subset
    <2>2. Cardinality(running \ {f}) \in Nat BY <2>1, FS_CardinalityType
    <2>3. Cardinality(running \ {f}) = 0 <=> running \ {f} = {} BY <2>1, FS_EmptySet
    <2> QED BY <1>5, <2>1, <2>2, <2>3, QueueAssumption
  <1>7. PICK n : n = Cardinality(running \ {f}) OBVIOUS
  <1>8. Full(c, n) BY <1>6, <1>7, FilesOf DEF Full
  <1>9. Cardinality(Running(c, status)') = n BY <1>4, <1>7
  <1>10. Full(c, Cardinality(Running(c, status)))' BY <1>8, <1>9 DEF Full
  <1>11. c.started <= Len(c.files) BY FilesOf
  <1> QED BY <1>1, <1>3, <1>10, <1>11 DEF BatchFits, FileList

\* What the end of an upload makes room for.
LEMMA RoomLeft ==
  ASSUME Types, NEW b \in BatchRec, BatchFits(b), NEW f \in Running(b, status),
         NEW outcome \in {"success", "error"}, NEW st, st = [status EXCEPT ![f] = outcome]
  PROVE  /\ Running(b, st) = Running(b, status) \ {f}
         /\ Room(b, st) = IF b.started < Len(b.files) THEN 1 ELSE 0
  <1> DEFINE running == Running(b, status)
  <1>1. /\ b.started \in Nat /\ Len(b.files) \in Nat /\ b.started <= Len(b.files)
        /\ Started(b) \subseteq Files /\ f \in Files
    BY FilesOf DEF BatchFits, Running
  <1>2. Running(b, st) = running \ {f}
    <2>1. \A x \in Started(b) : st[x] = "uploading" <=> x # f /\ status[x] = "uploading"
      BY <1>1 DEF Types
    <2> QED BY <2>1 DEF Running
  <1>3. /\ IsFiniteSet(running) /\ Cardinality(running) \in Nat
        /\ Cardinality(running) <= PoolLimit
        /\ b.started < Len(b.files) => Cardinality(running) = PoolLimit
    BY RunningFinite DEF BatchFits, Full
  <1>4. Cardinality(running \ {f}) = Cardinality(running) - 1
    <2> HIDE DEF running
    <2> QED BY <1>3, FS_RemoveElement DEF running
  <1>5. PICK n : n = Cardinality(running \ {f}) OBVIOUS
  <1>6. PICK m : m = Cardinality(running) OBVIOUS
  <1>7. n = m - 1 /\ m \in Nat /\ m <= PoolLimit /\ (b.started < Len(b.files) => m = PoolLimit)
    BY <1>3, <1>4, <1>5, <1>6
  <1>8. Room(b, st) = Fewest(PoolLimit - n, Len(b.files) - b.started)
    BY <1>2, <1>5 DEF Room
  <1>9. Fewest(PoolLimit - n, Len(b.files) - b.started) = IF b.started < Len(b.files) THEN 1 ELSE 0
    BY <1>1, <1>7, QueueAssumption DEF Fewest
  <1> QED BY <1>2, <1>8, <1>9

LEMMA ResumeFits ==
  ASSUME Types, NEW b \in BatchRec, BatchFits(b), NEW f \in Running(b, status),
         NEW outcome \in {"success", "error"}, NEW st, st = [status EXCEPT ![f] = outcome],
         NEW c, c = Resume(b, st),
         retries' = retries, Send(Following(b, st), Base(b), st, TRUE)
  PROVE  /\ BatchFits(c)' /\ c \in BatchRec /\ c.files = b.files
         /\ status' \in [Files -> Statuses] /\ pool' \in [Files -> BOOLEAN]
         /\ sent' \in [Files -> Nat]
         /\ \A x \in Files \ Range(b.files) : status'[x] = status[x] /\ pool'[x] = pool[x]
                                              /\ sent'[x] = sent[x]
         /\ \A x \in Files : (status[x] = "unread" <=> status'[x] = "unread")
                             /\ (status[x] = None <=> status'[x] = None)
  <1> DEFINE s == b.started
             len == Len(b.files)
             fs == Following(b, st)
             done == s = len /\ Running(b, st) = {}
  <1>1. /\ s \in Nat /\ len \in Nat /\ s <= len /\ DOMAIN b.files = 1 .. len
        /\ Range(b.files) \subseteq Files /\ Started(b) \subseteq Range(b.files)
        /\ f \in Started(b) /\ f \in Range(b.files) /\ f \in Files
        /\ status[f] = "uploading" /\ pool[f]
    BY FilesOf DEF BatchFits, Running
  <1>2. Room(b, st) \in {0, 1} BY RoomLeft
  <1>3. /\ c \in BatchRec /\ c.files = b.files /\ c.started = s + Room(b, st)
        /\ c.refreshed = done
    <2>1. c = [[b EXCEPT !.started = s + Room(b, st)] EXCEPT !.refreshed = done]
      BY DEF Resume, BatchRec
    <2>2. s + Room(b, st) \in Nat /\ done \in BOOLEAN BY <1>1, <1>2
    <2> HIDE DEF done, s
    <2>3. [b EXCEPT !.started = s + Room(b, st)] \in BatchRec BY <2>2 DEF BatchRec
    <2> QED BY <2>1, <2>2, <2>3 DEF BatchRec
  <1>4. \A x \in Files : st[x] = IF x = f THEN outcome ELSE status[x]
    BY DEF Types
  <1>5. fs \subseteq Range(b.files) /\ \A x \in fs : status[x] = "pending"
    <2> SUFFICES ASSUME NEW k \in s + 1 .. s + Room(b, st)
                 PROVE  b.files[k] \in Range(b.files) /\ status[b.files[k]] = "pending"
      BY DEF Following
    <2>1. CASE s < len
      <3>1. Room(b, st) = 1 BY <2>1, RoomLeft
      <3>2. k \in DOMAIN b.files /\ ~(k <= s) BY <1>1, <2>1, <3>1
      <3> QED BY <3>2, FilesOf DEF BatchFits, Standing
    <2>2. CASE ~(s < len)
      <3>1. Room(b, st) = 0 BY <2>2, RoomLeft
      <3> QED BY <1>1, <3>1
    <2> QED BY <2>1, <2>2
  <1> HIDE DEF fs
  <1>6. /\ status' = [x \in Files |-> IF x \in fs THEN "uploading" ELSE st[x]]
        /\ sent' = [x \in Files |-> IF x \in fs THEN sent[x] + 1 ELSE sent[x]]
        /\ pool' = [x \in Files |-> IF x \in fs THEN TRUE ELSE pool[x]]
    BY DEF Send, fs
  <1>7. \A x \in Files : /\ status'[x] = IF x \in fs THEN "uploading"
                                         ELSE IF x = f THEN outcome ELSE status[x]
                         /\ sent'[x] = IF x \in fs THEN sent[x] + 1 ELSE sent[x]
    BY <1>4, <1>6
  <1>8. \A x \in Files : pool'[x] = IF x \in fs THEN TRUE ELSE pool[x] BY <1>6
  <1>9. status' \in [Files -> Statuses] /\ sent' \in [Files -> Nat]
    <2>1. \A x \in Files : status'[x] \in Statuses BY <1>7 DEF Types, Statuses
    <2>2. \A x \in Files : sent'[x] \in Nat BY <1>7 DEF Types
    <2>3. status' = [x \in Files |-> status'[x]] /\ sent' = [x \in Files |-> sent'[x]]
      BY <1>6
    <2> QED BY <2>1, <2>2, <2>3
  <1>10. pool' \in [Files -> BOOLEAN]
    <2>1. \A x \in Files : (IF x \in fs THEN TRUE ELSE pool[x]) \in BOOLEAN BY DEF Types
    <2> QED BY <1>6, <2>1
  <1>11. ASSUME NEW x \in Files, x \notin Range(b.files)
         PROVE  status'[x] = status[x] /\ pool'[x] = pool[x] /\ sent'[x] = sent[x]
    <2>1. x \notin fs /\ x # f BY <1>1, <1>5, <1>11
    <2> QED BY <1>7, <1>8, <2>1
  <1>12. ASSUME NEW x \in Files
         PROVE  (status[x] = "unread" <=> status'[x] = "unread")
                /\ (status[x] = None <=> status'[x] = None)
    BY <1>1, <1>5, <1>7 DEF None
  <1>13. BatchFits(c)'
    <2>1. CASE s < len
      <3>1. Room(b, st) = 1 BY <2>1, RoomLeft
      <3>2. PICK g : g = b.files[s + 1] OBVIOUS
      <3>3. fs = {g} /\ g \in Files
        <4>1. s + 1 .. s + 1 = {s + 1} BY <1>1
        <4>2. fs = Segment(b.files, s + 1, s + 1) BY <3>1 DEF fs, Following, Segment
        <4>3. Segment(b.files, s + 1, s + 1) = {g} BY <3>2, <4>1 DEF Segment
        <4> QED BY <1>1, <1>5, <4>2, <4>3
      <3>4. c.started = s + 1 BY <1>3, <3>1
      <3>8. ~c.refreshed
        <4>1. ~done BY <1>1, <2>1
        <4> QED BY <1>3, <4>1
      <3>5. status'[g] = "uploading" /\ sent'[g] = sent[g] + 1 BY <1>7, <3>3
      <3>6. pool'[g] BY <1>8, <3>3
      <3>7. \A x \in Files \ {g} : sent'[x] = sent[x] /\ pool'[x] = pool[x]
                                  /\ status'[x] = IF x = f THEN outcome ELSE status[x]
        BY <1>7, <1>8, <3>3
      <3>9. /\ c \in BatchRec /\ c.files = b.files /\ b.started < Len(b.files)
            /\ g \in Files /\ b.files[b.started + 1] = g /\ c.started = b.started + 1
        BY <1>3, <2>1, <3>2, <3>3, <3>4
      <3> HIDE DEF s, len, done
      <3> QED BY <3>5, <3>6, <3>7, <3>8, <3>9, NextIsSent
    <2>2. CASE s = len
      <3>0. ~(s < len) BY <1>1, <2>2
      <3>1. Room(b, st) = 0 BY <3>0, RoomLeft
      <3>2. fs = {}
        <4>1. s + 1 .. s + 0 = {} BY <1>1
        <4> QED BY <3>1, <4>1 DEF fs, Following
      <3>3. c.started = s BY <1>1, <1>3, <3>1
      <3>4. c.refreshed <=> Running(b, status) \ {f} = {} BY <1>3, <2>2, RoomLeft
      <3>5. \A x \in Files : sent'[x] = sent[x] /\ pool'[x] = pool[x]
                             /\ status'[x] = IF x = f THEN outcome ELSE status[x]
        BY <1>7, <1>8, <3>2
      <3> QED BY <1>3, <2>2, <3>3, <3>4, <3>5, LastEnds
    <2> QED BY <1>1, <2>1, <2>2
  <1> QED BY <1>3, <1>9, <1>10, <1>11, <1>12, <1>13

LEMMA FinishFits ==
  ASSUME Types, BatchesFit, NEW f \in Files, NEW outcome \in {"success", "error"},
         Finish(f, outcome)
  PROVE  /\ BatchesFit' /\ Batched' = Batched
         /\ batches' \in Seq(BatchRec) /\ status' \in [Files -> Statuses]
         /\ pool' \in [Files -> BOOLEAN] /\ sent' \in [Files -> Nat]
         /\ \A g \in Files : (status[g] = "unread" <=> status'[g] = "unread")
                             /\ (status[g] = None <=> status'[g] = None)
  <1>1. status[f] = "uploading" /\ retries' = retries BY DEF Finish, InFlight
  <1>2. f \in Batched BY <1>1 DEF BatchesFit, Untouched, None
  <1>3. \A b \in Range(batches) : b \in BatchRec /\ BatchFits(b)
    BY LenProperties, ElementOfSeq DEF Range, Types, BatchesFit
  <1>4. DOMAIN batches = 1 .. Len(batches) /\ Len(batches) \in Nat
    BY LenProperties DEF Types
  <1>5. ASSUME ~pool[f]
        PROVE  /\ BatchesFit' /\ Batched' = Batched
               /\ batches' \in Seq(BatchRec) /\ status' \in [Files -> Statuses]
               /\ pool' \in [Files -> BOOLEAN] /\ sent' \in [Files -> Nat]
               /\ \A g \in Files : (status[g] = "unread" <=> status'[g] = "unread")
                                   /\ (status[g] = None <=> status'[g] = None)
    <2>1. /\ status' = [status EXCEPT ![f] = outcome] /\ batches' = batches
          /\ pool' = pool /\ sent' = sent
      BY <1>5 DEF Finish
    <2>2. \A x \in Files : status'[x] = IF x = f THEN outcome ELSE status[x]
      BY <2>1 DEF Types
    <2>3. status' \in [Files -> Statuses] BY <2>1 DEF Types, Statuses
    <2>4. Batched' = Batched BY <2>1 DEF Batched
    <2>5. ASSUME NEW b \in Range(batches) PROVE BatchFits(b)'
      <3>1. b \in BatchRec /\ BatchFits(b) /\ Started(b) \subseteq Files
        BY <1>3, FilesOf DEF BatchFits
      <3>2. ASSUME NEW k \in DOMAIN b.files PROVE Standing(b.files[k], b.started, k)'
        <4>1. b.files[k] \in Files /\ Standing(b.files[k], b.started, k)
          BY <3>1, FilesOf DEF BatchFits
        <4>2. CASE b.files[k] = f BY <1>1, <2>1, <2>2, <4>1, <4>2 DEF Standing
        <4>3. CASE b.files[k] # f BY <1>1, <2>1, <2>2, <4>1, <4>3 DEF Standing
        <4> QED BY <4>2, <4>3
      <3>3. Running(b, status)' = Running(b, status)
        <4>1. \A x \in Started(b) : pool[x] => x # f BY <1>5
        <4>2. \A x \in Started(b) : pool'[x] /\ status'[x] = "uploading"
                                    <=> pool[x] /\ status[x] = "uploading"
          BY <2>1, <2>2, <3>1, <4>1
        <4> QED BY <4>2 DEF Running, Started
      <3> QED BY <3>1, <3>2, <3>3, KeptBatch
    <2>6. BatchesFit'
      <3>1. (\A b \in Range(batches) : BatchFits(b))' BY <2>1, <2>5 DEF Range
      <3>2. (\A i, j \in DOMAIN batches :
               i # j => Range(batches[i].files) \cap Range(batches[j].files) = {})'
        BY <2>1 DEF BatchesFit
      <3>3. (\A g \in Files \ Batched : Untouched(g))'
        BY <1>1, <1>2, <2>1, <2>2, <2>4 DEF BatchesFit, Untouched
      <3> QED BY <3>1, <3>2, <3>3 DEF BatchesFit
    <2>7. \A g \in Files : (status[g] = "unread" <=> status'[g] = "unread")
                           /\ (status[g] = None <=> status'[g] = None)
      BY <1>1, <2>2 DEF None
    <2> QED BY <2>1, <2>3, <2>4, <2>6, <2>7 DEF Types
  <1>6. ASSUME pool[f]
        PROVE  /\ BatchesFit' /\ Batched' = Batched
               /\ batches' \in Seq(BatchRec) /\ status' \in [Files -> Statuses]
               /\ pool' \in [Files -> BOOLEAN] /\ sent' \in [Files -> Nat]
               /\ \A g \in Files : (status[g] = "unread" <=> status'[g] = "unread")
                                   /\ (status[g] = None <=> status'[g] = None)
    <2>1. PICK st : st = [status EXCEPT ![f] = outcome] OBVIOUS
    <2>2. PICK i \in DOMAIN batches :
            /\ f \in Started(batches[i])
            /\ batches' = [batches EXCEPT ![i] = Resume(@, st)]
            /\ Send(Following(batches[i], st), Base(batches[i]), st, TRUE)
      BY <1>6, <2>1 DEF Finish
    <2>3. PICK b : b = batches[i] OBVIOUS
    <2>4. PICK c : c = Resume(b, st) OBVIOUS
    <2>5. b \in Range(batches) /\ b \in BatchRec /\ BatchFits(b) /\ f \in Running(b, status)
      BY <1>1, <1>3, <1>6, <2>2, <2>3 DEF Range, Running
    <2>6. /\ BatchFits(c)' /\ c \in BatchRec /\ c.files = b.files
          /\ status' \in [Files -> Statuses] /\ pool' \in [Files -> BOOLEAN]
          /\ sent' \in [Files -> Nat]
          /\ \A x \in Files \ Range(b.files) : status'[x] = status[x] /\ pool'[x] = pool[x]
                                               /\ sent'[x] = sent[x]
          /\ \A x \in Files : (status[x] = "unread" <=> status'[x] = "unread")
                              /\ (status[x] = None <=> status'[x] = None)
      <3>1. Send(Following(b, st), Base(b), st, TRUE) BY <2>2, <2>3
      <3>2. retries' = retries BY <1>1
      <3> QED BY <2>1, <2>4, <2>5, <3>1, <3>2, ResumeFits
    <2>7. batches' = [batches EXCEPT ![i] = c] BY <2>2, <2>3, <2>4
    <2>8. /\ batches' \in Seq(BatchRec) /\ DOMAIN batches' = DOMAIN batches /\ batches'[i] = c
          /\ \A j \in DOMAIN batches : j # i => batches'[j] = batches[j]
      BY <2>2, <2>6, <2>7, ExceptSeq DEF Types
    <2>9. \A j \in DOMAIN batches : batches'[j].files = batches[j].files
      BY <2>3, <2>6, <2>8
    <2>10. Batched' = Batched BY <2>8, <2>9 DEF Batched
    <2>11. ASSUME NEW x \in Range(batches') PROVE BatchFits(x)'
      <3>1. PICK j \in DOMAIN batches : x = batches'[j] BY <2>8 DEF Range
      <3>2. CASE j = i BY <2>6, <2>8, <3>1, <3>2
      <3>3. CASE j # i
        <4>1. x = batches[j] BY <2>8, <3>1, <3>3
        <4>2. x \in BatchRec /\ BatchFits(x) BY <1>3, <4>1 DEF Range
        <4>3. Range(x.files) \cap Range(b.files) = {}
          BY <2>2, <2>3, <3>3, <4>1 DEF BatchesFit
        <4>4. \A g \in Range(x.files) : g \in Files \ Range(b.files)
          BY <4>2, <4>3, FilesOf
        <4>5. \A g \in Range(x.files) : /\ status'[g] = status[g] /\ pool'[g] = pool[g]
                                        /\ sent'[g] = sent[g] /\ retries'[g] = retries[g]
          BY <1>1, <2>6, <4>4
        <4> QED BY <4>2, <4>5, QuietBatch
      <3> QED BY <3>2, <3>3
    <2>12. BatchesFit'
      <3>1. (\A x \in Range(batches) : BatchFits(x))' BY <2>11
      <3>2. (\A j, k \in DOMAIN batches :
               j # k => Range(batches[j].files) \cap Range(batches[k].files) = {})'
        BY <2>8, <2>9 DEF BatchesFit
      <3>3. (\A g \in Files \ Batched : Untouched(g))'
        <4>1. Range(b.files) \subseteq Batched BY <2>2, <2>3, InBatched
        <4>2. ASSUME NEW g \in Files, g \notin Batched
              PROVE  status'[g] = status[g] /\ sent'[g] = sent[g] /\ retries'[g] = retries[g]
          BY <1>1, <2>6, <4>1, <4>2
        <4> QED BY <2>10, <4>2 DEF BatchesFit, Untouched
      <3> QED BY <3>1, <3>2, <3>3 DEF BatchesFit
    <2> QED BY <2>6, <2>8, <2>10, <2>12
  <1>7. pool[f] \/ ~pool[f] OBVIOUS
  <1> QED BY <1>5, <1>6, <1>7

-----------------------------------------------------------------------------
(***************************************************************************)
(* Where the files are.                                                    *)
(***************************************************************************)
\* Batches that are left alone; a file may be found to be unreadable.
LEMMA BatchesStay ==
  ASSUME Types, BatchesFit, UNCHANGED <<batches, pool, sent, retries>>,
         \A f \in Files : status'[f] = status[f] \/ (f \notin Batched /\ status'[f] = "unread")
  PROVE  BatchesFit' /\ Batched' = Batched
  <1>1. Batched' = Batched BY DEF Batched
  <1>2. ASSUME NEW b \in Range(batches) PROVE BatchFits(b)'
    <2>1. b \in BatchRec /\ BatchFits(b) /\ Range(b.files) \subseteq Files
      BY LenProperties, ElementOfSeq, FilesOf DEF Range, Types, BatchesFit
    <2>2. \A f \in Range(b.files) : f \in Batched BY InBatched DEF Range
    <2>3. \A f \in Range(b.files) : /\ status'[f] = status[f] /\ pool'[f] = pool[f]
                                    /\ sent'[f] = sent[f] /\ retries'[f] = retries[f]
      BY <2>1, <2>2
    <2> QED BY <2>1, <2>3, QuietBatch
  <1>3. (\A b \in Range(batches) : BatchFits(b))' BY <1>2 DEF Range
  <1>4. (\A i, j \in DOMAIN batches :
           i # j => Range(batches[i].files) \cap Range(batches[j].files) = {})'
    BY DEF BatchesFit
  <1>5. (\A f \in Files \ Batched : Untouched(f))' BY <1>1 DEF BatchesFit, Untouched
  <1> QED BY <1>1, <1>3, <1>4, <1>5 DEF BatchesFit

\* The files a list names have come to wait or into a batch.
Arrived(files, st) ==
  /\ BatchesFit' /\ batches' \in Seq(BatchRec) /\ status' \in [Files -> Statuses]
  /\ pool' \in [Files -> BOOLEAN] /\ sent' \in [Files -> Nat]
  /\ FileList(waiting') /\ Range(waiting') \cap Batched' = {}
  /\ Range(waiting') \cup Batched' = Range(waiting) \cup Batched \cup Range(files)
  /\ \A f \in Files : IF f \in Range(files) THEN status'[f] # "unread" ELSE status'[f] = st[f]

\* The states of the files when those of one list are about to be added.
Before(files, st) ==
  /\ st \in [Files -> Statuses]
  /\ \A f \in Range(files) : st[f] # "unread"
  /\ \A f \in Files : st[f] = status[f] \/ (st[f] = "unread" /\ f \notin Batched)

LEMMA AddArrives ==
  ASSUME Types, BatchesFit, FileList(waiting), Range(waiting) \cap Batched = {},
         NEW files, FileList(files), files # <<>>, NEW st, Before(files, st),
         NEW closedAt \in Dirs \cup {None},
         Range(files) \cap Range(waiting) = {}, Range(files) \cap Batched = {},
         retries' = retries, waiting' = waiting, AddFiles(files, closedAt, st)
  PROVE  Arrived(files, st)
  <1>1. \A f \in Files \ Range(files) :
          st[f] = status[f] \/ (st[f] = "unread" /\ f \notin Batched)
    BY DEF Before
  <1>2. st \in [Files -> Statuses] BY DEF Before
  <1>3. /\ BatchesFit' /\ Batched' = Batched \cup Range(files)
        /\ batches' \in Seq(BatchRec) /\ status' \in [Files -> Statuses]
        /\ pool' \in [Files -> BOOLEAN] /\ sent' \in [Files -> Nat]
        /\ \A f \in Files : IF f \in Range(files) THEN status'[f] \in {"pending", "uploading"}
                                                  ELSE status'[f] = st[f]
    BY <1>1, <1>2, AddFits
  <1>4. FileList(waiting') OBVIOUS
  <1>5. Range(waiting') = Range(waiting) OBVIOUS
  <1> QED BY <1>3, <1>4, <1>5 DEF Arrived

LEMMA EnqueueArrives ==
  ASSUME Types, BatchesFit, FileList(waiting), Range(waiting) \cap Batched = {},
         NEW files, FileList(files), files # <<>>, NEW st, Before(files, st),
         Range(files) \cap Range(waiting) = {}, Range(files) \cap Batched = {},
         retries' = retries, EnqueueFiles(files, st)
  PROVE  Arrived(files, st)
  <1>1. CASE Active
    <2>1. waiting' = waiting /\ AddFiles(files, None, st) BY <1>1 DEF EnqueueFiles
    <2>2. None \in Dirs \cup {None} OBVIOUS
    <2> QED BY <2>1, <2>2, AddArrives
  <1>2. CASE ~Active
    <2>1. /\ waiting' = waiting \o files /\ status' = st
          /\ UNCHANGED <<batches, pool, sent, retries>>
      BY <1>2 DEF EnqueueFiles
    <2>2. \A f \in Files : status'[f] = status[f] \/ (f \notin Batched /\ status'[f] = "unread")
      BY <2>1 DEF Before
    <2>8. BatchesFit' /\ Batched' = Batched BY <2>1, <2>2, BatchesStay
    <2>3. waiting \in Seq(Files) /\ files \in Seq(Files) BY DEF FileList
    <2>4. /\ Len(waiting) \in Nat /\ DOMAIN waiting = 1 .. Len(waiting)
          /\ Len(files) \in Nat /\ DOMAIN files = 1 .. Len(files)
          /\ waiting' \in Seq(Files) /\ Len(waiting') = Len(waiting) + Len(files)
          /\ DOMAIN waiting' = 1 .. Len(waiting) + Len(files)
          /\ \A i \in DOMAIN waiting' : waiting'[i] = IF i <= Len(waiting) THEN waiting[i]
                                                      ELSE files[i - Len(waiting)]
      BY <2>1, <2>3, LenProperties, ConcatProperties
    <2>5. ASSUME NEW i \in DOMAIN waiting'
          PROVE  IF i <= Len(waiting)
                 THEN i \in DOMAIN waiting /\ waiting'[i] = waiting[i] /\ waiting[i] \in Range(waiting)
                 ELSE /\ i - Len(waiting) \in DOMAIN files /\ waiting'[i] = files[i - Len(waiting)]
                      /\ files[i - Len(waiting)] \in Range(files)
      BY <2>4 DEF Range
    <2>6. Range(waiting') = Range(waiting) \cup Range(files)
      <3>1. \A i \in DOMAIN waiting : i \in DOMAIN waiting' /\ i <= Len(waiting) BY <2>4
      <3>2. \A i \in DOMAIN files : /\ i + Len(waiting) \in DOMAIN waiting'
                                    /\ ~(i + Len(waiting) <= Len(waiting))
                                    /\ (i + Len(waiting)) - Len(waiting) = i
        BY <2>4
      <3>3. Range(waiting') \subseteq Range(waiting) \cup Range(files)
        BY <2>5 DEF Range
      <3>4. Range(waiting) \subseteq Range(waiting')
        BY <2>4, <3>1 DEF Range
      <3>5. Range(files) \subseteq Range(waiting')
        <4> SUFFICES ASSUME NEW i \in DOMAIN files PROVE files[i] \in Range(waiting')
          BY DEF Range
        <4>1. waiting'[i + Len(waiting)] = files[i] BY <2>4, <3>2
        <4> QED BY <3>2, <4>1 DEF Range
      <3> QED BY <3>3, <3>4, <3>5
    <2>7. Injective(waiting')
      <3> SUFFICES ASSUME NEW i \in DOMAIN waiting', NEW j \in DOMAIN waiting',
                          waiting'[i] = waiting'[j]
                   PROVE  i = j
        BY DEF Injective
      <3>1. CASE i <= Len(waiting) /\ j <= Len(waiting)
        BY <2>5, <3>1 DEF FileList, Injective
      <3>2. CASE ~(i <= Len(waiting)) /\ ~(j <= Len(waiting))
        <4>1. i - Len(waiting) = j - Len(waiting) BY <2>5, <3>2 DEF FileList, Injective
        <4> QED BY <2>4, <4>1
      <3>3. CASE i <= Len(waiting) /\ ~(j <= Len(waiting)) BY <2>5, <3>3
      <3>4. CASE ~(i <= Len(waiting)) /\ j <= Len(waiting) BY <2>5, <3>4
      <3> QED BY <3>1, <3>2, <3>3, <3>4
    <2>9. FileList(waiting') BY <2>4, <2>7 DEF FileList
    <2>10. /\ batches' \in Seq(BatchRec) /\ status' \in [Files -> Statuses]
           /\ pool' \in [Files -> BOOLEAN] /\ sent' \in [Files -> Nat]
      BY <2>1 DEF Types, Before
    <2>11. \A f \in Files : IF f \in Range(files) THEN status'[f] # "unread" ELSE status'[f] = st[f]
      BY <2>1 DEF Before
    <2> QED BY <2>6, <2>8, <2>9, <2>10, <2>11 DEF Arrived
  <1> QED BY <1>1, <1>2

\* What the user may choose.
LEMMA Chosen ==
  ASSUME chosen \in 0 .. MaxFiles, NEW files \in Lists
  PROVE  /\ FileList(files) /\ files # <<>> /\ Len(files) \in Nat
         /\ chosen + Len(files) \in 0 .. MaxFiles /\ chosen + Len(files) > chosen
         /\ \A f \in Files : f \in Range(files) <=> f > chosen /\ f <= chosen + Len(files)
         /\ Range(files) \subseteq Files
  <1>1. MaxFiles \in Nat /\ chosen \in Nat /\ chosen <= MaxFiles BY QueueAssumption
  <1>2. PICK n \in 1 .. MaxFiles - chosen : files = [i \in 1 .. n |-> chosen + i]
    BY DEF Lists
  <1>3. n \in Nat /\ n > 0 /\ chosen + n <= MaxFiles BY <1>1, <1>2
  <1>4. \A i \in 1 .. n : chosen + i \in Files BY <1>1, <1>3 DEF Files
  <1>5. files \in Seq(Files)
    <2>1. files \in [1 .. n -> Files] BY <1>2, <1>4
    <2> QED BY <1>3, <2>1, IsASeq
  <1>6. Len(files) = n /\ DOMAIN files = 1 .. n
    <2>1. DOMAIN files = 1 .. n BY <1>2
    <2>2. DOMAIN files = 1 .. Len(files) /\ Len(files) \in Nat BY <1>5, LenProperties
    <2>3. 1 .. n = 1 .. Len(files) BY <2>1, <2>2
    <2>4. n \in 1 .. Len(files) /\ 1 \in 1 .. Len(files) BY <1>3, <2>3
    <2>5. Len(files) \in 1 .. n
      <3>1. PICK m \in Nat : m = Len(files) BY <2>2
      <3>2. m \in 1 .. m BY <2>2, <2>4, <3>1
      <3> QED BY <2>3, <3>1, <3>2
    <2> QED BY <1>3, <2>1, <2>2, <2>4, <2>5
  <1>7. \A i \in 1 .. n : files[i] = chosen + i BY <1>2
  <1>8. Injective(files)
    <2> SUFFICES ASSUME NEW i \in 1 .. n, NEW j \in 1 .. n, chosen + i = chosen + j PROVE i = j
      BY <1>6, <1>7 DEF Injective
    <2> QED BY <1>1, <1>3
  <1>9. files # <<>> BY <1>3, <1>5, <1>6, EmptySeq
  <1>10. Range(files) \subseteq Files BY <1>4, <1>6, <1>7 DEF Range
  <1>11. ASSUME NEW f \in Files PROVE f \in Range(files) <=> f > chosen /\ f <= chosen + n
    <2>1. f \in Nat BY <1>1 DEF Files
    <2>2. f \in Range(files) => \E i \in 1 .. n : f = chosen + i BY <1>6, <1>7 DEF Range
    <2>3. f > chosen /\ f <= chosen + n => f - chosen \in 1 .. n /\ f = chosen + (f - chosen)
      BY <1>1, <1>3, <2>1
    <2>4. \A i \in 1 .. n : chosen + i \in Range(files) BY <1>6, <1>7 DEF Range
    <2>5. \A i \in 1 .. n : chosen + i > chosen /\ chosen + i <= chosen + n BY <1>1, <1>3
    <2> QED BY <2>2, <2>3, <2>4, <2>5
  <1> QED BY <1>1, <1>3, <1>5, <1>6, <1>8, <1>9, <1>10, <1>11 DEF FileList

\* A file is on the page only when it has been chosen, and can be read.
LEMMA Known ==
  ASSUME Types, PlacesFit
  PROVE  /\ Dropped \subseteq Files /\ Range(waiting) \subseteq Files /\ Batched \subseteq Files
         /\ \A f \in Dropped \cup Range(waiting) \cup Batched :
              f \in Files /\ f <= chosen /\ status[f] # "unread"
         /\ \A f \in Files : f <= chosen /\ status[f] # "unread"
                             => f \in Dropped \cup Range(waiting) \cup Batched
  <1>1. MaxFiles \in Nat /\ chosen \in Nat /\ chosen <= MaxFiles BY QueueAssumption DEF Types
  <1>2. 1 .. chosen \subseteq Files BY <1>1 DEF Files
  <1>3. Dropped \cup Range(waiting) \cup Batched = {f \in 1 .. chosen : status[f] # "unread"}
    BY DEF PlacesFit
  <1>4. \A f \in 1 .. chosen : f <= chosen BY <1>1
  <1>5. \A f \in Files : f <= chosen => f \in 1 .. chosen BY <1>1 DEF Files
  <1> QED BY <1>2, <1>3, <1>4, <1>5

\* The places, once each of the three kinds and what is unread is known.
LEMMA Placed ==
  ASSUME chosen' \in 0 .. MaxFiles,
         \A d \in extracting' : FileList(d.files),
         \A d, e \in extracting' : d # e => Range(d.files) \cap Range(e.files) = {},
         FileList(waiting'),
         NEW rest, rest = Range(waiting') \cup Batched', Range(waiting') \cap Batched' = {},
         Dropped' \cap rest = {}, Dropped' \subseteq Files, rest \subseteq Files,
         \A f \in Files : f \in Dropped' \cup rest <=> f <= chosen' /\ status'[f] # "unread",
         \A f \in Files : f > chosen' => status'[f] = None
  PROVE  PlacesFit'
  <1>1. MaxFiles \in Nat /\ chosen' \in Nat /\ chosen' <= MaxFiles BY QueueAssumption
  <1>2. \A f : f \in 1 .. chosen' <=> f \in Files /\ f <= chosen' BY <1>1 DEF Files
  <1>3. Dropped' \cup Range(waiting') \cup Batched' = {f \in 1 .. chosen' : status'[f] # "unread"}
    BY <1>2
  <1>4. (\A d \in extracting : FileList(d.files))' BY DEF FileList, Injective
  <1>5. (\A d, e \in extracting : d # e => Range(d.files) \cap Range(e.files) = {})' OBVIOUS
  <1>6. Dropped' \cap Range(waiting') = {} /\ Dropped' \cap Batched' = {} OBVIOUS
  <1>7. FileList(waiting)' BY DEF FileList, Injective
  <1>8. (\A f \in Files : f > chosen => status[f] = None)' OBVIOUS
  <1> QED BY <1>3, <1>4, <1>5, <1>6, <1>7, <1>8 DEF PlacesFit

\* Nothing moves.
LEMMA PlacesStay ==
  ASSUME Types, PlacesFit, UNCHANGED <<extracting, waiting, chosen>>, Batched' = Batched,
         \A f \in Files : (status[f] = "unread" <=> status'[f] = "unread")
                          /\ (status[f] = None <=> status'[f] = None)
  PROVE  PlacesFit'
  <1>1. PICK rest : rest = Range(waiting) \cup Batched OBVIOUS
  <1>2. Dropped' = Dropped BY DEF Dropped
  <1>3. /\ Dropped \subseteq Files /\ rest \subseteq Files
        /\ \A f \in Files : f \in Dropped \cup rest <=> f <= chosen /\ status[f] # "unread"
    BY <1>1, Known
  <1>4. chosen' \in 0 .. MaxFiles BY DEF Types
  <1>5. \A f \in Files : f > chosen' => status'[f] = None BY DEF PlacesFit
  <1>6. \A f \in Files : f \in Dropped' \cup rest <=> f <= chosen' /\ status'[f] # "unread"
    BY <1>2, <1>3
  <1>7. rest = Range(waiting') \cup Batched' BY <1>1
  <1>8. /\ \A d \in extracting' : FileList(d.files)
        /\ \A d, e \in extracting' : d # e => Range(d.files) \cap Range(e.files) = {}
        /\ FileList(waiting') /\ Range(waiting') \cap Batched' = {}
    BY DEF PlacesFit
  <1>9. Dropped' \cap rest = {} BY <1>1, <1>2 DEF PlacesFit
  <1> QED BY <1>2, <1>3, <1>4, <1>5, <1>6, <1>7, <1>8, <1>9, Placed

-----------------------------------------------------------------------------
(***************************************************************************)
(* The steps.                                                              *)
(***************************************************************************)
LEMMA DropInv ==
  ASSUME QueueInv, NEW files \in Lists, NEW inDialog \in BOOLEAN, DropFiles(files, inDialog)
  PROVE  QueueInv'
  <1>1. Types /\ BatchesFit /\ PlacesFit BY DEF QueueInv
  <1>2. PICK d : d = [files |-> files, inDialog |-> inDialog, closedAt |-> None] OBVIOUS
  <1>3. /\ FileList(files) /\ Len(files) \in Nat
        /\ chosen + Len(files) \in 0 .. MaxFiles /\ chosen + Len(files) > chosen
        /\ \A f \in Files : f \in Range(files) <=> f > chosen /\ f <= chosen + Len(files)
        /\ Range(files) \subseteq Files
    BY <1>1, Chosen DEF Types
  <1>4. d \in DropRec /\ d.files = files BY <1>2, <1>3 DEF DropRec, FileList
  <1>5. /\ extracting' = extracting \cup {d} /\ chosen' = chosen + Len(files)
        /\ UNCHANGED <<pathname, waiting, batches, status, pool, retries, sent>>
    BY <1>2 DEF DropFiles
  <1>6. Types' BY <1>1, <1>3, <1>4, <1>5 DEF Types
  <1>7. BatchesFit' /\ Batched' = Batched BY <1>1, <1>5, BatchesStay
  <1>8. PICK rest : rest = Range(waiting) \cup Batched OBVIOUS
  <1>9. /\ Dropped \subseteq Files /\ rest \subseteq Files
        /\ \A f \in Files : f \in Dropped \cup rest <=> f <= chosen /\ status[f] # "unread"
        /\ Dropped \cap rest = {}
    BY <1>1, <1>8, Known DEF PlacesFit
  <1>10. Dropped' = Dropped \cup Range(files) BY <1>4, <1>5 DEF Dropped
  <1>11. \A f \in Range(files) : f \notin Dropped \cup rest
    <2>1. chosen \in Nat BY <1>1, QueueAssumption DEF Types
    <2>2. \A f \in Files : f > chosen => ~(f <= chosen) BY <2>1 DEF Files
    <2> QED BY <1>3, <1>9, <2>2
  <1>12. \A f \in Files : f > chosen' => status'[f] = None
    <2>1. chosen \in Nat /\ \A f \in Files : f \in Nat
      BY <1>1, QueueAssumption DEF Types, Files
    <2>2. \A f \in Files : f > chosen + Len(files) => f > chosen BY <1>3, <2>1
    <2> QED BY <1>1, <1>5, <2>2 DEF PlacesFit
  <1>13. \A f \in Files : f \in Dropped' \cup rest <=> f <= chosen' /\ status'[f] # "unread"
    <2> TAKE f \in Files
    <2>1. f \in Nat /\ chosen \in Nat BY <1>1, QueueAssumption DEF Types, Files
    <2>2. f > chosen => status[f] # "unread" BY <1>1 DEF PlacesFit, None
    <2>3. f <= chosen' <=> f <= chosen \/ f \in Range(files) BY <1>3, <1>5, <2>1
    <2>4. f \in Range(files) => f > chosen BY <1>3
    <2> QED BY <1>5, <1>9, <1>10, <2>2, <2>3, <2>4
  <1>14. \A e \in extracting' : FileList(e.files) BY <1>1, <1>3, <1>4, <1>5 DEF PlacesFit
  <1>15. \A e \in extracting : Range(e.files) \cap Range(files) = {}
    <2>1. \A e \in extracting : Range(e.files) \subseteq Dropped BY DEF Dropped
    <2> QED BY <1>11, <2>1
  <1>16. \A e, c \in extracting' : e # c => Range(e.files) \cap Range(c.files) = {}
    BY <1>1, <1>4, <1>5, <1>15 DEF PlacesFit
  <1>17. /\ FileList(waiting') /\ Range(waiting') \cap Batched' = {}
         /\ rest = Range(waiting') \cup Batched'
    BY <1>1, <1>5, <1>7, <1>8 DEF PlacesFit
  <1>18. Dropped' \cap rest = {} BY <1>9, <1>10, <1>11
  <1>19. Dropped' \subseteq Files BY <1>3, <1>9, <1>10
  <1>20. chosen' \in 0 .. MaxFiles BY <1>3, <1>5
  <1>21. PlacesFit'
    BY <1>9, <1>12, <1>13, <1>14, <1>16, <1>17, <1>18, <1>19, <1>20, Placed
  <1> QED BY <1>6, <1>7, <1>21 DEF QueueInv

\* Files are added as soon as they are picked.
LEMMA PickInv ==
  ASSUME QueueInv, NEW files \in Lists, NEW st, st = status, Arrived(files, st),
         chosen' = chosen + Len(files), UNCHANGED <<pathname, extracting, retries>>
  PROVE  QueueInv'
  <1>1. Types /\ BatchesFit /\ PlacesFit BY DEF QueueInv
  <1>2. /\ FileList(files) /\ Len(files) \in Nat
        /\ chosen + Len(files) \in 0 .. MaxFiles /\ chosen + Len(files) > chosen
        /\ \A f \in Files : f \in Range(files) <=> f > chosen /\ f <= chosen + Len(files)
        /\ Range(files) \subseteq Files
    BY <1>1, Chosen DEF Types
  <1>3. /\ BatchesFit' /\ FileList(waiting') /\ Range(waiting') \cap Batched' = {}
        /\ Range(waiting') \cup Batched' = Range(waiting) \cup Batched \cup Range(files)
        /\ \A f \in Files : IF f \in Range(files) THEN status'[f] # "unread" ELSE status'[f] = status[f]
    BY DEF Arrived
  <1>4. Types' BY <1>1, <1>2 DEF Types, Arrived
  <1>5. PICK rest : rest = Range(waiting') \cup Batched' OBVIOUS
  <1>6. /\ Dropped \subseteq Files /\ rest \subseteq Files
        /\ \A f \in Files : f \in Dropped \cup Range(waiting) \cup Batched
                            <=> f <= chosen /\ status[f] # "unread"
        /\ Dropped \cap (Range(waiting) \cup Batched) = {}
    BY <1>1, <1>2, <1>3, <1>5, Known DEF PlacesFit
  <1>7. Dropped' = Dropped BY DEF Dropped
  <1>8. chosen \in Nat /\ \A f \in Files : f \in Nat
    BY <1>1, QueueAssumption DEF Types, Files
  <1>9. Dropped' \cap rest = {}
    <2>1. \A f \in Range(files) : ~(f <= chosen) BY <1>2, <1>8
    <2> QED BY <1>2, <1>3, <1>5, <1>6, <1>7, <2>1
  <1>10. \A f \in Files : f \in Dropped' \cup rest <=> f <= chosen' /\ status'[f] # "unread"
    <2> TAKE f \in Files
    <2>1. f <= chosen' <=> f <= chosen \/ f \in Range(files) BY <1>2, <1>8
    <2>2. f \in Range(files) => status'[f] # "unread" BY <1>3
    <2>3. f \notin Range(files) => status'[f] = status[f] BY <1>3
    <2> QED BY <1>3, <1>5, <1>6, <1>7, <2>1, <2>2, <2>3
  <1>11. \A f \in Files : f > chosen' => status'[f] = None
    <2>1. \A f \in Files : f > chosen' => f > chosen /\ f \notin Range(files) BY <1>2, <1>8
    <2> QED BY <1>1, <1>3, <2>1 DEF PlacesFit
  <1>12. /\ \A d \in extracting' : FileList(d.files)
         /\ \A d, e \in extracting' : d # e => Range(d.files) \cap Range(e.files) = {}
    BY <1>1 DEF PlacesFit
  <1>13. chosen' \in 0 .. MaxFiles BY <1>2
  <1>14. Dropped' \subseteq Files BY <1>6, <1>7
  <1>15. PlacesFit'
    BY <1>3, <1>5, <1>6, <1>9, <1>10, <1>11, <1>12, <1>13, <1>14, Placed
  <1> QED BY <1>3, <1>4, <1>15 DEF QueueInv

\* New files are on no page yet.
LEMMA NewFiles ==
  ASSUME Types, PlacesFit, NEW files \in Lists, NEW st, st = status
  PROVE  /\ Before(files, st)
         /\ Range(files) \cap Range(waiting) = {} /\ Range(files) \cap Batched = {}
  <1>1. chosen \in Nat /\ \A f \in Files : f \in Nat
    BY QueueAssumption DEF Types, Files
  <1>2. \A f \in Range(files) : f \in Files /\ f > chosen BY Chosen DEF Types
  <1>3. \A f \in Range(files) : ~(f <= chosen) BY <1>1, <1>2
  <1>4. \A f \in Range(files) : status[f] # "unread" BY <1>2 DEF PlacesFit, None
  <1>5. \A f \in Range(files) : f \notin Range(waiting) /\ f \notin Batched BY <1>3, Known
  <1>6. Before(files, st) BY <1>4 DEF Before, Types
  <1> QED BY <1>5, <1>6

LEMMA ChooseInv ==
  ASSUME QueueInv, NEW files \in Lists, PickInMenu(files) \/ Pick(files)
  PROVE  QueueInv'
  <1>1. Types /\ BatchesFit /\ PlacesFit BY DEF QueueInv
  <1>2. PICK st : st = status OBVIOUS
  <1>3. /\ Before(files, st)
        /\ Range(files) \cap Range(waiting) = {} /\ Range(files) \cap Batched = {}
    BY <1>1, <1>2, NewFiles
  <1>4. FileList(files) /\ files # <<>> BY <1>1, Chosen DEF Types
  <1>5. FileList(waiting) /\ Range(waiting) \cap Batched = {} BY <1>1 DEF PlacesFit
  <1>6. chosen' = chosen + Len(files) /\ UNCHANGED <<pathname, extracting, retries>>
    BY DEF PickInMenu, Pick
  <1>7. Arrived(files, st)
    <2>1. CASE PickInMenu(files)
      <3>1. EnqueueFiles(files, st) BY <1>2, <2>1 DEF PickInMenu
      <3> QED BY <1>1, <1>3, <1>4, <1>5, <1>6, <3>1, EnqueueArrives
    <2>2. CASE Pick(files)
      <3>1. AddFiles(files, None, st) /\ waiting' = waiting BY <1>2, <2>2 DEF Pick
      <3>2. None \in Dirs \cup {None} OBVIOUS
      <3> QED BY <1>1, <1>3, <1>4, <1>5, <1>6, <3>1, <3>2, AddArrives
    <2> QED BY <2>1, <2>2
  <1> QED BY <1>2, <1>6, <1>7, PickInv

\* Of a drop, some files in the order of their choice.
LEMMA Parts ==
  ASSUME NEW whole, FileList(whole), NEW files \in InOrder(whole)
  PROVE  FileList(files) /\ Range(files) \subseteq Range(whole)
  <1>1. whole \in Seq(Files) /\ Len(whole) \in Nat /\ Range(whole) \subseteq Files
    <2>1. whole \in Seq(Files) BY DEF FileList
    <2>2. Len(whole) \in Nat /\ DOMAIN whole = 1 .. Len(whole) BY <2>1, LenProperties
    <2> QED BY <2>1, <2>2, ElementOfSeq DEF Range
  <1>2. PICK n \in 0 .. Len(whole) : files \in [1 .. n -> Range(whole)] BY DEF InOrder
  <1>3. n \in Nat BY <1>1, <1>2
  <1>4. \A i, j \in 1 .. n : i < j => files[i] < files[j] BY <1>2 DEF InOrder
  <1>5. files \in Seq(Files) BY <1>1, <1>2, <1>3, IsASeq
  <1>6. DOMAIN files = 1 .. n /\ Range(files) \subseteq Range(whole) BY <1>2 DEF Range
  <1>7. Injective(files)
    <2> SUFFICES ASSUME NEW i \in 1 .. n, NEW j \in 1 .. n, files[i] = files[j], i # j PROVE FALSE
      BY <1>6 DEF Injective
    <2>1. files[i] \in Nat /\ files[j] \in Nat
      BY <1>1, <1>2, QueueAssumption DEF Files
    <2>2. i < j \/ j < i BY <1>3
    <2>3. files[i] < files[j] \/ files[j] < files[i] BY <1>4, <2>2
    <2> QED BY <2>1, <2>3
  <1> QED BY <1>5, <1>6, <1>7 DEF FileList

LEMMA ExtractedInv ==
  ASSUME QueueInv, NEW drop \in extracting, NEW files \in InOrder(drop.files),
         Extracted(drop, files)
  PROVE  QueueInv'
  <1>1. Types /\ BatchesFit /\ PlacesFit BY DEF QueueInv
  <1> DEFINE left == Range(drop.files) \ Range(files)
  <1>2. PICK st : st = [f \in Files |-> IF f \in left THEN "unread" ELSE status[f]]
    OBVIOUS
  <1>3. FileList(drop.files) /\ drop \in DropRec BY <1>1 DEF PlacesFit, Types
  <1>4. FileList(files) /\ Range(files) \subseteq Range(drop.files) BY <1>3, Parts
  <1>5. /\ extracting' = extracting \ {drop}
        /\ UNCHANGED <<pathname, retries, chosen>>
    BY DEF Extracted
  <1>6. /\ Dropped \subseteq Files
        /\ \A f \in Files : f \in Dropped \cup Range(waiting) \cup Batched
                            <=> f <= chosen /\ status[f] # "unread"
        /\ Dropped \cap (Range(waiting) \cup Batched) = {}
        /\ Range(waiting) \subseteq Files /\ Batched \subseteq Files
    BY <1>1, Known DEF PlacesFit
  <1>7. Range(drop.files) \subseteq Dropped BY DEF Dropped
  <1>8. Dropped' = Dropped \ Range(drop.files)
    <2>1. \A d \in extracting \ {drop} : Range(d.files) \cap Range(drop.files) = {}
      BY <1>1 DEF PlacesFit
    <2> QED BY <1>5, <2>1 DEF Dropped
  <1>9. \A f \in Files : st[f] = IF f \in Range(drop.files) \ Range(files) THEN "unread" ELSE status[f]
    BY <1>2
  <1>10. st \in [Files -> Statuses]
    <2>1. \A f \in Files : status[f] \in Statuses BY <1>1 DEF Types
    <2> QED BY <1>2, <2>1 DEF Statuses
  <1>11. Before(files, st)
    <2>1. \A f \in Range(files) : st[f] # "unread" BY <1>4, <1>6, <1>7, <1>9
    <2>2. \A f \in Files : st[f] = status[f] \/ (st[f] = "unread" /\ f \notin Batched)
      BY <1>6, <1>7, <1>9
    <2> QED BY <1>10, <2>1, <2>2 DEF Before
  <1>12. Arrived(files, st)
    <2>1. CASE files = <<>>
      <3>1. /\ status' = st
            /\ UNCHANGED <<waiting, batches, pool, sent>>
        <4>1. CASE /\ files = <<>> /\ status' = st
                   /\ UNCHANGED <<dialog, waiting, uploading, listed, batches, dir, pool, sent>>
          BY <4>1
        <4> QED BY <1>2, <2>1, <4>1 DEF Extracted
      <3>2. BatchesFit' /\ Batched' = Batched
        <4>1. \A f \in Files : status'[f] = status[f] \/ (f \notin Batched /\ status'[f] = "unread")
          BY <1>11, <3>1 DEF Before
        <4> QED BY <1>1, <1>5, <3>1, <4>1, BatchesStay
      <3>3. Range(files) = {} BY <2>1 DEF Range
      <3> QED BY <1>1, <1>10, <1>11, <3>1, <3>2, <3>3 DEF Arrived, Types, PlacesFit, FileList
    <2>2. CASE files # <<>>
      <3>1. Range(files) \cap Range(waiting) = {} /\ Range(files) \cap Batched = {}
        BY <1>4, <1>6, <1>7
      <3>2. FileList(waiting) /\ Range(waiting) \cap Batched = {} BY <1>1 DEF PlacesFit
      <3>3. CASE drop.inDialog
        <4>1. AddFiles(files, drop.closedAt, st) /\ waiting' = waiting
          BY <1>2, <2>2, <3>3 DEF Extracted
        <4>2. drop.closedAt \in Dirs \cup {None} BY <1>3 DEF DropRec
        <4> QED BY <1>1, <1>4, <1>5, <1>11, <2>2, <3>1, <3>2, <4>1, <4>2, AddArrives
      <3>4. CASE ~drop.inDialog
        <4>1. EnqueueFiles(files, st) BY <1>2, <2>2, <3>4 DEF Extracted
        <4> QED BY <1>1, <1>4, <1>5, <1>11, <2>2, <3>1, <3>2, <4>1, EnqueueArrives
      <3> QED BY <3>3, <3>4
    <2> QED BY <2>1, <2>2
  <1>13. /\ BatchesFit' /\ FileList(waiting') /\ Range(waiting') \cap Batched' = {}
         /\ Range(waiting') \cup Batched' = Range(waiting) \cup Batched \cup Range(files)
         /\ \A f \in Files : IF f \in Range(files) THEN status'[f] # "unread" ELSE status'[f] = st[f]
    BY <1>12 DEF Arrived
  <1>14. PICK rest : rest = Range(waiting') \cup Batched' OBVIOUS
  <1>15. Types' BY <1>1, <1>5, <1>12 DEF Types, Arrived
  <1>16. \A f \in Files : f \in Dropped' \cup rest <=> f <= chosen' /\ status'[f] # "unread"
    <2> TAKE f \in Files
    <2>1. CASE f \in Range(files)
      <3>1. f \in rest /\ status'[f] # "unread" BY <1>13, <1>14, <2>1
      <3>2. f <= chosen BY <1>4, <1>6, <1>7, <2>1
      <3> QED BY <1>5, <3>1, <3>2
    <2>2. CASE f \in Range(drop.files) \ Range(files)
      <3>1. status'[f] = "unread" BY <1>9, <1>13, <2>2
      <3>2. f \notin Dropped' /\ f \notin rest BY <1>6, <1>7, <1>8, <1>13, <1>14, <2>2
      <3> QED BY <3>1, <3>2
    <2>3. CASE f \notin Range(drop.files)
      <3>1. status'[f] = status[f] BY <1>4, <1>9, <1>13, <2>3
      <3>2. f \in Dropped' \cup rest <=> f \in Dropped \cup Range(waiting) \cup Batched
        BY <1>4, <1>8, <1>13, <1>14, <2>3
      <3> QED BY <1>5, <1>6, <3>1, <3>2
    <2> QED BY <2>1, <2>2, <2>3
  <1>17. \A f \in Files : f > chosen' => status'[f] = None
    <2> SUFFICES ASSUME NEW f \in Files, f > chosen PROVE status'[f] = None
      BY <1>5
    <2>1. ~(f <= chosen) BY <1>1, QueueAssumption DEF Types, Files
    <2>2. f \notin Range(drop.files) BY <1>6, <1>7, <2>1
    <2>3. status'[f] = status[f] BY <1>4, <1>9, <1>13, <2>2
    <2> QED BY <1>1, <2>3 DEF PlacesFit
  <1>18. /\ \A d \in extracting' : FileList(d.files)
         /\ \A d, e \in extracting' : d # e => Range(d.files) \cap Range(e.files) = {}
    BY <1>1, <1>5 DEF PlacesFit
  <1>19. Dropped' \cap rest = {} BY <1>4, <1>6, <1>8, <1>13, <1>14
  <1>20. chosen' \in 0 .. MaxFiles BY <1>1, <1>5 DEF Types
  <1>21. Dropped' \subseteq Files /\ rest \subseteq Files BY <1>4, <1>6, <1>7, <1>8, <1>13, <1>14
  <1>22. PlacesFit'
    BY <1>13, <1>14, <1>16, <1>17, <1>18, <1>19, <1>20, <1>21, Placed
  <1> QED BY <1>13, <1>15, <1>22 DEF QueueInv

\* The files that waited come into a batch.
LEMMA MountInv == ASSUME QueueInv, Mount PROVE QueueInv'
  <1>1. Types /\ BatchesFit /\ PlacesFit BY DEF QueueInv
  <1>2. /\ waiting' = <<>> /\ UNCHANGED <<pathname, extracting, retries, chosen>>
    BY DEF Mount, TakePending
  <1>3. PICK rest : rest = Range(waiting) \cup Batched OBVIOUS
  <1>4. /\ BatchesFit' /\ batches' \in Seq(BatchRec) /\ status' \in [Files -> Statuses]
        /\ pool' \in [Files -> BOOLEAN] /\ sent' \in [Files -> Nat]
        /\ Batched' = rest
        /\ \A f \in Files : IF f \in Range(waiting) THEN status'[f] # "unread"
                                                    ELSE status'[f] = status[f]
    <2>1. CASE waiting = <<>>
      <3>1. UNCHANGED <<batches, status, pool, sent>> BY <2>1 DEF Mount
      <3>2. BatchesFit' /\ Batched' = Batched BY <1>1, <1>2, <3>1, BatchesStay
      <3>3. Range(waiting) = {} BY <2>1 DEF Range
      <3> QED BY <1>1, <1>3, <3>1, <3>2, <3>3 DEF Types
    <2>2. CASE waiting # <<>>
      <3>1. PICK st : st = status OBVIOUS
      <3>2. PICK files : files = waiting OBVIOUS
      <3>3. AddFiles(files, None, st) BY <2>2, <3>1, <3>2 DEF Mount
      <3>4. FileList(files) /\ Range(files) \cap Batched = {} BY <1>1, <3>2 DEF PlacesFit
      <3>5. st \in [Files -> Statuses] /\ None \in Dirs \cup {None} BY <1>1, <3>1 DEF Types
      <3>6. \A f \in Files \ Range(files) :
              st[f] = status[f] \/ (st[f] = "unread" /\ f \notin Batched)
        BY <3>1
      <3>7. /\ BatchesFit' /\ Batched' = Batched \cup Range(files)
            /\ batches' \in Seq(BatchRec) /\ status' \in [Files -> Statuses]
            /\ pool' \in [Files -> BOOLEAN] /\ sent' \in [Files -> Nat]
            /\ \A f \in Files : IF f \in Range(files) THEN status'[f] \in {"pending", "uploading"}
                                                      ELSE status'[f] = st[f]
        BY <1>1, <1>2, <2>2, <3>2, <3>3, <3>4, <3>5, <3>6, AddFits
      <3> QED BY <1>3, <3>1, <3>2, <3>7
    <2> QED BY <2>1, <2>2
  <1>5. Types' BY <1>1, <1>2, <1>4 DEF Types
  <1>6. Dropped' = Dropped BY <1>2 DEF Dropped
  <1>7. Range(waiting') = {} /\ FileList(waiting')
    BY <1>2, EmptySeq DEF Range, FileList, Injective
  <1>8. /\ Dropped \subseteq Files /\ rest \subseteq Files
        /\ \A f \in Files : f \in Dropped \cup rest <=> f <= chosen /\ status[f] # "unread"
        /\ Dropped \cap rest = {}
    BY <1>1, <1>3, Known DEF PlacesFit
  <1>9. \A f \in Files : status'[f] # "unread" <=> status[f] # "unread"
    <2>1. \A f \in Range(waiting) : status[f] # "unread" BY <1>1, Known
    <2> QED BY <1>4, <2>1
  <1>10. \A f \in Files : f \in Dropped' \cup rest <=> f <= chosen' /\ status'[f] # "unread"
    BY <1>2, <1>6, <1>8, <1>9
  <1>11. \A f \in Files : f > chosen' => status'[f] = None
    <2> SUFFICES ASSUME NEW f \in Files, f > chosen PROVE status'[f] = None
      BY <1>2
    <2>1. ~(f <= chosen) BY <1>1, QueueAssumption DEF Types, Files
    <2>2. f \notin Range(waiting) BY <1>1, <2>1, Known
    <2> QED BY <1>1, <1>4, <2>2 DEF PlacesFit
  <1>12. /\ \A d \in extracting' : FileList(d.files)
         /\ \A d, e \in extracting' : d # e => Range(d.files) \cap Range(e.files) = {}
    BY <1>1, <1>2 DEF PlacesFit
  <1>13. rest = Range(waiting') \cup Batched' /\ Range(waiting') \cap Batched' = {}
    BY <1>4, <1>7
  <1>14. chosen' \in 0 .. MaxFiles BY <1>1, <1>2 DEF Types
  <1>15. Dropped' \subseteq Files /\ rest \subseteq Files /\ Dropped' \cap rest = {}
    BY <1>6, <1>8
  <1>16. PlacesFit' BY <1>7, <1>10, <1>11, <1>12, <1>13, <1>14, <1>15, Placed
  <1> QED BY <1>4, <1>5, <1>16 DEF QueueInv

\* A dialog that is closed takes nothing along.
LEMMA CloseInv == ASSUME QueueInv, Close PROVE QueueInv'
  <1>1. Types /\ BatchesFit /\ PlacesFit BY DEF QueueInv
  <1>2. /\ batches' = [i \in DOMAIN batches |-> LeftAt(batches[i])]
        /\ extracting' = {IF d.inDialog THEN LeftAt(d) ELSE d : d \in extracting}
        /\ UNCHANGED <<pathname, waiting, status, pool, retries, chosen, sent>>
    BY DEF Close
  <1>3. \A b \in BatchRec : /\ LeftAt(b) \in BatchRec /\ LeftAt(b).files = b.files
                            /\ LeftAt(b).started = b.started /\ LeftAt(b).refreshed = b.refreshed
    BY <1>1 DEF LeftAt, BatchRec, Types
  <1>4. \A d \in DropRec : LeftAt(d) \in DropRec /\ LeftAt(d).files = d.files
    BY <1>1 DEF LeftAt, DropRec, Types
  <1>5. /\ DOMAIN batches = 1 .. Len(batches) /\ Len(batches) \in Nat
        /\ \A i \in DOMAIN batches : batches[i] \in BatchRec
    BY <1>1, LenProperties, ElementOfSeq DEF Types
  <1>6. /\ DOMAIN batches' = DOMAIN batches
        /\ \A i \in DOMAIN batches : batches'[i] = LeftAt(batches[i])
    BY <1>2
  <1>7. batches' \in Seq(BatchRec)
    <2>1. \A i \in 1 .. Len(batches) : LeftAt(batches[i]) \in BatchRec BY <1>3, <1>5
    <2>2. batches' \in [1 .. Len(batches) -> BatchRec] BY <1>2, <1>5, <2>1
    <2> QED BY <1>5, <2>2, IsASeq
  <1>8. \A i \in DOMAIN batches : batches'[i].files = batches[i].files BY <1>3, <1>5, <1>6
  <1>9. Batched' = Batched BY <1>6, <1>8 DEF Batched
  <1>10. ASSUME NEW x \in Range(batches') PROVE BatchFits(x)'
    <2>1. PICK i \in DOMAIN batches : x = LeftAt(batches[i]) BY <1>6 DEF Range
    <2>2. PICK b : b = batches[i] OBVIOUS
    <2>3. b \in BatchRec /\ BatchFits(b) BY <1>1, <1>5, <2>2 DEF BatchesFit, Range
    <2>4. /\ x \in BatchRec /\ x.files = b.files
          /\ x.started = b.started /\ x.refreshed = b.refreshed
      BY <1>3, <2>1, <2>2, <2>3
    <2>5. \A f \in Range(b.files) : /\ status'[f] = status[f] /\ pool'[f] = pool[f]
                                    /\ sent'[f] = sent[f] /\ retries'[f] = retries[f]
      BY <1>2
    <2> QED BY <2>3, <2>4, <2>5, QuietBatch
  <1>11. BatchesFit'
    <2>1. (\A x \in Range(batches) : BatchFits(x))' BY <1>10
    <2>2. (\A i, j \in DOMAIN batches :
             i # j => Range(batches[i].files) \cap Range(batches[j].files) = {})'
      BY <1>1, <1>6, <1>8 DEF BatchesFit
    <2>3. (\A f \in Files \ Batched : Untouched(f))'
      BY <1>1, <1>2, <1>9 DEF BatchesFit, Untouched
    <2> QED BY <2>1, <2>2, <2>3 DEF BatchesFit
  <1>12. \A e \in extracting' : \E d \in extracting :
           /\ e = IF d.inDialog THEN LeftAt(d) ELSE d
           /\ e.files = d.files /\ e \in DropRec
    BY <1>1, <1>2, <1>4 DEF Types
  <1>13. Dropped' = Dropped
    <2>1. Dropped' \subseteq Dropped BY <1>12 DEF Dropped
    <2>2. ASSUME NEW d \in extracting PROVE Range(d.files) \subseteq Dropped'
      <3>1. PICK e : e = IF d.inDialog THEN LeftAt(d) ELSE d OBVIOUS
      <3>2. e \in extracting' BY <1>2, <3>1
      <3>3. e.files = d.files BY <1>1, <1>4, <3>1 DEF Types
      <3> QED BY <3>2, <3>3 DEF Dropped
    <2> QED BY <2>1, <2>2 DEF Dropped
  <1>14. Types' BY <1>1, <1>2, <1>7, <1>12 DEF Types
  <1>15. PICK rest : rest = Range(waiting) \cup Batched OBVIOUS
  <1>16. /\ Dropped \subseteq Files /\ rest \subseteq Files
         /\ \A f \in Files : f \in Dropped \cup rest <=> f <= chosen /\ status[f] # "unread"
         /\ Dropped \cap rest = {}
    BY <1>1, <1>15, Known DEF PlacesFit
  <1>17. \A e \in extracting' : FileList(e.files) BY <1>1, <1>12 DEF PlacesFit
  <1>18. ASSUME NEW e \in extracting', NEW c \in extracting', e # c
         PROVE  Range(e.files) \cap Range(c.files) = {}
    <2>1. PICK d \in extracting : e = (IF d.inDialog THEN LeftAt(d) ELSE d) /\ e.files = d.files
      BY <1>12
    <2>2. PICK b \in extracting : c = (IF b.inDialog THEN LeftAt(b) ELSE b) /\ c.files = b.files
      BY <1>12
    <2>3. d # b BY <1>18, <2>1, <2>2
    <2> QED BY <1>1, <2>1, <2>2, <2>3 DEF PlacesFit
  <1>19. /\ rest = Range(waiting') \cup Batched' /\ Range(waiting') \cap Batched' = {}
         /\ FileList(waiting')
    BY <1>1, <1>2, <1>9, <1>15 DEF PlacesFit
  <1>20. /\ \A f \in Files : f \in Dropped' \cup rest <=> f <= chosen' /\ status'[f] # "unread"
         /\ \A f \in Files : f > chosen' => status'[f] = None
         /\ Dropped' \subseteq Files /\ Dropped' \cap rest = {}
         /\ chosen' \in 0 .. MaxFiles
    BY <1>1, <1>2, <1>13, <1>16 DEF PlacesFit, Types
  <1>21. PlacesFit' BY <1>16, <1>17, <1>18, <1>19, <1>20, Placed
  <1> QED BY <1>11, <1>14, <1>21 DEF QueueInv

\* The steps that touch no file.
LEMMA ElsewhereInv ==
  ASSUME QueueInv, pathname' \in Dirs,
         UNCHANGED <<extracting, waiting, batches, status, pool, retries, chosen, sent>>
  PROVE  QueueInv'
  <1>1. Types /\ BatchesFit /\ PlacesFit BY DEF QueueInv
  <1>2. BatchesFit' /\ Batched' = Batched BY <1>1, BatchesStay
  <1>3. PlacesFit' BY <1>1, <1>2, PlacesStay
  <1>4. Types' BY <1>1 DEF Types
  <1> QED BY <1>2, <1>3, <1>4 DEF QueueInv

\* The steps that send files of batches.
LEMMA SendInv ==
  ASSUME QueueInv, NEW f \in Files,
         Retry(f) \/ Finish(f, "success") \/ Finish(f, "error")
  PROVE  QueueInv'
  <1>1. Types /\ BatchesFit /\ PlacesFit BY DEF QueueInv
  <1>2. /\ BatchesFit' /\ Batched' = Batched
        /\ batches' \in Seq(BatchRec) /\ status' \in [Files -> Statuses]
        /\ pool' \in [Files -> BOOLEAN] /\ sent' \in [Files -> Nat] /\ retries' \in [Files -> Nat]
        /\ \A g \in Files : (status[g] = "unread" <=> status'[g] = "unread")
                            /\ (status[g] = None <=> status'[g] = None)
    <2>1. CASE Retry(f) BY <1>1, <2>1, RetryFits
    <2>2. CASE \E outcome \in {"success", "error"} : Finish(f, outcome)
      <3>1. retries' = retries BY <2>2 DEF Finish
      <3> QED BY <1>1, <2>2, <3>1, FinishFits DEF Types
    <2> QED BY <2>1, <2>2
  <1>3. UNCHANGED <<pathname, extracting, waiting, chosen>> BY DEF Retry, Finish
  <1>4. PlacesFit' BY <1>1, <1>2, <1>3, PlacesStay
  <1>5. Types' BY <1>1, <1>2, <1>3 DEF Types
  <1> QED BY <1>2, <1>4, <1>5 DEF QueueInv

LEMMA QueueInitInv == QueueInit => QueueInv
  <1> SUFFICES ASSUME QueueInit PROVE QueueInv OBVIOUS
  <1>1. /\ extracting = {} /\ waiting = <<>> /\ batches = <<>> /\ chosen = 0
        /\ \A f \in Files : status[f] = None /\ sent[f] = 0 /\ retries[f] = 0
    BY DEF QueueInit
  <1>2. Types BY QueueAssumption, EmptySeq DEF QueueInit, Types, Statuses
  <1>3. Batched = {} /\ Dropped = {} /\ Range(waiting) = {} /\ Range(batches) = {}
    BY <1>1 DEF Batched, Dropped, Range
  <1>4. BatchesFit
    <2>1. \A i, j \in DOMAIN batches :
            i # j => Range(batches[i].files) \cap Range(batches[j].files) = {}
      BY <1>1
    <2> QED BY <1>1, <1>3, <2>1 DEF BatchesFit, Untouched
  <1>5. FileList(waiting) BY <1>1, EmptySeq DEF FileList, Injective
  <1>6. {f \in 1 .. chosen : status[f] # "unread"} = {} BY <1>1
  <1>7. PlacesFit BY <1>1, <1>3, <1>5, <1>6 DEF PlacesFit
  <1> QED BY <1>2, <1>4, <1>7 DEF QueueInv

LEMMA QueueStep == QueueInv /\ [QueueNext]_queueVars => QueueInv'
  <1> SUFFICES ASSUME QueueInv, [QueueNext]_queueVars PROVE QueueInv' OBVIOUS
  <1>1. CASE User
    <2>1. ASSUME NEW files \in Lists, DropOnPage(files) \/ DropInDialog(files) PROVE QueueInv'
      BY <2>1, DropInv DEF DropOnPage, DropInDialog
    <2>2. ASSUME NEW files \in Lists, PickInMenu(files) \/ Pick(files) PROVE QueueInv'
      BY <2>2, ChooseInv
    <2>3. CASE Open \/ ClearCompleted \/ BackToUpload
      <3>1. pathname' = pathname /\ pathname \in Dirs
        BY <2>3 DEF Open, ClearCompleted, BackToUpload, QueueInv, Types
      <3>2. UNCHANGED <<extracting, waiting, batches, status, pool, retries, chosen, sent>>
        BY <2>3 DEF Open, ClearCompleted, BackToUpload
      <3> QED BY <3>1, <3>2, ElsewhereInv
    <2>4. CASE Close BY <2>4, CloseInv
    <2>5. ASSUME NEW p \in Dirs, Navigate(p) PROVE QueueInv'
      <3>1. pathname' = p BY <2>5 DEF Navigate
      <3>2. UNCHANGED <<extracting, waiting, batches, status, pool, retries, chosen, sent>>
        BY <2>5 DEF Navigate
      <3> QED BY <3>1, <3>2, ElsewhereInv
    <2>6. ASSUME NEW f \in Files, Retry(f) PROVE QueueInv' BY <2>6, SendInv
    <2> QED BY <1>1, <2>1, <2>2, <2>3, <2>4, <2>5, <2>6 DEF User
  <1>2. ASSUME NEW drop \in extracting, NEW files \in InOrder(drop.files), Extracted(drop, files)
        PROVE  QueueInv'
    BY <1>2, ExtractedInv
  <1>3. CASE Mount BY <1>3, MountInv
  <1>4. ASSUME NEW f \in Files, Finish(f, "success") \/ Finish(f, "error") PROVE QueueInv'
    BY <1>4, SendInv
  <1>5. CASE UNCHANGED queueVars
    <2>1. pathname' = pathname /\ pathname \in Dirs BY <1>5 DEF queueVars, QueueInv, Types
    <2>2. UNCHANGED <<extracting, waiting, batches, status, pool, retries, chosen, sent>>
      BY <1>5 DEF queueVars
    <2> QED BY <2>1, <2>2, ElsewhereInv
  <1> QED BY <1>1, <1>2, <1>3, <1>4, <1>5 DEF QueueNext

-----------------------------------------------------------------------------
LEMMA OnePlace == QueueInv => InOnePlace
  <1> SUFFICES ASSUME QueueInv, NEW f \in 1 .. chosen
               PROVE  /\ IF status[f] = "unread" THEN Places(f) = {}
                         ELSE \E p \in Places(f) : Places(f) = {p}
                      /\ sent[f] \in {0, 1 + retries[f]}
    BY DEF InOnePlace
  <1>1. Types /\ BatchesFit /\ PlacesFit BY DEF QueueInv
  <1>2. f \in Files /\ f <= chosen BY <1>1, QueueAssumption DEF Types, Files
  <1>3. \A d \in extracting : f \in Range(d.files) => f \in Dropped BY DEF Dropped
  <1>4. \A i \in DOMAIN waiting : waiting[i] = f => f \in Range(waiting) BY DEF Range
  <1>5. \A i \in DOMAIN batches : f \in Range(batches[i].files) => f \in Batched
    BY InBatched
  <1>6. CASE status[f] = "unread"
    <2>1. f \notin Dropped /\ f \notin Range(waiting) /\ f \notin Batched BY <1>1, <1>6, Known
    <2>2. Places(f) = {} BY <1>3, <1>4, <1>5, <2>1 DEF Places
    <2>3. sent[f] = 0 BY <1>1, <1>2, <2>1 DEF BatchesFit, Untouched
    <2> QED BY <1>6, <2>2, <2>3
  <1>7. CASE status[f] # "unread"
    <2>1. f \in Dropped \/ f \in Range(waiting) \/ f \in Batched BY <1>1, <1>2, <1>7, Known
    <2>2. \E p \in Places(f) : Places(f) = {p}
      <3>1. CASE f \in Dropped
        <4>1. PICK d \in extracting : f \in Range(d.files) BY <3>1 DEF Dropped
        <4>2. f \notin Range(waiting) /\ f \notin Batched BY <1>1, <3>1 DEF PlacesFit
        <4>3. \A e \in extracting : f \in Range(e.files) => e = d BY <1>1, <4>1 DEF PlacesFit
        <4>4. {x \in extracting : f \in Range(x.files)} = {d} BY <4>1, <4>3
        <4>5. /\ {x \in DOMAIN waiting : waiting[x] = f} = {}
              /\ {x \in DOMAIN batches : f \in Range(batches[x].files)} = {}
          BY <1>4, <1>5, <4>2
        <4>6. Places(f) = {<<"extracting", d>>} BY <4>4, <4>5 DEF Places
        <4> QED BY <4>6
      <3>2. CASE f \in Range(waiting)
        <4>1. PICK i \in DOMAIN waiting : waiting[i] = f BY <3>2 DEF Range
        <4>2. f \notin Dropped /\ f \notin Batched BY <1>1, <3>2 DEF PlacesFit
        <4>3. \A j \in DOMAIN waiting : waiting[j] = f => j = i
          BY <1>1, <4>1 DEF PlacesFit, FileList, Injective
        <4>4. {x \in DOMAIN waiting : waiting[x] = f} = {i} BY <4>1, <4>3
        <4>5. /\ {x \in extracting : f \in Range(x.files)} = {}
              /\ {x \in DOMAIN batches : f \in Range(batches[x].files)} = {}
          BY <1>3, <1>5, <4>2
        <4>6. Places(f) = {<<"waiting", i>>} BY <4>4, <4>5 DEF Places
        <4> QED BY <4>6
      <3>3. CASE f \in Batched
        <4>1. PICK i \in DOMAIN batches : f \in Range(batches[i].files) BY <3>3, InBatched
        <4>2. f \notin Dropped /\ f \notin Range(waiting) BY <1>1, <3>3 DEF PlacesFit
        <4>3. \A j \in DOMAIN batches : f \in Range(batches[j].files) => j = i
          BY <1>1, <4>1 DEF BatchesFit
        <4>4. {x \in DOMAIN batches : f \in Range(batches[x].files)} = {i} BY <4>1, <4>3
        <4>5. /\ {x \in extracting : f \in Range(x.files)} = {}
              /\ {x \in DOMAIN waiting : waiting[x] = f} = {}
          BY <1>3, <1>4, <4>2
        <4>6. Places(f) = {<<"batches", i>>} BY <4>4, <4>5 DEF Places
        <4> QED BY <4>6
      <3> QED BY <2>1, <3>1, <3>2, <3>3
    <2>3. sent[f] \in {0, 1 + retries[f]}
      <3>1. CASE f \in Batched
        <4>1. PICK i \in DOMAIN batches : f \in Range(batches[i].files) BY <3>1, InBatched
        <4>2. PICK b : b = batches[i] OBVIOUS
        <4>3. BatchFits(b) BY <1>1, <4>2 DEF BatchesFit, Range
        <4>4. PICK k \in DOMAIN b.files : b.files[k] = f BY <4>1, <4>2 DEF Range
        <4> QED BY <4>3, <4>4 DEF BatchFits, Standing
      <3>2. CASE f \notin Batched BY <1>1, <1>2, <3>2 DEF BatchesFit, Untouched
      <3> QED BY <3>1, <3>2
    <2> QED BY <1>7, <2>2, <2>3
  <1> QED BY <1>6, <1>7

\* For any number of files, drops, batches, navigations and retries: a chosen
\* file that can be read is always in one place, and sent once but for retries.
THEOREM NoFileStrays == QueueSpec => []InOnePlace
  <1> QED BY QueueInitInv, QueueStep, OnePlace, PTL DEF QueueSpec

\* Every batch keeps its pool full, and refreshes once, when its last upload
\* has ended; whatever becomes of the dialog, and however many retries there
\* are.
THEOREM PoolStaysFull == QueueSpec => []PoolIsFull
  <1>1. QueueInv => PoolIsFull BY DEF QueueInv, BatchesFit, BatchFits, Full, PoolIsFull, Range
  <1> QED BY <1>1, QueueInitInv, QueueStep, PTL DEF QueueSpec

-----------------------------------------------------------------------------
(***************************************************************************)
(* The table's cap.                                                        *)
(***************************************************************************)

Capped == IsFiniteSet(DOMAIN rows) /\ RowsBounded

USE LimitAssumption

LEMMA CapNat == CAP \in Nat /\ CAP > 0
  OBVIOUS

\* Deleting rows.
LEMMA FewerRows ==
  ASSUME Capped, NEW S, S \subseteq DOMAIN rows, rows' = Restrict(rows, S)
  PROVE  Capped'
<1>1. DOMAIN rows' = S
  BY DEF Restrict
<1>2. IsFiniteSet(S) /\ Cardinality(S) <= Cardinality(DOMAIN rows)
  BY FS_Subset DEF Capped
<1>3. Cardinality(S) \in Nat /\ Cardinality(DOMAIN rows) \in Nat
  BY <1>2, FS_CardinalityType DEF Capped
<1> QED
  BY <1>1, <1>2, <1>3, CapNat DEF Capped, RowsBounded

LEMMA InsertCapped ==
  ASSUME Capped, NEW r \in Requests, Insert(r)
  PROVE  Capped'
<1> DEFINE k == key[r]
<1>1. CASE HasRoom(k)
  <2>1. DOMAIN rows' = DOMAIN rows \cup {k}
    BY <1>1 DEF Insert
  <2>2. /\ IsFiniteSet(DOMAIN rows \cup {k})
        /\ Cardinality(DOMAIN rows \cup {k}) =
             IF k \in DOMAIN rows THEN Cardinality(DOMAIN rows) ELSE Cardinality(DOMAIN rows) + 1
    BY FS_AddElement DEF Capped
  <2>3. Cardinality(DOMAIN rows) \in Nat
    BY FS_CardinalityType DEF Capped
  <2> QED
    BY <1>1, <2>1, <2>2, <2>3, CapNat DEF Capped, RowsBounded, HasRoom
<1>2. CASE ~HasRoom(k)
  BY <1>2 DEF Insert, Capped, RowsBounded
<1> QED
  BY <1>1, <1>2

LEMMA StepCapped ==
  ASSUME Capped, [Next]_vars
  PROVE  Capped'
<1> SUFFICES ASSUME rows' # rows PROVE Capped'
  BY DEF Capped, RowsBounded
<1>1. PICK r \in Requests : DeleteExpired(r) \/ Clear(r) \/ Evict(r) \/ Insert(r)
  BY DEF Next, vars, Tick, Step, Begin, Check, Verify, Hashed, Count, Drop
<1>2. CASE DeleteExpired(r)
  BY <1>2, FewerRows DEF DeleteExpired, Unexpired
<1>3. CASE Clear(r)
  BY <1>3, FewerRows DEF Clear, Cleared
<1>4. CASE Evict(r)
  BY <1>4, FewerRows DEF Evict
<1>5. CASE Insert(r)
  BY <1>5, InsertCapped
<1> QED
  BY <1>1, <1>2, <1>3, <1>4, <1>5

(***************************************************************************)
(* The attempt table never holds more than CAP rows, however requests      *)
(* interleave counting, evicting and inserting (record_login_failure).     *)
(***************************************************************************)
THEOREM RowsStayBounded == Spec => []RowsBounded
<1>1. Init => Capped
  BY FS_EmptySet, CapNat DEF Init, Capped, RowsBounded
<1>2. Capped /\ [Next]_vars => Capped'
  BY StepCapped
<1> QED
  BY <1>1, <1>2, PTL DEF Spec, Capped

-----------------------------------------------------------------------------
(***************************************************************************)
(* Valid credentials.                                                      *)
(***************************************************************************)

\* A request with valid credentials takes no step of a failed one.
ValidStays ==
  /\ pc \in [Requests -> Steps \cup Answers]
  /\ \A r \in Requests :
       verdict[r] = "valid" =>
         pc[r] \notin {"tooMany", "failed", "recordExpired", "count", "evict", "insert"}

LEMMA StepValid ==
  ASSUME ValidStays, verdict \in [Requests -> Verdicts], [Next]_vars
  PROVE  ValidStays' /\ verdict' \in [Requests -> Verdicts]
<1>1. CASE UNCHANGED vars \/ Tick
  BY <1>1 DEF vars, Tick, ValidStays
<1>2. ASSUME NEW r \in Requests, Begin(r)
      PROVE  ValidStays' /\ verdict' \in [Requests -> Verdicts]
  BY <1>2 DEF Begin, Goto, ValidStays, Steps, Answers
<1>3. ASSUME NEW r \in Requests,
             DeleteExpired(r) \/ Check(r) \/ Verify(r) \/ Hashed(r) \/ Clear(r)
      PROVE  ValidStays' /\ verdict' \in [Requests -> Verdicts]
  BY <1>3 DEF DeleteExpired, Check, Verify, Hashed, Clear, AfterCheck, AfterFailure,
              Goto, ValidStays, Steps, Answers, Verdicts
<1>4. ASSUME NEW r \in Requests, Count(r) \/ Evict(r) \/ Insert(r) \/ Drop(r)
      PROVE  ValidStays' /\ verdict' \in [Requests -> Verdicts]
  BY <1>4 DEF Count, Evict, Insert, Drop, Goto, ValidStays, Steps, Answers
<1> QED
  BY <1>1, <1>2, <1>3, <1>4 DEF Next, Step

(***************************************************************************)
(* A login with valid credentials is never answered as a failure or as     *)
(* throttled, whatever is in the table (login_handler looks at the limit   *)
(* first and uses it last).                                                *)
(***************************************************************************)
THEOREM ValidCredentialsPass == Spec => []ValidPasses
<1> DEFINE Inv == ValidStays /\ verdict \in [Requests -> Verdicts]
<1>1. Init => Inv
  BY DEF Init, ValidStays, Answers, Steps, Verdicts
<1>2. Inv /\ [Next]_vars => Inv'
  BY StepValid
<1>3. Inv => ValidPasses
  BY DEF ValidStays, ValidPasses
<1> QED
  BY <1>1, <1>2, <1>3, PTL DEF Spec

-----------------------------------------------------------------------------
(***************************************************************************)
(* Two windows.  Called an era: the time from a row's insertion to its     *)
(* deletion.  At most LIMIT failures of an era are answered as such; what  *)
(* remains is that two eras apart is a window apart.                       *)
(***************************************************************************)

\* How many failures of the current era have been answered as such.
Answered(k) ==
  IF k \notin DOMAIN rows THEN 0
  ELSE IF rows[k].count <= LIMIT THEN rows[k].count ELSE LIMIT

RowsTyped ==
  /\ now \in Nat
  /\ key \in [Requests -> Keys]
  /\ DOMAIN rows \subseteq Keys
  /\ \A k \in DOMAIN rows : rows[k].count \in Nat \ {0} /\ rows[k].started \in Nat
  /\ plain \in [Keys -> Seq(Nat)]
  /\ \A k \in Keys : \A i \in 1 .. Len(plain[k]) : plain[k][i] <= now

\* Answers of earlier eras came before the row, but for a late reading.
EarlierEras ==
  \A k \in DOMAIN rows : \A i \in 1 .. Len(plain[k]) :
    i <= Len(plain[k]) - Answered(k) => plain[k][i] <= rows[k].started + MaxLag

\* Answers of eras before the last are a window old.
OldEras ==
  \A k \in Keys : \A i \in 1 .. Len(plain[k]) :
    i <= Len(plain[k]) - Answered(k) - LIMIT => now - plain[k][i] > WINDOW - MaxLag

Apart ==
  \A k \in Keys : \A i \in 1 .. Len(plain[k]) :
    i + 2 * LIMIT <= Len(plain[k]) => plain[k][i + 2 * LIMIT] - plain[k][i] > WINDOW - MaxLag

EraInv == RowsTyped /\ EarlierEras /\ OldEras /\ Apart

LEMMA ConstantsNat ==
  /\ LIMIT \in Nat /\ LIMIT > 0 /\ WINDOW \in Nat /\ MaxLag \in Nat
  OBVIOUS

LEMMA AnsweredBounds ==
  ASSUME RowsTyped, NEW k \in Keys
  PROVE  Answered(k) \in Nat /\ Answered(k) <= LIMIT
  BY ConstantsNat DEF RowsTyped, Answered

LEMMA ReadingBounds ==
  ASSUME now \in Nat, NEW clock \in Readings
  PROVE  clock \in Nat /\ clock <= now /\ now <= clock + MaxLag
  BY ConstantsNat DEF Readings

LEMMA DeleteExpiredEras ==
  ASSUME EraInv, NEW r \in Requests, DeleteExpired(r)
  PROVE  EraInv'
<1> USE ConstantsNat
<1>1. PICK clock \in Readings : rows' = Restrict(rows, Unexpired(clock))
  BY DEF DeleteExpired
<1>2. UNCHANGED <<now, key, plain>>
  BY DEF DeleteExpired
<1>3. clock \in Nat /\ clock <= now
  BY ReadingBounds DEF EraInv, RowsTyped
<1>4. /\ DOMAIN rows' \subseteq DOMAIN rows
      /\ \A k \in DOMAIN rows' : rows'[k] = rows[k]
      /\ \A k \in DOMAIN rows \ DOMAIN rows' : rows[k].started < clock - WINDOW
  BY <1>1 DEF Restrict, Unexpired
<1>5. RowsTyped'
  BY <1>2, <1>4 DEF EraInv, RowsTyped
<1>6. \A k \in DOMAIN rows' : Answered(k)' = Answered(k)
  BY <1>4 DEF Answered
<1>7. EarlierEras'
  BY <1>2, <1>4, <1>6 DEF EraInv, EarlierEras
<1>8. OldEras'
  <2> SUFFICES ASSUME NEW k \in Keys, NEW i \in 1 .. Len(plain[k]),
                      i <= Len(plain[k]) - Answered(k)' - LIMIT
               PROVE  now - plain[k][i] > WINDOW - MaxLag
    BY <1>2 DEF OldEras
  <2>1. /\ Len(plain[k]) \in Nat /\ plain[k][i] \in Nat /\ now \in Nat
    BY DEF EraInv, RowsTyped
  <2>2. CASE k \in DOMAIN rows'
    BY <1>6, <2>2 DEF EraInv, OldEras
  <2>3. CASE k \notin DOMAIN rows
    BY <1>4, <2>3 DEF EraInv, OldEras, Answered
  <2>4. CASE k \in DOMAIN rows \ DOMAIN rows'
    <3>1. Answered(k)' = 0
      BY <2>4 DEF Answered
    <3>2. i <= Len(plain[k]) - Answered(k)
      BY <3>1, <2>1, AnsweredBounds DEF EraInv
    <3>3. plain[k][i] <= rows[k].started + MaxLag
      BY <2>4, <3>2 DEF EraInv, EarlierEras
    <3>4. rows[k].started \in Nat /\ rows[k].started < clock - WINDOW
      BY <1>4, <2>4 DEF EraInv, RowsTyped
    <3> QED
      BY <1>3, <2>1, <3>3, <3>4
  <2> QED
    BY <2>2, <2>3, <2>4
<1>9. Apart'
  BY <1>2 DEF EraInv, Apart
<1> QED
  BY <1>5, <1>7, <1>8, <1>9 DEF EraInv

\* Clear, Evict: names whose row goes start afresh.
LEMMA ForgetEras ==
  ASSUME EraInv, UNCHANGED <<now, key>>, NEW S \in SUBSET Keys,
         rows' = Restrict(rows, DOMAIN rows \ S),
         plain' = [k \in Keys |-> IF k \in S THEN <<>> ELSE plain[k]]
  PROVE  EraInv'
<1>1. /\ DOMAIN rows' = DOMAIN rows \ S
      /\ \A k \in DOMAIN rows' : rows'[k] = rows[k]
  BY DEF Restrict
<1>2. \A k \in S : plain'[k] = <<>> /\ Len(plain'[k]) = 0
  OBVIOUS
<1>3. \A k \in Keys \ S : plain'[k] = plain[k]
  OBVIOUS
<1>4. RowsTyped'
  <2>1. plain' \in [Keys -> Seq(Nat)]
    BY DEF EraInv, RowsTyped
  <2>2. \A k \in Keys : \A i \in 1 .. Len(plain'[k]) : plain'[k][i] <= now
    BY <1>2, <1>3 DEF EraInv, RowsTyped
  <2> QED
    BY <1>1, <2>1, <2>2 DEF EraInv, RowsTyped
<1>5. \A k \in Keys \ S : Answered(k)' = Answered(k)
  BY <1>1 DEF Answered
<1>6. EarlierEras'
  BY <1>1, <1>3, <1>5 DEF EraInv, RowsTyped, EarlierEras
<1>7. OldEras'
  BY <1>2, <1>3, <1>5 DEF EraInv, OldEras
<1>8. Apart'
  BY <1>2, <1>3 DEF EraInv, Apart
<1> QED
  BY <1>4, <1>6, <1>7, <1>8 DEF EraInv

LEMMA InsertEras ==
  ASSUME EraInv, NEW r \in Requests, Insert(r)
  PROVE  EraInv'
<1> USE ConstantsNat
<1>k. PICK k \in Keys : k = key[r]
  BY DEF EraInv, RowsTyped
<1> DEFINE n == IF k \in DOMAIN rows THEN rows[k].count + 1 ELSE 1
<1>0. now \in Nat /\ UNCHANGED <<now, key>>
  BY DEF EraInv, RowsTyped, Insert
<1>1. CASE ~HasRoom(k)
  <2>1. UNCHANGED <<rows, plain>>
    BY <1>k, <1>1 DEF Insert
  <2> QED
    BY <1>0, <2>1 DEF EraInv, RowsTyped, EarlierEras, OldEras, Apart, Answered
<1>2. CASE HasRoom(k)
  <2>1. PICK clock \in Readings :
          rows' = [l \in DOMAIN rows \cup {k} |->
                     IF l # k THEN rows[l]
                     ELSE [count |-> n,
                           started |-> IF k \in DOMAIN rows THEN rows[k].started ELSE clock]]
    BY <1>k, <1>2 DEF Insert
  <2>2. clock \in Nat /\ now <= clock + MaxLag
    BY <1>0, ReadingBounds
  <2>3. /\ n \in Nat \ {0}
        /\ DOMAIN rows' = DOMAIN rows \cup {k}
        /\ \A l \in DOMAIN rows \ {k} : rows'[l] = rows[l]
        /\ rows'[k].count = n
        /\ rows'[k].started = IF k \in DOMAIN rows THEN rows[k].started ELSE clock
        /\ rows'[k].started \in Nat
    BY <2>1, <2>2 DEF EraInv, RowsTyped
  <2>4. \A l \in Keys \ {k} : Answered(l)' = Answered(l)
    BY <2>3 DEF Answered
  <2> HIDE DEF n
  <2>5. CASE TooMany(n)
    <3>1. plain' = plain
      BY <1>k, <1>2, <2>5 DEF Insert, n
    <3>2. n > LIMIT
      BY <2>5 DEF TooMany
    <3>3. k \in DOMAIN rows /\ Answered(k) = LIMIT /\ Answered(k)' = LIMIT
      BY <2>3, <3>2 DEF n, Answered, EraInv, RowsTyped
    <3>4. \A l \in Keys : Answered(l)' = Answered(l)
      BY <2>4, <3>3
    <3>5. RowsTyped'
      BY <1>0, <2>3, <3>1 DEF EraInv, RowsTyped
    <3>6. EarlierEras'
      BY <2>3, <3>1, <3>3, <3>4 DEF EraInv, RowsTyped, EarlierEras
    <3>7. OldEras' /\ Apart'
      BY <1>0, <3>1, <3>4 DEF EraInv, OldEras, Apart
    <3> QED
      BY <3>5, <3>6, <3>7 DEF EraInv
  <2>6. CASE ~TooMany(n)
    <3>1. plain' = [plain EXCEPT ![k] = Append(@, now)]
      BY <1>k, <1>2, <2>6 DEF Insert, n
    <3>2. n <= LIMIT
      BY <2>3, <2>6 DEF TooMany
    <3>3. Answered(k) = n - 1 /\ Answered(k)' = n
      BY <2>3, <3>2 DEF n, Answered, EraInv, RowsTyped
    <3>4. /\ plain \in [Keys -> Seq(Nat)]
          /\ plain[k] \in Seq(Nat)
      BY <1>0 DEF EraInv, RowsTyped
    <3>5. /\ plain' \in [Keys -> Seq(Nat)]
          /\ \A l \in Keys \ {k} : plain'[l] = plain[l]
          /\ plain'[k] = Append(plain[k], now)
      BY <1>0, <3>1, <3>4
    <3>6. /\ Len(plain[k]) \in Nat
          /\ Len(plain'[k]) = Len(plain[k]) + 1
          /\ plain'[k][Len(plain[k]) + 1] = now
          /\ \A i \in 1 .. Len(plain[k]) : plain'[k][i] = plain[k][i] /\ plain[k][i] \in Nat
      BY <1>0, <3>4, <3>5
    <3>7. RowsTyped'
      <4>0. \A i \in 1 .. Len(plain[k]) : plain[k][i] <= now
        BY <1>k DEF EraInv, RowsTyped
      <4>1. \A i \in 1 .. Len(plain'[k]) : plain'[k][i] <= now
        <5> SUFFICES ASSUME NEW i \in 1 .. Len(plain'[k]) PROVE plain'[k][i] <= now
          OBVIOUS
        <5>1. i \in 1 .. Len(plain[k]) \/ i = Len(plain[k]) + 1
          BY <3>6
        <5> QED
          BY <1>0, <3>6, <4>0, <5>1
      <4>2. \A l \in Keys \ {k} : \A i \in 1 .. Len(plain'[l]) : plain'[l][i] <= now
        BY <3>5 DEF EraInv, RowsTyped
      <4> QED
        BY <1>k, <1>0, <2>3, <3>5, <4>1, <4>2 DEF EraInv, RowsTyped
    <3>8. EarlierEras'
      <4>1. ASSUME NEW i \in 1 .. Len(plain'[k]), i <= Len(plain'[k]) - Answered(k)'
            PROVE  plain'[k][i] <= rows'[k].started + MaxLag
        <5>1. i \in 1 .. Len(plain[k]) /\ i <= Len(plain[k]) - Answered(k)
          BY <2>3, <3>3, <3>6, <4>1
        <5>2. CASE k \in DOMAIN rows
          BY <2>3, <3>6, <5>1, <5>2 DEF EraInv, EarlierEras
        <5>3. CASE k \notin DOMAIN rows
          <6>1. plain'[k][i] = plain[k][i] /\ plain[k][i] <= now /\ plain[k][i] \in Nat
            BY <1>k, <3>6, <5>1 DEF EraInv, RowsTyped
          <6> QED
            BY <1>0, <2>2, <2>3, <5>3, <6>1
        <5> QED
          BY <5>2, <5>3
      <4> QED
        BY <2>3, <2>4, <3>5, <4>1 DEF EraInv, RowsTyped, EarlierEras
    <3>9. OldEras'
      <4>1. ASSUME NEW i \in 1 .. Len(plain'[k]), i <= Len(plain'[k]) - Answered(k)' - LIMIT
            PROVE  now - plain'[k][i] > WINDOW - MaxLag
        <5>1. i \in 1 .. Len(plain[k]) /\ i <= Len(plain[k]) - Answered(k) - LIMIT
          BY <2>3, <3>3, <3>6, <4>1
        <5> QED
          BY <1>0, <3>6, <5>1 DEF EraInv, OldEras
      <4> QED
        BY <1>k, <1>0, <2>4, <3>5, <4>1 DEF EraInv, OldEras
    <3>10. Apart'
      <4>1. ASSUME NEW i \in 1 .. Len(plain'[k]), i + 2 * LIMIT <= Len(plain'[k])
            PROVE  plain'[k][i + 2 * LIMIT] - plain'[k][i] > WINDOW - MaxLag
        <5>1. i \in 1 .. Len(plain[k])
          BY <3>6, <4>1
        <5>2. CASE i + 2 * LIMIT <= Len(plain[k])
          BY <1>0, <3>6, <5>1, <5>2 DEF EraInv, Apart
        <5>3. CASE i + 2 * LIMIT = Len(plain[k]) + 1
          <6>1. i <= Len(plain[k]) - Answered(k) - LIMIT
            BY <2>3, <3>2, <3>3, <3>6, <5>1, <5>3
          <6>2. now - plain[k][i] > WINDOW - MaxLag
            BY <1>0, <5>1, <6>1 DEF EraInv, OldEras
          <6> QED
            BY <3>6, <5>1, <5>3, <6>2
        <5> QED
          BY <3>6, <4>1, <5>1, <5>2, <5>3
      <4> QED
        BY <1>0, <3>5, <4>1 DEF EraInv, Apart
    <3> QED
      BY <3>7, <3>8, <3>9, <3>10 DEF EraInv
  <2> QED
    BY <2>5, <2>6
<1> QED
  BY <1>1, <1>2

LEMMA StepEras ==
  ASSUME EraInv, [Next]_vars
  PROVE  EraInv'
<1>1. CASE UNCHANGED vars
  BY <1>1 DEF vars, EraInv, RowsTyped, EarlierEras, OldEras, Apart, Answered
<1>2. CASE Tick
  <2>1. now' = now + 1 /\ UNCHANGED <<rows, key, plain>> /\ now \in Nat
    BY <1>2 DEF Tick, EraInv, RowsTyped
  <2>2. \A k \in Keys : \A i \in 1 .. Len(plain[k]) : plain[k][i] \in Nat
    BY DEF EraInv, RowsTyped
  <2>3. \A k \in Keys : Answered(k)' = Answered(k)
    BY <2>1 DEF Answered
  <2>4. RowsTyped' /\ EarlierEras' /\ Apart'
    BY <2>1, <2>2 DEF EraInv, RowsTyped, EarlierEras, Apart, Answered
  <2>5. OldEras'
    BY <2>1, <2>2, <2>3, ConstantsNat DEF EraInv, OldEras
  <2> QED
    BY <2>4, <2>5 DEF EraInv
<1>3. ASSUME NEW r \in Requests, Begin(r)
      PROVE  EraInv'
  <2>1. key' \in [Requests -> Keys] /\ UNCHANGED <<rows, now, plain>>
    BY <1>3 DEF Begin, EraInv, RowsTyped
  <2> QED
    BY <2>1 DEF EraInv, RowsTyped, EarlierEras, OldEras, Apart, Answered
<1>4. ASSUME NEW r \in Requests, Check(r) \/ Verify(r) \/ Hashed(r) \/ Count(r) \/ Drop(r)
      PROVE  EraInv'
  <2>1. UNCHANGED <<rows, now, key, plain>>
    BY <1>4 DEF Check, Verify, Hashed, Count, Drop
  <2> QED
    BY <2>1 DEF EraInv, RowsTyped, EarlierEras, OldEras, Apart, Answered
<1>5. ASSUME NEW r \in Requests, Clear(r)
      PROVE  EraInv'
  <2>1. /\ {key[r]} \in SUBSET Keys
        /\ plain' = [k \in Keys |-> IF k \in {key[r]} THEN <<>> ELSE plain[k]]
    BY <1>5 DEF Clear, EraInv, RowsTyped
  <2> QED
    BY <1>5, <2>1, ForgetEras DEF Clear, Cleared
<1>6. ASSUME NEW r \in Requests, Evict(r)
      PROVE  EraInv'
  <2>1. PICK S \in Oldest(EVICTED) :
          /\ rows' = Restrict(rows, DOMAIN rows \ S)
          /\ plain' = [k \in Keys |-> IF k \in S THEN <<>> ELSE plain[k]]
    BY <1>6 DEF Evict
  <2>2. S \in SUBSET Keys
    BY DEF Oldest, EraInv, RowsTyped
  <2> QED
    BY <1>6, <2>1, <2>2, ForgetEras DEF Evict
<1> QED
  BY <1>1, <1>2, <1>3, <1>4, <1>5, <1>6, DeleteExpiredEras, InsertEras DEF Next, Step

(***************************************************************************)
(* However many requests read the failure counter before the others raise  *)
(* it, no 2 * LIMIT + 1 wrong guesses of a name that are answered as such  *)
(* fall within a window (check_login_limit, record_login_failure).         *)
(***************************************************************************)
THEOREM GuessesBounded == Spec => []TwoWindows
<1>1. Init => EraInv
  <2> SUFFICES ASSUME Init PROVE EraInv
    OBVIOUS
  <2>1. DOMAIN rows = {} /\ \A k \in Keys : plain[k] = <<>> /\ Len(plain[k]) = 0
    BY DEF Init
  <2> QED
    BY <2>1 DEF Init, EraInv, RowsTyped, EarlierEras, OldEras, Apart
<1>2. EraInv /\ [Next]_vars => EraInv'
  BY StepEras
<1>3. EraInv => TwoWindows
  <2> SUFFICES ASSUME EraInv, NEW k \in Keys, NEW i \in DOMAIN plain[k],
                      i + 2 * LIMIT \in DOMAIN plain[k]
               PROVE  plain[k][i + 2 * LIMIT] - plain[k][i] > WINDOW - MaxLag
    BY DEF TwoWindows
  <2>1. DOMAIN plain[k] = 1 .. Len(plain[k])
    BY DEF EraInv, RowsTyped
  <2> QED
    BY <2>1 DEF EraInv, Apart
<1> QED
  BY <1>1, <1>2, <1>3, PTL DEF Spec

=============================================================================
