----------------------------- MODULE LoginLimit -----------------------------
(***************************************************************************)
(* The limit on failed logins (server/auth.rs, db/security.rs): a row per  *)
(* user name counts the failures of a window of time, in a table of at     *)
(* most CAP rows; a semaphore bounds the passwords being hashed.  Requests *)
(* are tasks; each of their database statements is atomic, the sequence of *)
(* them is not, and a client that hangs up drops a request between two.    *)
(* What a login finds in the users table is Sessions' matter: here it is   *)
(* the request's verdict.                                                  *)
(***************************************************************************)
EXTENDS Integers, SequencesExt

CONSTANTS
  Requests,   \* requests under way at a time
  Keys,       \* hashed user names
  LIMIT,      \* LOGIN_FAILURE_LIMIT
  WINDOW,     \* LOGIN_FAILURE_WINDOW_SECS
  CAP,        \* LOGIN_ATTEMPT_CAP
  EVICTED,    \* rows deleted when the table is full (100)
  PERMITS,    \* PASSWORD_VERIFY_CONCURRENCY
  MaxLag,     \* bound: age of a clock reading when its statement is executed
  MaxTime     \* bound: the last second

ASSUME LimitAssumption ==
  /\ {LIMIT, WINDOW, CAP, EVICTED, PERMITS} \subseteq Nat \ {0}
  /\ MaxLag \in Nat /\ MaxTime \in Nat

VARIABLES
  rows,     \* login_attempts: its keys, each with failed_count, window_started
  now,      \* the clock
  pc,       \* pc[r]: the statement request r executes next, or its answer
  key,      \* key[r]
  verdict,  \* "valid", "wrong" (found by hashing) or "refused" (found before)
  limited,  \* limited[r]: already_limited
  plain     \* history: plain[k], when failures of k were recorded and answered
            \* without a limit, since k's row was last forgiven or evicted

vars == <<rows, now, pc, key, verdict, limited, plain>>

Verdicts == {"valid", "wrong", "refused"}
Answers  == {"token", "failed", "tooMany", "busy", "dropped"}
Steps    == {"checkExpired", "check", "verify", "hashing", "clear",
             "recordExpired", "count", "evict", "insert"}

\* now_ts() is read before the statement gets a connection.
Readings == (IF now > MaxLag THEN now - MaxLag ELSE 0) .. now

Goto(r, p) == pc' = [pc EXCEPT ![r] = p]

\* delete_expired_login_attempts
Unexpired(clock) == {k \in DOMAIN rows : ~(rows[k].started < clock - WINDOW)}

Begin(r) ==
  /\ pc[r] \in Answers
  /\ \E k \in Keys, v \in Verdicts :
       /\ key' = [key EXCEPT ![r] = k]
       /\ verdict' = [verdict EXCEPT ![r] = v]
  /\ limited' = [limited EXCEPT ![r] = FALSE]
  /\ Goto(r, "checkExpired")
  /\ UNCHANGED <<rows, now, plain>>

\* The first statement of check_login_limit and of record_login_failure.
DeleteExpired(r) ==
  /\ pc[r] \in {"checkExpired", "recordExpired"}
  /\ \E clock \in Readings : rows' = Restrict(rows, Unexpired(clock))
  /\ Goto(r, IF pc[r] = "checkExpired" THEN "check" ELSE "count")
  /\ UNCHANGED <<now, key, verdict, limited, plain>>

\* Mutant: a limited name is turned away before its credentials are looked at.
AfterCheckTurnAway(r, over) == IF over THEN "tooMany" ELSE "verify"

AfterCheck(r, over) == "verify"

Check(r) ==
  LET over == key[r] \in DOMAIN rows /\ rows[key[r]].count > LIMIT IN
  /\ pc[r] = "check"
  /\ limited' = [limited EXCEPT ![r] = over]
  /\ Goto(r, AfterCheck(r, over))
  /\ UNCHANGED <<rows, now, key, verdict, plain>>

\* login_failure_response
AfterFailure(r) == IF limited[r] THEN "tooMany" ELSE "recordExpired"

Hashing == {r \in Requests : pc[r] = "hashing"}

Verify(r) ==
  /\ pc[r] = "verify"
  /\ Goto(r, IF verdict[r] = "refused" THEN AfterFailure(r)
             ELSE IF Cardinality(Hashing) < PERMITS THEN "hashing" ELSE "busy")
  /\ UNCHANGED <<rows, now, key, verdict, limited, plain>>

Hashed(r) ==
  /\ pc[r] = "hashing"
  /\ Goto(r, IF verdict[r] = "valid" THEN "clear" ELSE AfterFailure(r))
  /\ UNCHANGED <<rows, now, key, verdict, limited, plain>>

Cleared(k) == Restrict(rows, DOMAIN rows \ {k})

Clear(r) ==
  /\ pc[r] = "clear"
  /\ rows' = Cleared(key[r])
  /\ plain' = [plain EXCEPT ![key[r]] = <<>>]
  /\ Goto(r, "token")
  /\ UNCHANGED <<now, key, verdict, limited>>

Count(r) ==
  /\ pc[r] = "count"
  /\ Goto(r, IF Cardinality(DOMAIN rows) >= CAP THEN "evict" ELSE "insert")
  /\ UNCHANGED <<rows, now, key, verdict, limited, plain>>

\* The EVICTED oldest rows; which of two as old is up to the database.
Oldest(n) ==
  {S \in SUBSET DOMAIN rows :
     /\ Cardinality(S) = (IF Cardinality(DOMAIN rows) < n THEN Cardinality(DOMAIN rows) ELSE n)
     /\ \A k \in S, l \in DOMAIN rows \ S : rows[k].started <= rows[l].started}

Evict(r) ==
  /\ pc[r] = "evict"
  /\ \E S \in Oldest(EVICTED) :
       /\ rows' = Restrict(rows, DOMAIN rows \ S)
       /\ plain' = [k \in Keys |-> IF k \in S THEN <<>> ELSE plain[k]]
  /\ Goto(r, "insert")
  /\ UNCHANGED <<now, key, verdict, limited>>

\* Mutant: the statement trusts the count made before.
HasRoomAlways(k) == TRUE

\* INSERT ... WHERE EXISTS (the row) OR COUNT(*) < cap
HasRoom(k) == k \in DOMAIN rows \/ Cardinality(DOMAIN rows) < CAP

\* Mutant: the answer depends on the limit read before hashing alone.
TooManyBefore(n) == FALSE

TooMany(n) == n > LIMIT

\* ... ON CONFLICT DO UPDATE failed_count + 1 RETURNING failed_count
Insert(r) ==
  LET k == key[r]
      n == IF k \in DOMAIN rows THEN rows[k].count + 1 ELSE 1
  IN
  /\ pc[r] = "insert"
  /\ IF HasRoom(k)
     THEN /\ \E clock \in Readings :
               rows' = [l \in DOMAIN rows \cup {k} |->
                         IF l # k THEN rows[l]
                         ELSE [count |-> n, started |-> IF k \in DOMAIN rows THEN rows[k].started ELSE clock]]
          /\ plain' = IF TooMany(n) THEN plain ELSE [plain EXCEPT ![k] = Append(@, now)]
          /\ Goto(r, IF TooMany(n) THEN "tooMany" ELSE "failed")
     ELSE Goto(r, "failed") /\ UNCHANGED <<rows, plain>>
  /\ UNCHANGED <<now, key, verdict, limited>>

\* The client hangs up, or a statement fails: the request ends here.  A hash
\* under way goes on, but its permit is released.
Drop(r) ==
  /\ pc[r] \in Steps
  /\ Goto(r, "dropped")
  /\ UNCHANGED <<rows, now, key, verdict, limited, plain>>

Tick ==
  /\ now < MaxTime
  /\ now' = now + 1
  /\ UNCHANGED <<rows, pc, key, verdict, limited, plain>>

Init ==
  /\ rows = [k \in {} |-> 0]
  /\ now = 0
  /\ pc = [r \in Requests |-> "dropped"]
  /\ key \in [Requests -> Keys]
  /\ verdict = [r \in Requests |-> "valid"]
  /\ limited = [r \in Requests |-> FALSE]
  /\ plain = [k \in Keys |-> <<>>]

Step(r) ==
  \/ Begin(r) \/ DeleteExpired(r) \/ Check(r) \/ Verify(r) \/ Hashed(r) \/ Clear(r)
  \/ Count(r) \/ Evict(r) \/ Insert(r) \/ Drop(r)

Next == Tick \/ \E r \in Requests : Step(r)

Spec == Init /\ [][Next]_vars

-----------------------------------------------------------------------------
(***************************************************************************)
(* Properties.                                                             *)
(***************************************************************************)

(***************************************************************************)
(* The types of the variables.  A row counts the failures of the window    *)
(* and at most one more of every request that had not seen them.           *)
(***************************************************************************)
TypeOK ==
  /\ DOMAIN rows \subseteq Keys
  /\ \A k \in DOMAIN rows : rows[k].count \in 1 .. LIMIT + Cardinality(Requests)
                            /\ rows[k].started \in 0 .. now
  /\ now \in 0 .. MaxTime
  /\ pc \in [Requests -> Steps \cup Answers]
  /\ key \in [Requests -> Keys] /\ verdict \in [Requests -> Verdicts]
  /\ limited \in [Requests -> BOOLEAN]
  /\ plain \in [Keys -> Seq(0 .. now)]

(***************************************************************************)
(* The table never has more than CAP rows, though counting, evicting and   *)
(* inserting are statements of their own that requests interleave.         *)
(***************************************************************************)
RowsBounded == Cardinality(DOMAIN rows) <= CAP

(***************************************************************************)
(* How many wrong guesses of one name are answered as such, and not with   *)
(* "Too many login attempts": at most LIMIT in a window, so never more     *)
(* than 2 * LIMIT within a span as long as a window, however many requests *)
(* have read the counter before the others raised it.  Readings of the     *)
(* clock that are late shorten the span.  A valid login, an eviction and a *)
(* failure there was no room to record start the count afresh.             *)
(***************************************************************************)
TwoWindows ==
  \A k \in Keys : \A i \in DOMAIN plain[k] :
    i + 2 * LIMIT \in DOMAIN plain[k] => plain[k][i + 2 * LIMIT] - plain[k][i] > WINDOW - MaxLag

(***************************************************************************)
(* Valid credentials are never answered with "Too many login attempts":    *)
(* "valid credentials must bypass failure throttling"                      *)
(* (tests/server_auth.rs:172).  Too many hashes at once do turn them away. *)
(***************************************************************************)
ValidPasses ==
  \A r \in Requests : verdict[r] = "valid" => pc[r] \notin {"tooMany", "failed"}

=============================================================================
