------------------------------ MODULE Accounts ------------------------------
(***************************************************************************)
(* One user name of the users table (db/users.rs), and the administrators' *)
(* consoles (interactive.rs) that change its row.  A console is a process  *)
(* of its own beside the server, and acts on the row as it last read it.   *)
(*                                                                         *)
(* A db function reads the row and then updates it by one statement.  Its  *)
(* reading only refuses what the statement would refuse too - no such row, *)
(* the CHECK on password_unset - so reading and updating are one step; a   *)
(* console that reads a later row back is one that selects the user anew.  *)
(* The clock has been read at some earlier time: hashing takes a while.    *)
(* Secrets are numbered; whatever else is random or hashed is left out.    *)
(***************************************************************************)
EXTENDS Integers, Sequences

CONSTANTS
  Consoles,   \* management consoles
  Roots,      \* directories an account may be bound to
  Period,     \* how long a TOTP step lasts (30 s)
  MaxTime,    \* bound: the last second
  MaxEras,    \* bound: changes that end sessions
  None        \* no row

ASSUME PeriodAssumption == Period \in Nat \ {0}
ASSUME BoundAssumption  == MaxTime \in Nat /\ MaxEras \in Nat

\* allow is the ALLOW_EMPTY_PASSWORD bit of permission; otp numbers the
\* otp_secret, 0 when there is none; last is last_otp_step.
User == [id : Nat, ts : Nat, root : Roots, disabled : BOOLEAN,
         allow : BOOLEAN, unset : BOOLEAN, otp : Nat, last : Int]

ASSUME NoneAssumption == None \notin User

VARIABLES
  row,      \* the row, or None
  lastId,   \* AUTOINCREMENT never reuses an id
  secrets,  \* history: per secret generated, the step of the code that enrolled it
  view,     \* per console: the user it manages, as last read
  now,      \* the clock, in seconds
  era       \* history: how often the credentials changed

accountVars == <<row, lastId, secrets, view, now, era>>

\* Mutant: no such constraint.
CheckNothing(u) == TRUE

\* CHECK (password_unset = 0 OR permission & 1 << ALLOW_EMPTY_PASSWORD)
CheckHolds(u) == u.unset => u.allow

AccountsTypeOK ==
  /\ row     \in User \cup {None}
  /\ row # None => row.id <= lastId /\ row.otp <= Len(secrets) /\ CheckHolds(row)
  /\ lastId  \in Nat
  /\ secrets \in Seq(Int)
  /\ view    \in [Consoles -> User \cup {None}]
  /\ now     \in Nat
  /\ era     \in Nat

-----------------------------------------------------------------------------
\* Mutant: the second alone.
StampNow(ts, clock) == clock

\* pwd_ts = MAX(pwd_ts + 1, ?)
Stamp(ts, clock) == IF ts + 1 > clock THEN ts + 1 ELSE clock

\* matching_totp_step tries the step before, this one and the next.
TotpStep == now \div Period
Matching == {s \in {TotpStep - 1, TotpStep, TotpStep + 1} : s >= 0}

Mine(c) == row # None /\ row.id = view[c].id

\* An update of the row, which the console reads again afterwards.  It fails,
\* and the console ends, when the row is gone or the CHECK fails.
Fails(c) == row' = row /\ view' = [view EXCEPT ![c] = None]

Update(c, u) ==
  IF Mine(c) /\ CheckHolds(u) THEN row' = u /\ view' = [view EXCEPT ![c] = u]
                              ELSE Fails(c)

\* One that ends the sessions of the account.
Renew(c, u) ==
  /\ era < MaxEras
  /\ \E clock \in 0 .. now : Update(c, [u EXCEPT !.ts = Stamp(@, clock)])
  /\ era' = IF row' = row THEN era ELSE era + 1

Open(c) == view[c] # None

-----------------------------------------------------------------------------
\* select: the administrator picks a user of the list.
Select(c) ==
  /\ row # None
  /\ view' = [view EXCEPT ![c] = row]
  /\ UNCHANGED <<row, lastId, secrets, now, era>>

\* set_user_password_and_permission, with the permission the console knows.
SetPasswordAnd(c, empty, allow) ==
  /\ empty => allow
  /\ Renew(c, [row EXCEPT !.unset = empty, !.allow = allow])
  /\ UNCHANGED <<lastId, secrets, now>>

\* Menu 1: an empty password is set together with the right to use it.
SetPassword(c) ==
  Open(c) /\ \E empty \in BOOLEAN : SetPasswordAnd(c, empty, view[c].allow \/ empty)

\* Menu 3: taking the right away asks for a password if there was none.
SetPermission(c) ==
  /\ Open(c)
  /\ \E allow \in BOOLEAN :
       IF view[c].unset /\ ~allow
         THEN SetPasswordAnd(c, FALSE, FALSE)
         ELSE /\ Update(c, [row EXCEPT !.allow = allow])
              /\ UNCHANGED <<lastId, secrets, now, era>>

\* Menu 2
SetRoot(c) ==
  /\ Open(c)
  /\ \E root \in Roots : Renew(c, [row EXCEPT !.root = root])
  /\ UNCHANGED <<lastId, secrets, now>>

\* Menu 4, when the console believes 2FA to be on.
DisableOtp(c) ==
  /\ Open(c) /\ view[c].otp # 0
  /\ Renew(c, [row EXCEPT !.otp = 0, !.last = -1])
  /\ UNCHANGED <<lastId, secrets, now>>

\* Menu 4, when it believes it to be off: a new secret, and a code of it.
EnableOtp(c) ==
  /\ Open(c) /\ view[c].otp = 0
  /\ \E s \in Matching :
       /\ secrets' = Append(secrets, s)
       /\ IF Mine(c) /\ row.otp = 0
            THEN Renew(c, [row EXCEPT !.otp = Len(secrets'), !.last = s])
            ELSE Fails(c) /\ UNCHANGED era
  /\ UNCHANGED <<lastId, now>>

\* Menu 5
Toggle(c) ==
  /\ Open(c)
  /\ IF view[c].disabled
       THEN /\ Update(c, [row EXCEPT !.disabled = FALSE])
            /\ UNCHANGED era
       ELSE Renew(c, [row EXCEPT !.disabled = TRUE])
  /\ UNCHANGED <<lastId, secrets, now>>

\* Menu 6
Delete(c) ==
  /\ Open(c) /\ era < MaxEras
  /\ IF Mine(c) THEN row' = None /\ era' = era + 1 ELSE UNCHANGED <<row, era>>
  /\ view' = [view EXCEPT ![c] = None]
  /\ UNCHANGED <<lastId, secrets, now>>

\* create_user; the name is UNIQUE.
Create ==
  /\ row = None
  /\ \E root \in Roots, allow \in BOOLEAN, empty \in BOOLEAN, clock \in 0 .. now :
       /\ empty => allow
       /\ row' = [id |-> lastId + 1, ts |-> clock, root |-> root, disabled |-> FALSE,
                  allow |-> allow, unset |-> empty, otp |-> 0, last |-> -1]
  /\ lastId' = lastId + 1
  /\ UNCHANGED <<secrets, view, now, era>>

Tick == now < MaxTime /\ now' = now + 1 /\ UNCHANGED <<row, lastId, secrets, view, era>>

AccountsInit ==
  /\ row = None /\ lastId = 0 /\ secrets = <<>> /\ now = 0 /\ era = 0
  /\ view = [c \in Consoles |-> None]

Console(c) == \/ Select(c) \/ SetPassword(c) \/ SetPermission(c) \/ SetRoot(c)
              \/ DisableOtp(c) \/ EnableOtp(c) \/ Toggle(c) \/ Delete(c)

AccountsNext == Create \/ Tick \/ \E c \in Consoles : Console(c)
=============================================================================
