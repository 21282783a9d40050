--------------------------- MODULE SessionsProof ---------------------------
(***************************************************************************)
(* What Sessions promises, for any number of consoles, logins, requests    *)
(* and directories, all times and bounds.  Everything a session or a link  *)
(* is accepted by is an id and a pwd_ts; the invariant says what follows   *)
(* for each of them, wherever it is held, when the row has that id and     *)
(* that pwd_ts (Live).                                                     *)
(***************************************************************************)
EXTENDS Sessions, TLAPS

Live(id, ts) == row # None /\ row.id = id /\ row.ts = ts

\* Credentials of an era: they are of the row's past or of the present era.
Of(id, ts, e) ==
  /\ id <= lastId /\ e <= era
  /\ row # None /\ row.id = id => ts <= row.ts
  /\ Live(id, ts) => e = era

Busy == {"verify", "match", "accept", "issue"}

RowFits ==
  row # None => /\ row.id <= lastId /\ row.otp <= Len(secrets) /\ CheckHolds(row)
                /\ row.otp # 0 => secrets[row.otp] <= row.last

LoginFits(l) ==
  login[l].at \in Busy =>
    LET u == login[l].user IN
    /\ u \in User /\ token[l] = None
    /\ Of(u.id, u.ts, login[l].era)
    /\ Live(u.id, u.ts) => u.unset = row.unset /\ u.otp = row.otp
    /\ login[l].at # "verify" => login[l].empty = u.unset

TokenFits(l) ==
  token[l] # None =>
    LET t == token[l] IN
    /\ Of(t.id, t.ts, t.era)
    /\ Live(t.id, t.ts) => (t.empty => row.unset) /\ t.otp = row.otp
    /\ login[l].at = "done"

\* Step s has been spent on a session that is accepted, or will be.
Spent(l, s) ==
  \/ /\ login[l].at = "issue" /\ login[l].user.otp # 0 /\ login[l].step = s
     /\ Live(login[l].user.id, login[l].user.ts)
  \/ /\ token[l] # None /\ token[l].otp # 0 /\ token[l].step = s
     /\ Live(token[l].id, token[l].ts)

StepsFit ==
  /\ \A l \in Logins, s \in Int : Spent(l, s) => secrets[row.otp] < s /\ s <= row.last
  /\ \A l, k \in Logins, s \in Int : Spent(l, s) /\ Spent(k, s) => l = k

LinkFits(r) == link[r] # None => Of(link[r].id, link[r].ts, link[r].era)

RequestFits(r) ==
  LET q == request[r] IN
  q.at # "idle" =>
    /\ q.token \in Logins /\ token[q.token] # None
    /\ q.late => q.token \in out
    /\ q.at \in {"user", "serving"} => ~q.late
    /\ q.at = "serving" => q.user \in User /\ Of(q.user.id, q.user.ts, token[q.token].era)

OutFits == \A l \in out : token[l] # None /\ (revoked[l] = token[l].exp \/ token[l].exp < now)

Promises == CurrentCredentials /\ PasswordlessEnds /\ LoggedOut

IInv ==
  /\ TypeOK /\ RowFits
  /\ \A l \in Logins : LoginFits(l) /\ TokenFits(l)
  /\ StepsFit
  /\ \A r \in Requests : LinkFits(r) /\ RequestFits(r)
  /\ OutFits
  /\ Promises

-----------------------------------------------------------------------------
LEMMA InitInv == Init => IInv
<1> SUFFICES ASSUME Init PROVE IInv
  OBVIOUS
<1>1. TypeOK
  BY DEF Init, AccountsInit, TypeOK, AccountsTypeOK, NoLogin, NoRequest, NoServed
<1>2. row = None /\ \A l \in Logins : login[l].at = "idle" /\ token[l] = None
  BY DEF Init, AccountsInit, NoLogin
<1>3. RowFits /\ \A l \in Logins : LoginFits(l) /\ TokenFits(l)
  BY <1>2 DEF RowFits, LoginFits, TokenFits, Busy
<1>4. StepsFit
  BY <1>2 DEF StepsFit, Spent
<1>5. \A r \in Requests : LinkFits(r) /\ RequestFits(r)
  BY DEF Init, NoRequest, LinkFits, RequestFits
<1>6. OutFits /\ Promises
  BY DEF Init, OutFits, Promises, CurrentCredentials, PasswordlessEnds, LoggedOut, NoServed
<1> QED BY <1>1, <1>3, <1>4, <1>5, <1>6 DEF IInv

-----------------------------------------------------------------------------
(***************************************************************************)
(* What the consoles do to the row, as far as sessions can tell.           *)
(***************************************************************************)
Extended == Len(secrets') >= Len(secrets) /\ \A i \in 1 .. Len(secrets) : secrets'[i] = secrets[i]

\* The credentials change: the row gets a later pwd_ts.
Renewed ==
  /\ row # None /\ row' # None
  /\ row'.id = row.id /\ row'.ts > row.ts /\ lastId' = lastId /\ era' = era + 1

\* They do not, whatever else does.
Kept ==
  /\ row = None <=> row' = None
  /\ row # None => /\ row'.id = row.id /\ row'.ts = row.ts
                   /\ row'.unset = row.unset /\ row'.otp = row.otp /\ row'.last = row.last
  /\ lastId' = lastId /\ era' = era

Deleted == row' = None /\ lastId' = lastId /\ era' = era + 1

Created == row = None /\ row' # None /\ row'.id = lastId + 1 /\ lastId' = lastId + 1 /\ era' = era

AccountStep ==
  /\ AccountsTypeOK' /\ RowFits' /\ Extended /\ now' \in Nat /\ now <= now'
  /\ Renewed \/ Kept \/ Deleted \/ Created

\* The row cannot be both absent and a user.
LEMMA RowIsUser == ASSUME AccountsTypeOK, row # None PROVE row \in User
BY DEF AccountsTypeOK

LEMMA StampGrows ==
  ASSUME NEW ts \in Nat, NEW clock \in Nat
  PROVE  Stamp(ts, clock) \in Nat /\ Stamp(ts, clock) > ts
BY DEF Stamp

\* What 2FA's commands set, by a name of its own for the provers.
WithOtp(u, n, s) == [u EXCEPT !.otp = n, !.last = s]

LEMMA OtpSet ==
  ASSUME NEW u \in User, NEW n \in Nat, NEW s \in Int
  PROVE  LET v == WithOtp(u, n, s)
         IN  v \in User /\ v.id = u.id /\ v.ts = u.ts /\ v.otp = n /\ v.last = s
<1>1. [u EXCEPT !.otp = n] \in User /\ WithOtp(u, n, s) = [[u EXCEPT !.otp = n] EXCEPT !.last = s]
  BY DEF User, WithOtp
<1>2. WithOtp(u, n, s) \in User
  BY <1>1 DEF User
<1> QED BY <1>1, <1>2 DEF User, WithOtp

\* An update that keeps the credentials, or fails.
LEMMA UpdateKeeps ==
  ASSUME AccountsTypeOK, RowFits, NEW c \in Consoles, NEW u, Update(c, u),
         row # None => u \in User /\ u.id = row.id /\ u.ts = row.ts /\ u.unset = row.unset /\ u.otp = row.otp
                       /\ u.last = row.last,
         UNCHANGED <<lastId, secrets, now, era>>
  PROVE  AccountStep
<1>1. CASE Mine(c) /\ CheckHolds(u)
  <2>1. /\ row # None /\ row' = u /\ view' = [view EXCEPT ![c] = u] /\ CheckHolds(u)
        /\ u # None /\ u \in User
    BY <1>1, NoneAssumption DEF Update, Mine
  <2>2. Kept
    BY <2>1 DEF Kept
  <2>3. AccountsTypeOK' /\ RowFits'
    BY <2>1 DEF AccountsTypeOK, RowFits, CheckHolds
  <2> QED BY <2>2, <2>3 DEF AccountStep, Extended, AccountsTypeOK
<1>2. CASE ~(Mine(c) /\ CheckHolds(u))
  <2>1. row' = row /\ view' = [view EXCEPT ![c] = None]
    BY <1>2 DEF Update, Fails
  <2>2. Kept
    BY <2>1 DEF Kept
  <2>3. AccountsTypeOK' /\ RowFits'
    BY <2>1 DEF AccountsTypeOK, RowFits, CheckHolds
  <2> QED BY <2>2, <2>3 DEF AccountStep, Extended, AccountsTypeOK
<1> QED BY <1>1, <1>2

\* One that renews them, or fails.  When 2FA is enabled a secret is added first.
LEMMA RenewRenews ==
  ASSUME AccountsTypeOK, RowFits, NEW c \in Consoles, NEW u, Renew(c, u),
         secrets' \in Seq(Int), Extended, UNCHANGED <<lastId, now>>,
         row # None => /\ u \in User /\ u.id = row.id /\ u.ts = row.ts
                       /\ u.otp <= Len(secrets') /\ (u.otp # 0 => secrets'[u.otp] <= u.last)
  PROVE  AccountStep
<1>1. PICK clock \in 0 .. now : Update(c, [u EXCEPT !.ts = Stamp(@, clock)])
  BY DEF Renew
<1> DEFINE v == [u EXCEPT !.ts = Stamp(@, clock)]
<1>2. era' = IF row' = row THEN era ELSE era + 1
  BY DEF Renew
<1>3. CASE Mine(c) /\ CheckHolds(v)
  <2>1. row # None /\ row' = v /\ view' = [view EXCEPT ![c] = v] /\ CheckHolds(v)
    BY <1>1, <1>3 DEF Update, Mine
  <2>2. u \in User /\ u.ts \in Nat /\ clock \in Nat /\ u.id = row.id /\ u.ts = row.ts
    BY <1>1, <2>1 DEF User, AccountsTypeOK
  <2>3. Stamp(u.ts, clock) \in Nat /\ Stamp(u.ts, clock) > row.ts
    BY <2>2, StampGrows
  <2>4. /\ v \in User /\ v.id = u.id /\ v.ts = Stamp(u.ts, clock) /\ v.otp = u.otp
        /\ v.last = u.last
    BY <2>2, <2>3 DEF User
  <2> HIDE DEF v
  <2>5. row' # row /\ row' # None
    BY <2>1, <2>2, <2>3, <2>4, NoneAssumption DEF AccountsTypeOK, User
  <2>6. Renewed
    BY <1>2, <2>1, <2>2, <2>3, <2>4, <2>5 DEF Renewed
  <2>7. AccountsTypeOK'
    <3>1. row.id <= lastId
      BY <2>1 DEF RowFits
    <3> QED BY <1>2, <2>1, <2>2, <2>4, <3>1 DEF AccountsTypeOK
  <2>8. RowFits'
    BY <2>1, <2>2, <2>4 DEF RowFits, CheckHolds
  <2> QED BY <2>6, <2>7, <2>8 DEF AccountStep, AccountsTypeOK
<1>4. CASE ~(Mine(c) /\ CheckHolds(v))
  <2>1. row' = row /\ view' = [view EXCEPT ![c] = None] /\ era' = era
    BY <1>1, <1>2, <1>4 DEF Update, Fails
  <2>2. Kept
    BY <2>1 DEF Kept
  <2>3. row # None => row.otp \in Nat /\ (row.otp # 0 => secrets'[row.otp] = secrets[row.otp])
    BY RowIsUser DEF Extended, RowFits, User, AccountsTypeOK
  <2>4. Len(secrets) \in Nat /\ Len(secrets') \in Nat
    BY DEF AccountsTypeOK
  <2>5. RowFits'
    BY <2>1, <2>3, <2>4 DEF RowFits, CheckHolds, Extended
  <2>6. AccountsTypeOK'
    BY <2>1, <2>5 DEF AccountsTypeOK, RowFits
  <2> QED BY <2>2, <2>5, <2>6 DEF AccountStep, AccountsTypeOK
<1> QED BY <1>3, <1>4

LEMMA AccountsStep == ASSUME AccountsTypeOK, RowFits, AccountsNext PROVE AccountStep
<1>1. row # None => row \in User
  BY RowIsUser
<1>2. /\ secrets \in Seq(Int) /\ Len(secrets) \in Nat /\ now \in Nat /\ era \in Nat
      /\ lastId \in Nat /\ view \in [Consoles -> User \cup {None}]
  BY DEF AccountsTypeOK
<1>3. row # None => row.otp \in Nat /\ row.otp <= Len(secrets) /\ row.id <= lastId
                    /\ (row.otp # 0 => secrets[row.otp] <= row.last)
  BY <1>1 DEF RowFits, User
<1>4. UNCHANGED secrets => Extended /\ secrets' \in Seq(Int)
  BY <1>2 DEF Extended
<1>5. ASSUME NEW c \in Consoles, NEW u, Renew(c, u), UNCHANGED <<lastId, secrets, now>>,
             row # None => /\ u \in User /\ u.id = row.id /\ u.ts = row.ts
                           /\ u.otp = 0 \/ (u.otp = row.otp /\ u.last = row.last)
      PROVE  AccountStep
  <2>1. row # None => u.otp <= Len(secrets') /\ (u.otp # 0 => secrets'[u.otp] <= u.last)
    BY <1>2, <1>3, <1>5
  <2>2. Extended /\ secrets' \in Seq(Int)
    BY <1>4, <1>5
  <2> QED BY <1>5, <2>1, <2>2, RenewRenews
<1>6. ASSUME NEW c \in Consoles, NEW empty \in BOOLEAN, NEW allow \in BOOLEAN,
             SetPasswordAnd(c, empty, allow)
      PROVE  AccountStep
  <2> DEFINE u == [row EXCEPT !.unset = empty, !.allow = allow]
  <2>1. row # None => u \in User /\ u.id = row.id /\ u.ts = row.ts /\ u.otp = row.otp /\ u.last = row.last
    BY <1>1 DEF User
  <2>2. Renew(c, u) /\ UNCHANGED <<lastId, secrets, now>>
    BY <1>6 DEF SetPasswordAnd
  <2> HIDE DEF u
  <2> QED BY <1>5, <2>1, <2>2
<1>7. ASSUME row' = row \/ (row # None /\ row' = None), UNCHANGED <<lastId, secrets>>, now' \in Nat,
             now <= now', view' \in [Consoles -> User \cup {None}], era' \in Nat,
             Kept \/ Deleted
      PROVE  AccountStep
  <2>1. AccountsTypeOK' /\ RowFits'
    BY <1>7 DEF AccountsTypeOK, RowFits, CheckHolds
  <2> QED BY <1>4, <1>7, <2>1 DEF AccountStep
<1>8. ASSUME NEW c \in Consoles, Select(c) PROVE AccountStep
  <2>1. view' \in [Consoles -> User \cup {None}] /\ UNCHANGED <<row, lastId, secrets, now, era>>
    BY <1>1, <1>2, <1>8 DEF Select
  <2>2. Kept
    BY <2>1 DEF Kept
  <2> QED BY <1>2, <1>7, <2>1, <2>2
<1>9. ASSUME NEW c \in Consoles, SetPassword(c) PROVE AccountStep
  <2>1. view[c] \in User
    BY <1>2, <1>9 DEF SetPassword, Open
  <2>2. PICK empty \in BOOLEAN : SetPasswordAnd(c, empty, view[c].allow \/ empty)
    BY <1>9 DEF SetPassword
  <2>3. (view[c].allow \/ empty) \in BOOLEAN
    OBVIOUS
  <2> QED BY <1>6, <2>2, <2>3
<1>10. ASSUME NEW c \in Consoles, SetPermission(c) PROVE AccountStep
  <2>1. PICK allow \in BOOLEAN :
          \/ SetPasswordAnd(c, FALSE, FALSE)
          \/ Update(c, [row EXCEPT !.allow = allow]) /\ UNCHANGED <<lastId, secrets, now, era>>
    BY <1>10 DEF SetPermission
  <2>2. CASE Update(c, [row EXCEPT !.allow = allow]) /\ UNCHANGED <<lastId, secrets, now, era>>
    <3> DEFINE u == [row EXCEPT !.allow = allow]
    <3>1. row # None => u \in User /\ u.id = row.id /\ u.ts = row.ts /\ u.unset = row.unset
                        /\ u.otp = row.otp /\ u.last = row.last
      BY <1>1 DEF User
    <3>2. Update(c, u) /\ UNCHANGED <<lastId, secrets, now, era>>
      BY <2>2
    <3> HIDE DEF u
    <3> QED BY <3>1, <3>2, UpdateKeeps
  <2> QED BY <1>6, <2>1, <2>2
<1>11. ASSUME NEW c \in Consoles, SetRoot(c) PROVE AccountStep
  <2>1. PICK root \in Roots : Renew(c, [row EXCEPT !.root = root]) /\ UNCHANGED <<lastId, secrets, now>>
    BY <1>11 DEF SetRoot
  <2> DEFINE u == [row EXCEPT !.root = root]
  <2>2. row # None => u \in User /\ u.id = row.id /\ u.ts = row.ts /\ u.otp = row.otp /\ u.last = row.last
    BY <1>1 DEF User
  <2>3. Renew(c, u)
    BY <2>1
  <2> HIDE DEF u
  <2> QED BY <1>5, <2>1, <2>2, <2>3
<1>12. ASSUME NEW c \in Consoles, DisableOtp(c) PROVE AccountStep
  <2> DEFINE u == WithOtp(row, 0, -1)
  <2>1. Renew(c, u) /\ UNCHANGED <<lastId, secrets, now>>
    BY <1>12 DEF DisableOtp, WithOtp
  <2>2. row # None => u \in User /\ u.id = row.id /\ u.ts = row.ts /\ u.otp = 0
    <3>1. -1 \in Int
      OBVIOUS
    <3> QED BY <1>1, <3>1, OtpSet
  <2> HIDE DEF u
  <2> QED BY <1>5, <2>1, <2>2
<1>13. ASSUME NEW c \in Consoles, EnableOtp(c) PROVE AccountStep
  <2>1. PICK s \in Matching :
          /\ secrets' = Append(secrets, s)
          /\ IF Mine(c) /\ row.otp = 0
               THEN Renew(c, WithOtp(row, Len(secrets'), s))
               ELSE Fails(c) /\ UNCHANGED era
    BY <1>13 DEF EnableOtp, WithOtp
  <2>2. s \in Int /\ UNCHANGED <<lastId, now>>
    BY <1>2, <1>13, PeriodAssumption DEF Matching, TotpStep, EnableOtp
  <2>3. /\ secrets' \in Seq(Int) /\ Len(secrets') = Len(secrets) + 1
        /\ secrets'[Len(secrets')] = s /\ \A i \in 1 .. Len(secrets) : secrets'[i] = secrets[i]
    BY <1>2, <2>1, <2>2
  <2>4. Extended
    BY <1>2, <2>3 DEF Extended
  <2> DEFINE u == WithOtp(row, Len(secrets'), s)
  <2>5. CASE Renew(c, u)
    <3>1. row # None => u \in User /\ u.id = row.id /\ u.ts = row.ts /\ u.otp = Len(secrets') /\ u.last = s
      <4>1. Len(secrets') \in Nat
        BY <1>2, <2>3
      <4> QED BY <1>1, <2>2, <4>1, OtpSet
    <3>2. Len(secrets') \in Nat /\ s <= s
      BY <1>2, <2>2, <2>3
    <3> HIDE DEF u
    <3> QED BY <2>2, <2>3, <2>4, <2>5, <3>1, <3>2, RenewRenews
  <2>6. CASE Fails(c) /\ UNCHANGED era
    <3>1. row' = row /\ view' = [view EXCEPT ![c] = None] /\ era' = era
      BY <2>6 DEF Fails
    <3>2. Kept
      BY <2>2, <3>1 DEF Kept
    <3>3. RowFits'
      BY <1>2, <1>3, <2>2, <2>3, <3>1 DEF RowFits, CheckHolds
    <3>4. AccountsTypeOK'
      BY <1>2, <2>2, <2>3, <3>1, <3>3 DEF AccountsTypeOK, RowFits
    <3> QED BY <1>2, <2>2, <2>4, <3>2, <3>3, <3>4 DEF AccountStep
  <2> QED BY <2>1, <2>5, <2>6
<1>14. ASSUME NEW c \in Consoles, Toggle(c) PROVE AccountStep
  <2>1. CASE Update(c, [row EXCEPT !.disabled = FALSE]) /\ UNCHANGED <<lastId, secrets, now, era>>
    <3> DEFINE u == [row EXCEPT !.disabled = FALSE]
    <3>1. row # None => u \in User /\ u.id = row.id /\ u.ts = row.ts /\ u.unset = row.unset
                        /\ u.otp = row.otp /\ u.last = row.last
      BY <1>1 DEF User
    <3>2. Update(c, u) /\ UNCHANGED <<lastId, secrets, now, era>>
      BY <2>1
    <3> HIDE DEF u
    <3> QED BY <3>1, <3>2, UpdateKeeps
  <2>2. CASE Renew(c, [row EXCEPT !.disabled = TRUE]) /\ UNCHANGED <<lastId, secrets, now>>
    <3> DEFINE u == [row EXCEPT !.disabled = TRUE]
    <3>1. row # None => u \in User /\ u.id = row.id /\ u.ts = row.ts /\ u.otp = row.otp /\ u.last = row.last
      BY <1>1 DEF User
    <3>2. Renew(c, u) /\ UNCHANGED <<lastId, secrets, now>>
      BY <2>2
    <3> HIDE DEF u
    <3> QED BY <1>5, <3>1, <3>2
  <2> QED BY <1>14, <2>1, <2>2 DEF Toggle
<1>15. ASSUME NEW c \in Consoles, Delete(c) PROVE AccountStep
  <2>1. /\ (row' = None /\ row # None /\ era' = era + 1) \/ (row' = row /\ era' = era)
        /\ view' \in [Consoles -> User \cup {None}] /\ UNCHANGED <<lastId, secrets, now>>
    BY <1>2, <1>15 DEF Delete, Mine
  <2>2. Kept \/ Deleted
    BY <2>1 DEF Kept, Deleted
  <2> QED BY <1>2, <1>7, <2>1, <2>2
<1>16. CASE Create
  <2>1. PICK root \in Roots, allow \in BOOLEAN, empty \in BOOLEAN, clock \in 0 .. now :
          /\ empty => allow
          /\ row' = [id |-> lastId + 1, ts |-> clock, root |-> root, disabled |-> FALSE,
                     allow |-> allow, unset |-> empty, otp |-> 0, last |-> -1]
    BY <1>16 DEF Create
  <2>2. row = None /\ lastId' = lastId + 1 /\ UNCHANGED <<secrets, view, now, era>>
    BY <1>16 DEF Create
  <2>3. row' \in User /\ row'.id = lastId + 1 /\ row'.otp = 0 /\ CheckHolds(row')
    BY <1>2, <2>1 DEF User, CheckHolds
  <2>4. row' # None
    BY <2>3, NoneAssumption
  <2>5. Created
    BY <2>2, <2>3, <2>4 DEF Created
  <2>6. RowFits'
    BY <1>2, <2>2, <2>3 DEF RowFits, CheckHolds
  <2>7. AccountsTypeOK'
    BY <1>2, <2>2, <2>3, <2>6 DEF AccountsTypeOK, RowFits
  <2> QED BY <1>2, <1>4, <2>2, <2>5, <2>6, <2>7 DEF AccountStep
<1>17. CASE Tick
  <2>1. now' = now + 1 /\ UNCHANGED <<row, lastId, secrets, view, era>>
    BY <1>17 DEF Tick
  <2>2. Kept
    BY <2>1 DEF Kept
  <2> QED BY <1>2, <1>7, <2>1, <2>2
<1> QED
  BY <1>8, <1>9, <1>10, <1>11, <1>12, <1>13, <1>14, <1>15, <1>16, <1>17 DEF AccountsNext, Console

-----------------------------------------------------------------------------
(***************************************************************************)
(* What follows for credentials held by a session: no account step makes   *)
(* them live, and those that stay so are of an account that kept them.     *)
(***************************************************************************)
LEMMA Credentials ==
  ASSUME AccountsTypeOK, AccountStep, NEW id \in Nat, NEW ts \in Nat, NEW e \in Nat, Of(id, ts, e)
  PROVE  /\ Of(id, ts, e)'
         /\ Live(id, ts)' => Kept /\ Live(id, ts)
<1>1. /\ lastId \in Nat /\ era \in Nat /\ (row # None => row.id \in Nat /\ row.ts \in Nat)
      /\ (row' # None => row'.id \in Nat /\ row'.ts \in Nat)
  BY DEF AccountsTypeOK, AccountStep, User
<1>2. row # None => row.id <= lastId
  BY DEF AccountsTypeOK
<1>3. CASE Renewed
  BY <1>1, <1>3 DEF Renewed, Of, Live
<1>4. CASE Kept
  BY <1>1, <1>4 DEF Kept, Of, Live
<1>5. CASE Deleted
  BY <1>1, <1>5 DEF Deleted, Of, Live
<1>6. CASE Created
  BY <1>1, <1>6 DEF Created, Of, Live
<1> QED BY <1>3, <1>4, <1>5, <1>6 DEF AccountStep

\* The account changes, or the clock runs, under whatever sessions there are.
LEMMA AccountsInv == IInv /\ AccountsNext /\ UNCHANGED sessionVars => IInv'
<1> SUFFICES ASSUME IInv, AccountsNext, UNCHANGED sessionVars PROVE IInv'
  OBVIOUS
<1>1. AccountsTypeOK /\ RowFits /\ TypeOK
  BY DEF IInv, TypeOK
<1>2. AccountStep
  BY <1>1, AccountsStep
<1>3. UNCHANGED <<login, token, revoked, out, request, link, served>>
  BY DEF sessionVars
<1>4. TypeOK' /\ RowFits'
  BY <1>1, <1>2, <1>3 DEF TypeOK, AccountStep
<1>5. ASSUME NEW l \in Logins PROVE LoginFits(l)'
  <2> SUFFICES ASSUME login[l].at \in Busy PROVE LoginFits(l)'
    BY <1>3 DEF LoginFits
  <2> DEFINE u == login[l].user
  <2>1. /\ u \in User /\ token[l] = None /\ Of(u.id, u.ts, login[l].era)
        /\ Live(u.id, u.ts) => u.unset = row.unset /\ u.otp = row.otp
        /\ login[l].at # "verify" => login[l].empty = u.unset
    BY DEF IInv, LoginFits
  <2>2. u.id \in Nat /\ u.ts \in Nat /\ login[l].era \in Nat
    BY <1>1, <2>1 DEF TypeOK, User
  <2>3. /\ Of(u.id, u.ts, login[l].era)'
        /\ Live(u.id, u.ts)' => Kept /\ Live(u.id, u.ts)
    <3> HIDE DEF u
    <3>1. u' = u /\ login' = login
      BY <1>3 DEF u
    <3> QED BY <1>1, <1>2, <2>1, <2>2, <3>1, Credentials DEF Of, Live
  <2>4. Live(u.id, u.ts)' => u.unset = row'.unset /\ u.otp = row'.otp
    BY <2>1, <2>3 DEF Kept, Live
  <2> QED BY <1>3, <2>1, <2>3, <2>4 DEF LoginFits
<1>6. ASSUME NEW l \in Logins PROVE TokenFits(l)'
  <2> SUFFICES ASSUME token[l] # None PROVE TokenFits(l)'
    BY <1>3 DEF TokenFits
  <2> DEFINE t == token[l]
  <2>1. /\ Of(t.id, t.ts, t.era) /\ login[l].at = "done"
        /\ Live(t.id, t.ts) => (t.empty => row.unset) /\ t.otp = row.otp
    BY DEF IInv, TokenFits
  <2>2. t.id \in Nat /\ t.ts \in Nat /\ t.era \in Nat
    BY <1>1 DEF TypeOK, Token
  <2>3. /\ Of(t.id, t.ts, t.era)'
        /\ Live(t.id, t.ts)' => Kept /\ Live(t.id, t.ts)
    <3> HIDE DEF t
    <3>1. t' = t
      BY <1>3 DEF t
    <3> QED BY <1>1, <1>2, <2>1, <2>2, <3>1, Credentials DEF Of, Live
  <2>4. Live(t.id, t.ts)' => (t.empty => row'.unset) /\ t.otp = row'.otp
    BY <2>1, <2>3 DEF Kept, Live
  <2> QED BY <1>3, <2>1, <2>3, <2>4 DEF TokenFits
<1>7. ASSUME NEW l \in Logins, NEW s \in Int, Spent(l, s)'
      PROVE  Spent(l, s) /\ Kept /\ row.otp \in 1 .. Len(secrets)
  <2>1. row # None => row.otp \in Nat /\ row.otp <= Len(secrets)
    BY <1>1 DEF RowFits, AccountsTypeOK, User
  <2>2. CASE /\ login[l].at = "issue" /\ login[l].user.otp # 0 /\ login[l].step = s
             /\ Live(login[l].user.id, login[l].user.ts)'
    <3>1. /\ login[l].user \in User /\ Of(login[l].user.id, login[l].user.ts, login[l].era)
          /\ Live(login[l].user.id, login[l].user.ts) => login[l].user.otp = row.otp
      BY <2>2 DEF IInv, LoginFits, Busy
    <3>2. login[l].user.id \in Nat /\ login[l].user.ts \in Nat /\ login[l].era \in Nat
      BY <1>1, <3>1 DEF TypeOK, User
    <3>3. Kept /\ Live(login[l].user.id, login[l].user.ts)
      BY <1>1, <1>2, <1>3, <2>2, <3>1, <3>2, Credentials DEF Live, Of
    <3> QED BY <2>1, <2>2, <3>1, <3>3, <1>1 DEF Spent, Live, AccountsTypeOK
  <2>3. CASE /\ token[l] # None /\ token[l].otp # 0 /\ token[l].step = s
             /\ Live(token[l].id, token[l].ts)'
    <3>1. /\ Of(token[l].id, token[l].ts, token[l].era)
          /\ Live(token[l].id, token[l].ts) => token[l].otp = row.otp
      BY <2>3 DEF IInv, TokenFits
    <3>2. token[l].id \in Nat /\ token[l].ts \in Nat /\ token[l].era \in Nat
      BY <1>1, <2>3 DEF TypeOK, Token
    <3>3. Kept /\ Live(token[l].id, token[l].ts)
      BY <1>1, <1>2, <1>3, <2>3, <3>1, <3>2, Credentials DEF Live, Of
    <3> QED BY <2>1, <2>3, <3>1, <3>3, <1>1 DEF Spent, Live, AccountsTypeOK
  <2> QED BY <1>3, <1>7, <2>2, <2>3 DEF Spent, Live
<1>8. StepsFit'
  <2>1. ASSUME NEW l \in Logins, NEW s \in Int, Spent(l, s)'
        PROVE  secrets'[row'.otp] < s /\ s <= row'.last
    <3>1. Spent(l, s) /\ Kept /\ row.otp \in 1 .. Len(secrets)
      BY <1>7, <2>1
    <3>2. secrets[row.otp] < s /\ s <= row.last
      BY <3>1 DEF IInv, StepsFit
    <3>3. row # None
      BY <3>1 DEF Spent, Live
    <3> QED BY <1>2, <3>1, <3>2, <3>3 DEF Kept, AccountStep, Extended
  <2>2. ASSUME NEW l \in Logins, NEW k \in Logins, NEW s \in Int, Spent(l, s)', Spent(k, s)'
        PROVE  l = k
    <3>1. Spent(l, s) /\ Spent(k, s)
      BY <1>7, <2>2
    <3> QED BY <3>1 DEF IInv, StepsFit
  <2> QED BY <2>1, <2>2 DEF StepsFit
<1>9. ASSUME NEW r \in Requests PROVE LinkFits(r)' /\ RequestFits(r)'
  <2>1. ASSUME link[r] # None PROVE Of(link[r].id, link[r].ts, link[r].era)'
    <3>1. link[r].id \in Nat /\ link[r].ts \in Nat /\ link[r].era \in Nat
      BY <1>1, <2>1 DEF TypeOK, Link
    <3>2. Of(link[r].id, link[r].ts, link[r].era)
      BY <2>1 DEF IInv, LinkFits
    <3> QED BY <1>1, <1>2, <1>3, <3>1, <3>2, Credentials DEF Of, Live
  <2>2. LinkFits(r)'
    BY <1>3, <2>1 DEF LinkFits
  <2>3. RequestFits(r)
    BY DEF IInv
  <2>4. ASSUME request[r].at = "serving"
        PROVE  Of(request[r].user.id, request[r].user.ts, token[request[r].token].era)'
    <3>1. /\ request[r].user \in User /\ request[r].token \in Logins /\ token[request[r].token] # None
          /\ Of(request[r].user.id, request[r].user.ts, token[request[r].token].era)
      BY <2>3, <2>4 DEF RequestFits
    <3>2. /\ request[r].user.id \in Nat /\ request[r].user.ts \in Nat
          /\ token[request[r].token].era \in Nat
      BY <1>1, <3>1 DEF TypeOK, Token, User
    <3> QED BY <1>1, <1>2, <1>3, <3>1, <3>2, Credentials DEF Of, Live
  <2>5. RequestFits(r)'
    BY <1>3, <2>3, <2>4 DEF RequestFits
  <2> QED BY <2>2, <2>5
<1>10. OutFits'
  <2>1. ASSUME NEW l \in out PROVE token[l] # None /\ (revoked[l] = token[l].exp \/ token[l].exp < now')
    <3>1. token[l] # None /\ (revoked[l] = token[l].exp \/ token[l].exp < now) /\ l \in Logins
      BY <1>1 DEF IInv, OutFits, TypeOK
    <3>2. token[l].exp \in Nat /\ now \in Nat /\ now' \in Nat /\ now <= now'
      BY <1>1, <1>2, <3>1 DEF TypeOK, Token, AccountsTypeOK, AccountStep
    <3> QED BY <3>1, <3>2
  <2> QED BY <1>3, <2>1 DEF OutFits
<1>11. Promises'
  BY <1>3 DEF IInv, Promises, CurrentCredentials, PasswordlessEnds, LoggedOut
<1> QED BY <1>4, <1>5, <1>6, <1>8, <1>9, <1>10, <1>11 DEF IInv

-----------------------------------------------------------------------------
(***************************************************************************)
(* A login.                                                                *)
(***************************************************************************)
LoginRecord == [at : {"idle", "verify", "match", "accept", "issue", "done"},
                user : User \cup {None}, era : Nat, empty : BOOLEAN, step : Int]

\* A step that changes nothing but what login l knows, and spends no code.
LEMMA LoginStep ==
  ASSUME IInv, NEW l \in Logins, login[l].at # "done", NEW q \in LoginRecord,
         login' = [login EXCEPT ![l] = q],
         UNCHANGED <<accountVars, token, revoked, out, request, link, served>>,
         q.at \in Busy => /\ q.user \in User /\ Of(q.user.id, q.user.ts, q.era)
                          /\ Live(q.user.id, q.user.ts) => q.user.unset = row.unset /\ q.user.otp = row.otp
                          /\ q.at # "verify" => q.empty = q.user.unset,
         q.at = "issue" => q.user.otp = 0
  PROVE  IInv'
<1>1. /\ UNCHANGED <<row, lastId, secrets, view, now, era>>
      /\ UNCHANGED <<token, revoked, out, request, link, served>>
  BY DEF accountVars
<1>2. token[l] = None
  BY DEF IInv, TokenFits
<1>3. login \in [Logins -> LoginRecord]
  BY DEF IInv, TypeOK, LoginRecord
<1>4. login'[l] = q /\ \A k \in Logins \ {l} : login'[k] = login[k]
  BY <1>3
<1>5. TypeOK' /\ RowFits'
  <2>1. login' \in [Logins -> LoginRecord]
    BY <1>3
  <2>2. TypeOK /\ RowFits
    BY DEF IInv
  <2> QED BY <1>1, <2>1, <2>2 DEF TypeOK, AccountsTypeOK, RowFits, LoginRecord, CheckHolds
<1>6. ASSUME NEW k \in Logins PROVE LoginFits(k)' /\ TokenFits(k)'
  <2>1. LoginFits(k) /\ TokenFits(k)
    BY DEF IInv
  <2> QED BY <1>1, <1>2, <1>4, <2>1 DEF LoginFits, TokenFits, Of, Live
<1>7. ASSUME NEW k \in Logins, NEW s \in Int, Spent(k, s)' PROVE Spent(k, s)
  BY <1>1, <1>2, <1>4, <1>7 DEF Spent, Live
<1>8. StepsFit'
  <2>1. StepsFit
    BY DEF IInv
  <2> QED BY <1>1, <1>7, <2>1 DEF StepsFit
<1>9. /\ \A r \in Requests : LinkFits(r)' /\ RequestFits(r)'
      /\ OutFits' /\ Promises'
  BY <1>1 DEF IInv, LinkFits, RequestFits, OutFits, Of, Live, Promises,
              CurrentCredentials, PasswordlessEnds, LoggedOut
<1> QED BY <1>5, <1>6, <1>8, <1>9 DEF IInv

LEMMA RefuseInv ==
  ASSUME IInv, NEW l \in Logins, login[l].at # "done", Refuse(l),
         UNCHANGED <<accountVars, token, revoked, out, request, link, served>>
  PROVE  IInv'
<1>1. NoLogin \in LoginRecord /\ NoLogin.at = "idle"
  BY DEF NoLogin, LoginRecord
<1> QED BY <1>1, LoginStep DEF Refuse, Busy

LEMMA ReadUserInv == ASSUME IInv, NEW l \in Logins, ReadUser(l) PROVE IInv'
<1>1. PICK empty \in BOOLEAN :
        login' = [login EXCEPT ![l] = [at |-> "verify", user |-> row, era |-> era,
                                       empty |-> empty, step |-> -1]]
  BY DEF ReadUser
<1> DEFINE q == [at |-> "verify", user |-> row, era |-> era, empty |-> empty, step |-> -1]
<1>2. /\ UNCHANGED <<accountVars, token, revoked, out, request, link, served>>
      /\ row # None /\ login[l].at = "idle"
  BY DEF ReadUser
<1>3. row \in User /\ era \in Nat /\ row.id <= lastId /\ row.ts \in Nat
  BY <1>2 DEF IInv, TypeOK, AccountsTypeOK, User
<1>4. q \in LoginRecord /\ q.at = "verify" /\ q.user = row /\ q.era = era
  BY <1>3 DEF LoginRecord
<1>5. Of(row.id, row.ts, era)
  BY <1>3 DEF Of
<1> HIDE DEF q
<1>6. login' = [login EXCEPT ![l] = q]
  BY <1>1 DEF q
<1> QED BY <1>2, <1>3, <1>4, <1>5, <1>6, LoginStep

LEMMA VerifyInv == ASSUME IInv, NEW l \in Logins, Verify(l) PROVE IInv'
<1>1. /\ UNCHANGED <<accountVars, token, revoked, out, request, link, served>>
      /\ login[l].at = "verify"
  BY DEF Verify
<1>2. CASE Refuse(l)
  BY <1>1, <1>2, RefuseInv
<1>3. CASE /\ login[l].empty = login[l].user.unset
           /\ login' = [login EXCEPT ![l].at = IF login[l].user.otp = 0 THEN "issue" ELSE "match"]
  <2> DEFINE q == [login[l] EXCEPT !.at = IF login[l].user.otp = 0 THEN "issue" ELSE "match"]
  <2>1. login[l] \in LoginRecord
    BY DEF IInv, TypeOK, LoginRecord
  <2>2. /\ q \in LoginRecord /\ q.user = login[l].user /\ q.era = login[l].era /\ q.empty = login[l].empty
        /\ q.at = "issue" => login[l].user.otp = 0
    BY <2>1 DEF LoginRecord
  <2>3. LoginFits(l) /\ login[l].at \in Busy
    BY <1>1 DEF IInv, Busy
  <2>4. login' = [login EXCEPT ![l] = q]
    BY <1>3
  <2> HIDE DEF q
  <2> QED BY <1>1, <1>3, <2>2, <2>3, <2>4, LoginStep DEF LoginFits
<1> QED BY <1>2, <1>3 DEF Verify

LEMMA MatchInv == ASSUME IInv, NEW l \in Logins, Match(l) PROVE IInv'
<1>1. /\ UNCHANGED <<accountVars, token, revoked, out, request, link, served>>
      /\ login[l].at = "match"
  BY DEF Match
<1>2. CASE Refuse(l)
  BY <1>1, <1>2, RefuseInv
<1>3. ASSUME NEW s \in Matching, login' = [login EXCEPT ![l].at = "accept", ![l].step = s]
      PROVE  IInv'
  <2> DEFINE q == [login[l] EXCEPT !.at = "accept", !.step = s]
  <2>1. login[l] \in LoginRecord /\ now \in Nat
    BY DEF IInv, TypeOK, LoginRecord, AccountsTypeOK
  <2>2. s \in Int
    BY <2>1, PeriodAssumption DEF Matching, TotpStep
  <2>3. [login[l] EXCEPT !.at = "accept"] \in LoginRecord
    BY <2>1 DEF LoginRecord
  <2>4. q = [[login[l] EXCEPT !.at = "accept"] EXCEPT !.step = s]
    BY <2>1 DEF LoginRecord
  <2>5. /\ q \in LoginRecord /\ q.user = login[l].user /\ q.era = login[l].era /\ q.empty = login[l].empty
        /\ q.at = "accept"
    BY <2>1, <2>2, <2>3, <2>4 DEF LoginRecord
  <2>6. LoginFits(l) /\ login[l].at \in Busy
    BY <1>1 DEF IInv, Busy
  <2>7. login' = [login EXCEPT ![l] = q]
    BY <1>3
  <2> HIDE DEF q
  <2> QED BY <1>1, <2>5, <2>6, <2>7, LoginStep DEF LoginFits
<1> QED BY <1>2, <1>3 DEF Match

\* A code is spent: from here on no other session can have it.
LEMMA AcceptInv == ASSUME IInv, NEW l \in Logins, Accept(l) PROVE IInv'
<1> DEFINE s == login[l].step
<1>1. /\ UNCHANGED <<lastId, secrets, view, now, era>>
      /\ UNCHANGED <<token, revoked, out, request, link, served>> /\ login[l].at = "accept"
  BY DEF Accept
<1>2. CASE Refuse(l) /\ UNCHANGED row
  BY <1>1, <1>2, RefuseInv DEF accountVars
<1>3. CASE /\ row # None /\ row.id = login[l].user.id /\ row.last < s
           /\ row' = [row EXCEPT !.last = s] /\ login' = [login EXCEPT ![l].at = "issue"]
  <2>1. /\ login \in [Logins -> LoginRecord] /\ row \in User /\ s \in Int /\ secrets \in Seq(Int)
        /\ TypeOK /\ AccountsTypeOK
    BY <1>3 DEF IInv, TypeOK, LoginRecord, AccountsTypeOK
  <2>2. /\ row' \in User /\ row'.id = row.id /\ row'.ts = row.ts /\ row'.unset = row.unset
        /\ row'.otp = row.otp /\ row'.last = s /\ row'.allow = row.allow
    BY <1>3, <2>1 DEF User
  <2>3. row' # None
    BY <2>2, NoneAssumption
  <2>4. /\ login' \in [Logins -> LoginRecord]
        /\ login'[l] = [login[l] EXCEPT !.at = "issue"]
        /\ \A k \in Logins \ {l} : login'[k] = login[k]
    BY <1>3, <2>1 DEF LoginRecord
  <2>5. /\ login'[l].at = "issue" /\ login'[l].user = login[l].user /\ login'[l].era = login[l].era
        /\ login'[l].empty = login[l].empty /\ login'[l].step = s
    BY <2>1, <2>4 DEF LoginRecord
  <2>6. LoginFits(l) /\ token[l] = None /\ login[l].at \in Busy
    BY <1>1 DEF IInv, LoginFits, Busy
  <2>7. row.otp # 0 => secrets[row.otp] <= row.last /\ row.otp \in 1 .. Len(secrets)
    BY <1>3, <2>1 DEF IInv, RowFits, User
  <2>8. TypeOK' /\ RowFits'
    <3>1. RowFits'
      <4>1. row.otp # 0 => secrets[row.otp] \in Int /\ secrets[row.otp] <= s
        BY <1>3, <2>1, <2>7 DEF User
      <4> QED BY <1>1, <1>3, <2>2, <4>1 DEF IInv, RowFits, CheckHolds
    <3>2. AccountsTypeOK'
      BY <1>1, <2>1, <2>2, <3>1 DEF AccountsTypeOK, RowFits
    <3> QED BY <1>1, <2>1, <2>4, <3>1, <3>2 DEF TypeOK, LoginRecord
  <2>9. ASSUME NEW k \in Logins PROVE LoginFits(k)' /\ TokenFits(k)'
    <3>1. LoginFits(k) /\ TokenFits(k)
      BY DEF IInv
    <3>2. CASE k = l
      BY <1>1, <1>3, <2>2, <2>3, <2>5, <2>6, <3>2 DEF LoginFits, TokenFits, Of, Live, Busy
    <3>3. CASE k # l
      BY <1>1, <1>3, <2>2, <2>3, <2>4, <3>1, <3>3 DEF LoginFits, TokenFits, Of, Live
    <3> QED BY <3>2, <3>3
  <2>10. ASSUME NEW k \in Logins, NEW x \in Int, Spent(k, x)'
         PROVE  /\ Spent(k, x) \/ (k = l /\ x = s)
                /\ k = l => x = s
                /\ row.otp # 0
    <3>1. CASE k = l
      BY <1>1, <1>3, <2>2, <2>3, <2>5, <2>6, <2>10, <3>1 DEF Spent, Live, LoginFits
    <3>2. CASE k # l
      <4>1. Spent(k, x)
        BY <1>1, <1>3, <2>2, <2>3, <2>4, <2>10, <3>2 DEF Spent, Live
      <4>2. LoginFits(k) /\ TokenFits(k)
        BY DEF IInv
      <4> QED BY <3>2, <4>1, <4>2 DEF Spent, LoginFits, TokenFits, Busy
    <3> QED BY <3>1, <3>2
  <2>11. StepsFit'
    <3>1. ASSUME NEW k \in Logins, NEW x \in Int, Spent(k, x)'
          PROVE  secrets[row.otp] < x /\ x <= s
      <4>1. secrets[row.otp] \in Int /\ row.last \in Int /\ secrets[row.otp] <= row.last
        BY <2>1, <2>7, <2>10, <3>1 DEF User
      <4>2. Spent(k, x) => secrets[row.otp] < x /\ x <= row.last
        BY DEF IInv, StepsFit
      <4> QED BY <1>3, <2>1, <2>10, <3>1, <4>1, <4>2
    <3>2. ASSUME NEW k \in Logins, NEW j \in Logins, NEW x \in Int, Spent(k, x)', Spent(j, x)'
          PROVE  k = j
      <4>1. ~Spent(k, s) /\ ~Spent(j, s)
        <5>1. row.last \in Int /\ ~(s <= row.last)
          BY <1>3, <2>1 DEF User
        <5> QED BY <2>1, <5>1 DEF IInv, StepsFit
      <4>2. Spent(k, x) /\ Spent(j, x) => k = j
        BY DEF IInv, StepsFit
      <4> QED BY <2>10, <3>2, <4>1, <4>2
    <3> QED BY <1>1, <2>2, <3>1, <3>2 DEF StepsFit
  <2>12. \A r \in Requests : LinkFits(r)' /\ RequestFits(r)'
    BY <1>1, <1>3, <2>2, <2>3 DEF IInv, LinkFits, RequestFits, Of, Live
  <2>13. OutFits' /\ Promises'
    BY <1>1 DEF IInv, OutFits, Promises, CurrentCredentials, PasswordlessEnds, LoggedOut
  <2> QED BY <2>8, <2>9, <2>11, <2>12, <2>13 DEF IInv
<1> QED BY <1>2, <1>3 DEF Accept, Unused

LEMMA IssueInv == ASSUME IInv, NEW l \in Logins, Issue(l) PROVE IInv'
<1> DEFINE u == login[l].user
           t == [id |-> u.id, ts |-> u.ts, exp |-> now + Lifetime, era |-> login[l].era,
                 otp |-> u.otp, step |-> login[l].step, empty |-> login[l].empty]
<1>1. /\ UNCHANGED <<accountVars, revoked, out, request, link, served>>
      /\ UNCHANGED <<row, lastId, secrets, view, now, era>> /\ login[l].at = "issue"
  BY DEF Issue, accountVars
<1>2. CASE Refuse(l) /\ UNCHANGED token
  BY <1>1, <1>2, RefuseInv
<1>3. CASE /\ token' = [token EXCEPT ![l] = t]
           /\ login' = [login EXCEPT ![l] = [NoLogin EXCEPT !.at = "done"]]
  <2>1. /\ login \in [Logins -> LoginRecord] /\ token \in [Logins -> Token \cup {None}]
        /\ now \in Nat /\ TypeOK
    BY DEF IInv, TypeOK, LoginRecord, AccountsTypeOK
  <2>2. /\ u \in User /\ token[l] = None /\ Of(u.id, u.ts, login[l].era)
        /\ Live(u.id, u.ts) => u.unset = row.unset /\ u.otp = row.otp
        /\ login[l].empty = u.unset
    BY <1>1 DEF IInv, LoginFits, Busy
  <2>3. /\ t \in Token /\ t.id = u.id /\ t.ts = u.ts /\ t.era = login[l].era /\ t.otp = u.otp
        /\ t.step = login[l].step /\ t.empty = login[l].empty
    BY <2>1, <2>2, TimesAssumption DEF Token, User, LoginRecord
  <2>4. /\ token' \in [Logins -> Token \cup {None}] /\ token'[l] = t
        /\ \A k \in Logins \ {l} : token'[k] = token[k]
    BY <1>3, <2>1, <2>3
  <2> HIDE DEF t
  <2>5. /\ login' \in [Logins -> LoginRecord] /\ login'[l].at = "done"
        /\ \A k \in Logins \ {l} : login'[k] = login[k]
    <3>1. [NoLogin EXCEPT !.at = "done"] \in LoginRecord /\ [NoLogin EXCEPT !.at = "done"].at = "done"
      <4>1. NoLogin \in LoginRecord
        BY DEF NoLogin, LoginRecord
      <4> QED BY <4>1 DEF LoginRecord
    <3> QED BY <1>3, <2>1, <3>1
  <2>6. revoked[l] = -1 /\ l \notin out
    BY <2>1, <2>2 DEF IInv, OutFits, TypeOK
  <2>8. TypeOK' /\ RowFits'
    <3>1. \A k \in Logins : revoked[k] # -1 => token'[k] # None /\ revoked[k] = token'[k].exp
      BY <2>1, <2>4, <2>6 DEF TypeOK
    <3> QED BY <1>1, <2>1, <2>4, <2>5, <3>1 DEF IInv, TypeOK, AccountsTypeOK, RowFits, LoginRecord, CheckHolds
  <2>9. ASSUME NEW k \in Logins PROVE LoginFits(k)' /\ TokenFits(k)'
    <3>1. LoginFits(k) /\ TokenFits(k)
      BY DEF IInv
    <3>2. CASE k = l
      BY <1>1, <2>2, <2>3, <2>4, <2>5, <3>2 DEF LoginFits, TokenFits, Of, Live, Busy
    <3>3. CASE k # l
      BY <1>1, <2>4, <2>5, <3>1, <3>3 DEF LoginFits, TokenFits, Of, Live
    <3> QED BY <3>2, <3>3
  <2>10. ASSUME NEW k \in Logins, NEW x \in Int, Spent(k, x)' PROVE Spent(k, x)
    <3>1. CASE k = l
      BY <1>1, <2>3, <2>4, <2>5, <2>10, <3>1 DEF Spent, Live
    <3>2. CASE k # l
      BY <1>1, <2>4, <2>5, <2>10, <3>2 DEF Spent, Live
    <3> QED BY <3>1, <3>2
  <2>11. StepsFit'
    <3>1. StepsFit
      BY DEF IInv
    <3> QED BY <1>1, <2>10, <3>1 DEF StepsFit
  <2>12. ASSUME NEW r \in Requests PROVE LinkFits(r)' /\ RequestFits(r)'
    <3>1. LinkFits(r) /\ RequestFits(r)
      BY DEF IInv
    <3> QED BY <1>1, <2>2, <2>4, <3>1 DEF LinkFits, RequestFits, Of, Live
  <2>13. OutFits' /\ Promises'
    <3>1. OutFits /\ Promises /\ out \subseteq Logins
      BY <2>1 DEF IInv, TypeOK
    <3> QED
      BY <1>1, <2>4, <2>6, <3>1 DEF OutFits, Promises, CurrentCredentials, PasswordlessEnds, LoggedOut
  <2> QED BY <2>8, <2>9, <2>11, <2>12, <2>13 DEF IInv
<1> QED BY <1>2, <1>3 DEF Issue

-----------------------------------------------------------------------------
(***************************************************************************)
(* A request.                                                              *)
(***************************************************************************)
RequestRecord == [at : {"idle", "revoked", "user", "serving", "cleanup", "revoke"},
                  token : Logins \cup {None}, user : User \cup {None}, late : BOOLEAN]

\* What request r knows changes, and neither the account nor a session.
LEMMA RequestStep ==
  ASSUME IInv, NEW r \in Requests, NEW q \in RequestRecord,
         request' = [request EXCEPT ![r] = q],
         UNCHANGED <<accountVars, login, token>>, out \subseteq out',
         q.at # "idle" => /\ q.token \in Logins /\ token[q.token] # None
                          /\ q.late => q.token \in out
                          /\ q.at \in {"user", "serving"} => ~q.late
                          /\ q.at = "serving" => /\ q.user \in User
                                                 /\ Of(q.user.id, q.user.ts, token[q.token].era)
  PROVE  /\ request' \in [Requests -> RequestRecord]
         /\ AccountsTypeOK' /\ RowFits' /\ StepsFit'
         /\ \A l \in Logins : LoginFits(l)' /\ TokenFits(l)'
         /\ \A k \in Requests : RequestFits(k)'
<1>1. UNCHANGED <<row, lastId, secrets, view, now, era, login, token>>
  BY DEF accountVars
<1>2. request \in [Requests -> RequestRecord]
  BY DEF IInv, TypeOK, RequestRecord
<1>3. request' \in [Requests -> RequestRecord]
  BY <1>2
<1>4. AccountsTypeOK' /\ RowFits'
  BY <1>1 DEF IInv, TypeOK, AccountsTypeOK, RowFits, CheckHolds
<1>5. StepsFit'
  BY <1>1 DEF IInv, StepsFit, Spent, Live
<1>6. \A l \in Logins : LoginFits(l)' /\ TokenFits(l)'
  BY <1>1 DEF IInv, LoginFits, TokenFits, Of, Live
<1>7. ASSUME NEW k \in Requests PROVE RequestFits(k)'
  <2>1. CASE k = r
    <3>1. request'[k] = q
      BY <1>2, <2>1
    <3> QED BY <1>1, <3>1 DEF RequestFits, Of, Live
  <2>2. CASE k # r
    <3>1. request'[k] = request[k] /\ RequestFits(k)
      BY <1>2, <2>2 DEF IInv
    <3> QED BY <1>1, <3>1 DEF RequestFits, Of, Live
  <2> QED BY <2>1, <2>2
<1> QED BY <1>3, <1>4, <1>5, <1>6, <1>7

\* The same when nothing else changes either.
LEMMA RequestOnly ==
  ASSUME IInv, NEW r \in Requests, NEW q \in RequestRecord,
         request' = [request EXCEPT ![r] = q],
         UNCHANGED <<accountVars, login, token, revoked, out, link, served>>,
         q.at # "idle" => /\ q.token \in Logins /\ token[q.token] # None
                          /\ q.late => q.token \in out
                          /\ q.at \in {"user", "serving"} => ~q.late
                          /\ q.at # "serving"
  PROVE  IInv'
<1>1. UNCHANGED <<row, lastId, now, era, login, token, revoked, out, link, served>>
  BY DEF accountVars
<1>2. /\ request' \in [Requests -> RequestRecord]
      /\ AccountsTypeOK' /\ RowFits' /\ StepsFit'
      /\ \A l \in Logins : LoginFits(l)' /\ TokenFits(l)'
      /\ \A k \in Requests : RequestFits(k)'
  BY RequestStep
<1>3. TypeOK'
  BY <1>1, <1>2 DEF IInv, TypeOK, RequestRecord
<1>4. \A k \in Requests : LinkFits(k)'
  BY <1>1 DEF IInv, LinkFits, Of, Live
<1>5. OutFits' /\ Promises'
  BY <1>1 DEF IInv, OutFits, Promises, CurrentCredentials, PasswordlessEnds, LoggedOut
<1> QED BY <1>2, <1>3, <1>4, <1>5 DEF IInv

LEMMA NoRequestFits == NoRequest \in RequestRecord /\ NoRequest.at = "idle"
BY DEF NoRequest, RequestRecord

LEMMA DropInv ==
  ASSUME IInv, NEW r \in Requests, Drop(r),
         UNCHANGED <<accountVars, login, token, revoked, out, link, served>>
  PROVE  IInv'
BY NoRequestFits, RequestOnly DEF Drop

LEMMA PresentInv == ASSUME IInv, NEW r \in Requests, Present(r) PROVE IInv'
<1>1. PICK l \in Logins, to \in {"revoked", "cleanup"} :
        /\ token[l] # None
        /\ request' = [request EXCEPT ![r] = [at |-> to, token |-> l, user |-> None,
                                              late |-> l \in out]]
  BY DEF Present, Parses
<1> DEFINE late == l \in out
           q    == [at |-> to, token |-> l, user |-> None, late |-> late]
<1>2. late \in BOOLEAN /\ (late => l \in out)
  OBVIOUS
<1>3. request' = [request EXCEPT ![r] = q]
  BY <1>1
<1> HIDE DEF late
<1>5. q \in RequestRecord /\ q.at = to /\ q.token = l /\ q.late = late
  BY <1>2 DEF RequestRecord
<1>4. UNCHANGED <<accountVars, login, token, revoked, out, link, served>>
  BY DEF Present
<1> HIDE DEF q
<1> QED BY <1>1, <1>2, <1>3, <1>4, <1>5, RequestOnly

\* A token logged out of is in the table until it expires.
LEMMA CheckRevokedInv == ASSUME IInv, NEW r \in Requests, CheckRevoked(r) PROVE IInv'
<1>1. /\ UNCHANGED <<accountVars, login, token, revoked, out, link, served>>
      /\ request[r].at = "revoked"
  BY DEF CheckRevoked
<1>2. CASE Drop(r)
  BY <1>1, <1>2, DropInv
<1>3. CASE /\ ~IsRevoked(request[r].token)
           /\ request' = [request EXCEPT ![r].at = "user",
                                         ![r].late = @ /\ now <= token[request[r].token].exp]
  <2> DEFINE l == request[r].token
             late == request[r].late /\ now <= token[l].exp
             p == [request[r] EXCEPT !.at = "user"]
             q == [request[r] EXCEPT !.at = "user", !.late = late]
  <2>1. /\ l \in Logins /\ token[l] # None
        /\ request[r].late => l \in out
    BY <1>1 DEF IInv, RequestFits
  <2>2. /\ request \in [Requests -> RequestRecord] /\ request[r] \in RequestRecord
        /\ now \in Nat /\ revoked[l] \in Int /\ token[l] \in Token
    <3>1. request \in [Requests -> RequestRecord] /\ now \in Nat
      BY DEF IInv, TypeOK, RequestRecord, AccountsTypeOK
    <3>2. revoked \in [Logins -> Int] /\ token \in [Logins -> Token \cup {None}]
      BY DEF IInv, TypeOK
    <3> QED BY <2>1, <3>1, <3>2
  <2>3. ~late
    <3>1. token[l].exp \in Nat
      BY <2>2 DEF Token
    <3> QED BY <1>3, <2>1, <2>2, <3>1 DEF IInv, OutFits, IsRevoked
  <2>4. late = FALSE
    BY <2>3
  <2>5. request' = [request EXCEPT ![r] = q]
    BY <1>3, <2>2
  <2> HIDE DEF late
  <2>6. p \in RequestRecord /\ p.at = "user" /\ p.token = l /\ q = [p EXCEPT !.late = late]
    BY <2>2 DEF RequestRecord
  <2> HIDE DEF p
  <2>7. q \in RequestRecord /\ q.at = "user" /\ q.token = l /\ ~q.late
    BY <2>4, <2>6 DEF RequestRecord
  <2> HIDE DEF q
  <2> QED BY <1>1, <2>1, <2>5, <2>7, RequestOnly
<1> QED BY <1>2, <1>3 DEF CheckRevoked

\* Whoever is served is of the row's credentials: the promises are kept.
LEMMA CheckUserInv == ASSUME IInv, NEW r \in Requests, CheckUser(r) PROVE IInv'
<1> DEFINE l == request[r].token
           t == token[l]
<1>1. /\ UNCHANGED <<accountVars, login, token, revoked, out, link>>
      /\ request[r].at = "user"
  BY DEF CheckUser
<1>2. CASE Drop(r) /\ UNCHANGED served
  BY <1>1, <1>2, DropInv
<1>3. CASE /\ Accepts(t)
           /\ request' = [request EXCEPT ![r].at = "serving", ![r].user = row]
           /\ served'  = [current |-> t.era = era, entitled |-> t.empty => row.unset /\ row.allow,
                          late |-> request[r].late]
  <2>1. l \in Logins /\ t # None /\ ~request[r].late
    BY <1>1 DEF IInv, RequestFits
  <2>2. request \in [Requests -> RequestRecord] /\ request[r] \in RequestRecord
    BY DEF IInv, TypeOK, RequestRecord
  <2>3. /\ row # None /\ row \in User /\ row.id <= lastId /\ t.era \in Nat /\ era \in Nat
        /\ row.ts \in Nat
    <3>1. row # None
      BY <1>3 DEF Accepts
    <3>2. t \in Token
      BY <2>1 DEF IInv, TypeOK
    <3> QED BY <3>1, <3>2 DEF IInv, TypeOK, AccountsTypeOK, Token, User
  <2>4. Live(t.id, t.ts) /\ TokenFits(l)
    BY <1>3, <2>1 DEF Accepts, Live, IInv
  <2>5. t.era = era /\ (t.empty => row.unset)
    BY <2>1, <2>4 DEF TokenFits, Of
  <2>6. row.unset => row.allow
    BY <2>3 DEF IInv, RowFits, CheckHolds
  <2> DEFINE p == [request[r] EXCEPT !.at = "serving"]
             q == [request[r] EXCEPT !.at = "serving", !.user = row]
  <2>7. request' = [request EXCEPT ![r] = q]
    BY <1>3, <2>2
  <2>8. /\ p \in RequestRecord /\ p.at = "serving" /\ p.token = l /\ q = [p EXCEPT !.user = row]
        /\ p.late = request[r].late
    BY <2>2 DEF RequestRecord
  <2> HIDE DEF p
  <2>9. q \in RequestRecord /\ q.at = "serving" /\ q.token = l /\ ~q.late /\ q.user = row
    BY <2>1, <2>3, <2>8 DEF RequestRecord
  <2> HIDE DEF q
  <2>10. Of(row.id, row.ts, t.era)
    BY <2>3, <2>5 DEF Of
  <2>11. /\ request' \in [Requests -> RequestRecord]
         /\ AccountsTypeOK' /\ RowFits' /\ StepsFit'
         /\ \A k \in Logins : LoginFits(k)' /\ TokenFits(k)'
         /\ \A k \in Requests : RequestFits(k)'
    BY <1>1, <2>1, <2>3, <2>7, <2>9, <2>10, RequestStep
  <2>12. served' = NoServed
    <3>1. (t.era = era) = TRUE /\ (t.empty => row.unset /\ row.allow) = TRUE
      BY <2>5, <2>6
    <3>2. request[r].late = FALSE
      BY <2>1, <2>2 DEF RequestRecord
    <3> QED BY <1>3, <3>1, <3>2 DEF NoServed
  <2>13. TypeOK'
    BY <1>1, <2>11, <2>12 DEF IInv, TypeOK, RequestRecord, NoServed
  <2>14. (\A k \in Requests : LinkFits(k)') /\ OutFits'
    BY <1>1 DEF IInv, LinkFits, OutFits, Of, Live, accountVars
  <2>15. Promises'
    BY <2>12 DEF NoServed, Promises, CurrentCredentials, PasswordlessEnds, LoggedOut
  <2> QED BY <2>11, <2>13, <2>14, <2>15 DEF IInv
<1> QED BY <1>2, <1>3 DEF CheckUser

LEMMA SignInv == ASSUME IInv, NEW r \in Requests, Sign(r) PROVE IInv'
<1> DEFINE u == request[r].user
           e == token[request[r].token].era
           k == [id |-> u.id, ts |-> u.ts, root |-> u.root, exp |-> now + LinkTime, era |-> e]
<1>1. /\ UNCHANGED <<accountVars, login, token, revoked, out, served>> /\ Drop(r)
      /\ UNCHANGED <<row, lastId, now, era>>
      /\ request[r].at = "serving" /\ link' = [link EXCEPT ![r] = k]
  BY DEF Sign, accountVars
<1>2. u \in User /\ Of(u.id, u.ts, e) /\ e \in Nat /\ now \in Nat
  <2>1. /\ u \in User /\ Of(u.id, u.ts, e) /\ request[r].token \in Logins
        /\ token[request[r].token] # None
    BY <1>1 DEF IInv, RequestFits
  <2> QED BY <2>1 DEF IInv, TypeOK, Token, AccountsTypeOK
<1>3. /\ request' \in [Requests -> RequestRecord]
      /\ AccountsTypeOK' /\ RowFits' /\ StepsFit'
      /\ \A l \in Logins : LoginFits(l)' /\ TokenFits(l)'
      /\ \A j \in Requests : RequestFits(j)'
  BY <1>1, NoRequestFits, RequestStep DEF Drop
<1>4. k \in Link /\ k.id = u.id /\ k.ts = u.ts /\ k.era = e
  BY <1>2, TimesAssumption DEF Link, User
<1> HIDE DEF k
<1>5. /\ link' \in [Requests -> Link \cup {None}] /\ link'[r] = k
      /\ \A j \in Requests \ {r} : link'[j] = link[j]
  BY <1>1, <1>4 DEF IInv, TypeOK
<1>6. TypeOK'
  BY <1>1, <1>3, <1>5 DEF IInv, TypeOK, RequestRecord
<1>7. ASSUME NEW j \in Requests PROVE LinkFits(j)'
  <2>1. LinkFits(j)
    BY DEF IInv
  <2> QED BY <1>1, <1>2, <1>4, <1>5, <2>1 DEF LinkFits, Of, Live
<1>8. OutFits' /\ Promises'
  BY <1>1 DEF IInv, OutFits, Promises, CurrentCredentials, PasswordlessEnds, LoggedOut
<1> QED BY <1>3, <1>6, <1>7, <1>8 DEF IInv

\* Rows are forgotten only once their tokens have expired.
LEMMA CleanupInv == ASSUME IInv, NEW r \in Requests, Cleanup(r) PROVE IInv'
<1>1. /\ UNCHANGED <<accountVars, login, token, out, link, served>>
      /\ UNCHANGED <<row, lastId, now, era>>
      /\ request[r].at = "cleanup" /\ request' = [request EXCEPT ![r].at = "revoke"]
      /\ revoked' = [l \in Logins |-> IF revoked[l] < now THEN -1 ELSE revoked[l]]
  BY DEF Cleanup, accountVars
<1>2. /\ request \in [Requests -> RequestRecord] /\ request[r] \in RequestRecord /\ now \in Nat
      /\ revoked \in [Logins -> Int] /\ RequestFits(r)
  BY DEF IInv, TypeOK, RequestRecord, AccountsTypeOK
<1> DEFINE q == [request[r] EXCEPT !.at = "revoke"]
<1>3. /\ q \in RequestRecord /\ q.at = "revoke" /\ q.token = request[r].token
      /\ q.late = request[r].late
  BY <1>2 DEF RequestRecord
<1>4. request' = [request EXCEPT ![r] = q]
  BY <1>1, <1>2
<1> HIDE DEF q
<1>5. /\ request' \in [Requests -> RequestRecord]
      /\ AccountsTypeOK' /\ RowFits' /\ StepsFit'
      /\ \A l \in Logins : LoginFits(l)' /\ TokenFits(l)'
      /\ \A j \in Requests : RequestFits(j)'
  BY <1>1, <1>2, <1>3, <1>4, RequestStep DEF RequestFits
<1>6. revoked' \in [Logins -> Int]
  BY <1>1, <1>2
<1>7. \A l \in Logins : revoked'[l] # -1 => revoked'[l] = revoked[l]
  BY <1>1
<1>8. TypeOK'
  <2>1. \A l \in Logins : revoked'[l] # -1 => token[l] # None /\ revoked'[l] = token[l].exp
    BY <1>1, <1>7 DEF IInv, TypeOK
  <2> QED BY <1>1, <1>5, <1>6, <2>1 DEF IInv, TypeOK, RequestRecord
<1>9. \A j \in Requests : LinkFits(j)'
  BY <1>1 DEF IInv, LinkFits, Of, Live
<1>10. OutFits'
  <2>1. ASSUME NEW l \in out PROVE token[l] # None /\ (revoked'[l] = token[l].exp \/ token[l].exp < now)
    <3>1. l \in Logins /\ token[l] # None /\ (revoked[l] = token[l].exp \/ token[l].exp < now)
      BY DEF IInv, TypeOK, OutFits
    <3> QED BY <1>1, <1>2, <3>1
  <2> QED BY <1>1, <2>1 DEF OutFits
<1>11. Promises'
  BY <1>1 DEF IInv, Promises, CurrentCredentials, PasswordlessEnds, LoggedOut
<1> QED BY <1>5, <1>8, <1>9, <1>10, <1>11 DEF IInv

\* From the answer on, the token is in the table.
LEMMA RevokeInv == ASSUME IInv, NEW r \in Requests, Revoke(r) PROVE IInv'
<1> DEFINE l == request[r].token
<1>1. /\ UNCHANGED <<accountVars, login, token, link, served>> /\ Drop(r)
      /\ UNCHANGED <<row, lastId, now, era>> /\ request[r].at = "revoke"
      /\ revoked' = [revoked EXCEPT ![l] = token[l].exp] /\ out' = out \cup {l}
  BY DEF Revoke, Expiry, accountVars
<1>2. l \in Logins /\ token[l] # None
  BY <1>1 DEF IInv, RequestFits
<1>3. /\ request' \in [Requests -> RequestRecord]
      /\ AccountsTypeOK' /\ RowFits' /\ StepsFit'
      /\ \A k \in Logins : LoginFits(k)' /\ TokenFits(k)'
      /\ \A j \in Requests : RequestFits(j)'
  BY <1>1, NoRequestFits, RequestStep DEF Drop
<1>4. /\ revoked \in [Logins -> Int] /\ token[l].exp \in Int /\ out \subseteq Logins
  BY <1>2 DEF IInv, TypeOK, Token
<1>5. /\ revoked' \in [Logins -> Int] /\ revoked'[l] = token[l].exp
      /\ \A k \in Logins \ {l} : revoked'[k] = revoked[k]
  BY <1>1, <1>2, <1>4
<1>6. TypeOK'
  <2>1. \A k \in Logins : revoked'[k] # -1 => token[k] # None /\ revoked'[k] = token[k].exp
    BY <1>2, <1>5 DEF IInv, TypeOK
  <2>2. out' \subseteq Logins
    BY <1>1, <1>2, <1>4
  <2> QED BY <1>1, <1>3, <1>5, <2>1, <2>2 DEF IInv, TypeOK, RequestRecord
<1>7. \A j \in Requests : LinkFits(j)'
  BY <1>1 DEF IInv, LinkFits, Of, Live
<1>8. OutFits'
  BY <1>1, <1>2, <1>4, <1>5 DEF IInv, OutFits
<1>9. Promises'
  BY <1>1 DEF IInv, Promises, CurrentCredentials, PasswordlessEnds, LoggedOut
<1> QED BY <1>3, <1>6, <1>7, <1>8, <1>9 DEF IInv

LEMMA FetchInv == ASSUME IInv, NEW r \in Requests, Fetch(r) PROVE IInv'
<1>1. /\ UNCHANGED <<row, lastId, secrets, view, now, era>>
      /\ UNCHANGED <<login, token, revoked, out, request, link>>
      /\ link[r] # None /\ row # None /\ row.id = link[r].id /\ row.ts = link[r].ts
      /\ served' = [current |-> link[r].era = era, entitled |-> TRUE, late |-> FALSE]
  BY DEF Fetch, accountVars
<1>2. link[r].era = era
  BY <1>1 DEF IInv, LinkFits, Of, Live
<1>3. served' = NoServed
  BY <1>1, <1>2 DEF NoServed
<1>4. TypeOK' /\ RowFits' /\ StepsFit' /\ OutFits'
  BY <1>1, <1>3
  DEF IInv, TypeOK, AccountsTypeOK, RowFits, CheckHolds, StepsFit, Spent, Live, OutFits, NoServed
<1>5. /\ \A l \in Logins : LoginFits(l)' /\ TokenFits(l)'
      /\ \A j \in Requests : LinkFits(j)' /\ RequestFits(j)'
  BY <1>1 DEF IInv, LoginFits, TokenFits, LinkFits, RequestFits, Of, Live
<1>6. Promises'
  BY <1>3 DEF NoServed, Promises, CurrentCredentials, PasswordlessEnds, LoggedOut
<1> QED BY <1>4, <1>5, <1>6 DEF IInv

LEMMA FinishInv == ASSUME IInv, NEW r \in Requests, Finish(r) PROVE IInv'
BY DropInv DEF Finish

-----------------------------------------------------------------------------
LEMMA StutterInv == IInv /\ UNCHANGED vars => IInv'
<1> SUFFICES ASSUME IInv, UNCHANGED vars PROVE IInv'
  OBVIOUS
<1>1. UNCHANGED <<row, lastId, secrets, view, now, era, login, token, revoked, out, request, link, served>>
  BY DEF vars, accountVars, sessionVars
<1>2. TypeOK' /\ RowFits' /\ StepsFit' /\ OutFits'
  BY <1>1 DEF IInv, TypeOK, AccountsTypeOK, RowFits, CheckHolds, StepsFit, Spent, Live, OutFits
<1>3. /\ \A l \in Logins : LoginFits(l)' /\ TokenFits(l)'
      /\ \A j \in Requests : LinkFits(j)' /\ RequestFits(j)'
  BY <1>1 DEF IInv, LoginFits, TokenFits, LinkFits, RequestFits, Of, Live
<1>4. Promises'
  BY <1>1 DEF IInv, Promises, CurrentCredentials, PasswordlessEnds, LoggedOut
<1> QED BY <1>2, <1>3, <1>4 DEF IInv

LEMMA NextInv == IInv /\ [Next]_vars => IInv'
<1> SUFFICES ASSUME IInv, [Next]_vars PROVE IInv'
  OBVIOUS
<1>1. CASE AccountsNext /\ UNCHANGED sessionVars
  BY <1>1, AccountsInv
<1>2. ASSUME NEW l \in Logins, ReadUser(l) \/ Verify(l) \/ Match(l) \/ Accept(l) \/ Issue(l)
      PROVE  IInv'
  BY <1>2, ReadUserInv, VerifyInv, MatchInv, AcceptInv, IssueInv
<1>3. ASSUME NEW r \in Requests,
             \/ Present(r) \/ CheckRevoked(r) \/ CheckUser(r) \/ Sign(r)
             \/ Finish(r) \/ Cleanup(r) \/ Revoke(r) \/ Fetch(r)
      PROVE  IInv'
  BY <1>3, PresentInv, CheckRevokedInv, CheckUserInv, SignInv, FinishInv, CleanupInv, RevokeInv,
     FetchInv
<1>4. CASE UNCHANGED vars
  BY <1>4, StutterInv
<1> QED BY <1>1, <1>2, <1>3, <1>4 DEF Next

-----------------------------------------------------------------------------
\* The strengthening above is an invariant of every execution.
THEOREM Invariant == Spec => []IInv
BY InitInv, NextInv, PTL DEF Spec

\* authenticate_user and stream_file accept a token or a link only while the
\* credentials it was given for are the account's, through every change that
\* the consoles make and every login that was under way meanwhile.
THEOREM CredentialsAreCurrent == Spec => []CurrentCredentials
<1>1. IInv => CurrentCredentials
  BY DEF IInv, Promises
<1> QED BY <1>1, Invariant, PTL

\* A passwordless session is not accepted once its right is taken away.
THEOREM PasswordlessSessionsEnd == Spec => []PasswordlessEnds
<1>1. IInv => PasswordlessEnds
  BY DEF IInv, Promises
<1> QED BY <1>1, Invariant, PTL

\* A token whose logout has been answered is not accepted until it expires,
\* although every other logout clears the table of expired rows.
THEOREM LogoutHolds == Spec => []LoggedOut
<1>1. IInv => LoggedOut
  BY DEF IInv, Promises
<1> QED BY <1>1, Invariant, PTL

\* The compare-and-set of last_otp_step lets each TOTP code open one session,
\* and the code that enrolled a secret none.
THEOREM CodesOpenOnce == Spec => []OtpOnce
<1>1. ASSUME IInv PROVE OtpOnce
  <2>1. ASSUME NEW l \in Logins, token[l] # None, token[l].otp # 0, Accepts(token[l])
        PROVE  /\ token[l].step \in Int /\ Spent(l, token[l].step) /\ token[l].otp = row.otp
               /\ row.otp \in 1 .. Len(secrets)
    <3>1. token[l] \in Token /\ TokenFits(l) /\ RowFits
      BY <1>1, <2>1 DEF IInv, TypeOK
    <3>2. Live(token[l].id, token[l].ts) /\ row \in User /\ row # None
      BY <1>1, <2>1 DEF IInv, TypeOK, AccountsTypeOK, Accepts, Live
    <3>3. token[l].otp = row.otp /\ row.otp \in Nat /\ Len(secrets) \in Nat
      BY <1>1, <2>1, <3>1, <3>2 DEF TokenFits, User, IInv, TypeOK, AccountsTypeOK
    <3> QED BY <2>1, <3>1, <3>2, <3>3 DEF Spent, Token, RowFits
  <2>2. ASSUME NEW l \in Logins, token[l] # None, token[l].otp # 0, Accepts(token[l])
        PROVE  token[l].step # secrets[token[l].otp]
    <3>1. secrets[row.otp] < token[l].step /\ secrets[row.otp] \in Int
      BY <1>1, <2>1, <2>2 DEF IInv, StepsFit, TypeOK, AccountsTypeOK
    <3> QED BY <2>1, <2>2, <3>1
  <2>3. ASSUME NEW l \in Logins, token[l] # None, token[l].otp # 0, Accepts(token[l]),
               NEW k \in Logins \ {l}, token[k] # None, token[k].otp = token[l].otp,
               Accepts(token[k])
        PROVE  token[k].step # token[l].step
    <3>1. /\ Spent(l, token[l].step) /\ token[l].step \in Int
          /\ Spent(k, token[k].step)
      BY <2>1, <2>3
    <3> QED BY <1>1, <3>1 DEF IInv, StepsFit
  <2> QED BY <2>2, <2>3 DEF OtpOnce
<1> QED BY <1>1, Invariant, PTL
=============================================================================
