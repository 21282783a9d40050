------------------------------ MODULE Sessions ------------------------------
(***************************************************************************)
(* Logging in, being authenticated, logging out and signed links, while    *)
(* the account changes (Accounts) and the clock runs: server/auth.rs,      *)
(* server/security.rs, db/security.rs, sign.rs and stream_file.  A request *)
(* is a task of its own; every query to the database is a step.            *)
(*                                                                         *)
(* Whether a password is right is decided by password_unset alone: the     *)
(* empty password is right when it is set, a person who knows the password *)
(* gives the right one otherwise.                                          *)
(***************************************************************************)
EXTENDS Accounts

CONSTANTS
  Logins,     \* attempts to log in; each may issue a token
  Requests,   \* authenticated requests; each may sign a link
  Lifetime,   \* token_expires_in
  LinkTime,   \* DEFAULT_LIFETIME_SECS of a signed link
  Leeway      \* what jsonwebtoken adds to exp (60 s)

ASSUME TimesAssumption == Lifetime \in Nat /\ LinkTime \in Nat /\ Leeway \in Nat

\* era is history: that of the credentials the token or link was given for.
Token == [id : Nat, ts : Nat, exp : Nat, era : Nat,
          otp : Nat, step : Int, empty : BOOLEAN]
Link  == [id : Nat, ts : Nat, root : Roots, exp : Nat, era : Nat]

VARIABLES
  login,    \* per login: [at, user, era, empty, step]
  token,    \* per login: the token it issued
  revoked,  \* revoked_tokens: per token its expires_at, or -1
  out,      \* history: the tokens whose logout has been answered
  request,  \* per request: [at, token, user, era, late]
  link,     \* per request: the link it signed
  served    \* history: whether what was last accepted was of the current era, was
            \* entitled to a passwordless session if it was one, and was logged out

sessionVars == <<login, token, revoked, out, request, link, served>>
vars == <<accountVars, sessionVars>>

NoLogin   == [at |-> "idle", user |-> None, era |-> 0, empty |-> FALSE, step |-> -1]
NoRequest == [at |-> "idle", token |-> None, user |-> None, late |-> FALSE]
NoServed  == [current |-> TRUE, entitled |-> TRUE, late |-> FALSE]

TypeOK ==
  /\ AccountsTypeOK
  /\ login   \in [Logins -> [at : {"idle", "verify", "match", "accept", "issue", "done"},
                             user : User \cup {None}, era : Nat, empty : BOOLEAN, step : Int]]
  /\ token   \in [Logins -> Token \cup {None}]
  /\ revoked \in [Logins -> Int]
  /\ \A l \in Logins : revoked[l] # -1 => token[l] # None /\ revoked[l] = token[l].exp
  /\ out     \in SUBSET Logins
  /\ request \in [Requests -> [at : {"idle", "revoked", "user", "serving", "cleanup", "revoke"},
                               token : Logins \cup {None}, user : User \cup {None},
                               late : BOOLEAN]]
  /\ link    \in [Requests -> Link \cup {None}]
  /\ served  \in [current : BOOLEAN, entitled : BOOLEAN, late : BOOLEAN]

-----------------------------------------------------------------------------
(***************************************************************************)
(* login_handler                                                           *)
(***************************************************************************)

\* get_user_by_name, and the checks that need no hashing.
ReadUser(l) ==
  /\ login[l].at = "idle"
  /\ row # None /\ ~row.disabled
  /\ \E empty \in BOOLEAN :
       /\ empty => row.allow
       /\ login' = [login EXCEPT ![l] = [at |-> "verify", user |-> row, era |-> era,
                                         empty |-> empty, step |-> -1]]
  /\ UNCHANGED <<accountVars, token, revoked, out, request, link, served>>

\* A refused login leaves nothing but its failure count behind.
Refuse(l) == login' = [login EXCEPT ![l] = NoLogin]

\* verify_password_bounded: it takes its time, and judges the row as read.
Verify(l) ==
  /\ login[l].at = "verify"
  /\ \/ /\ login[l].empty = login[l].user.unset
        /\ login' = [login EXCEPT ![l].at = IF login[l].user.otp = 0 THEN "issue" ELSE "match"]
     \/ Refuse(l)
  /\ UNCHANGED <<accountVars, token, revoked, out, request, link, served>>

Match(l) ==
  /\ login[l].at = "match"
  /\ \/ \E s \in Matching : login' = [login EXCEPT ![l].at = "accept", ![l].step = s]
     \/ Refuse(l)
  /\ UNCHANGED <<accountVars, token, revoked, out, request, link, served>>

\* Mutant: the step is recorded but not compared.
UnusedAlways(u, s) == TRUE

\* UPDATE users SET last_otp_step = s WHERE id = ? AND last_otp_step < s
Unused(u, s) == u.last < s

Accept(l) ==
  LET s == login[l].step IN
  /\ login[l].at = "accept"
  /\ IF row # None /\ row.id = login[l].user.id /\ Unused(row, s)
       THEN /\ row' = [row EXCEPT !.last = s]
            /\ login' = [login EXCEPT ![l].at = "issue"]
       ELSE Refuse(l) /\ UNCHANGED row
  /\ UNCHANGED <<lastId, secrets, view, now, era, token, revoked, out, request, link, served>>

\* generate_jwt on the row as read; then the failures are cleared, and if
\* that fails the token is not sent.
Issue(l) ==
  LET u == login[l].user IN
  /\ login[l].at = "issue"
  /\ \/ /\ token' = [token EXCEPT ![l] = [id |-> u.id, ts |-> u.ts, exp |-> now + Lifetime,
                                          era |-> login[l].era, otp |-> u.otp,
                                          step |-> login[l].step, empty |-> login[l].empty]]
        /\ login' = [login EXCEPT ![l] = [NoLogin EXCEPT !.at = "done"]]
     \/ Refuse(l) /\ UNCHANGED token
  /\ UNCHANGED <<accountVars, revoked, out, request, link, served>>

-----------------------------------------------------------------------------
(***************************************************************************)
(* authenticate_user, logout_handler                                       *)
(***************************************************************************)

\* parse_jwt: the library accepts a token for some time after exp.
Parses(l) == token[l] # None /\ now <= token[l].exp + Leeway

Present(r) ==
  /\ request[r].at = "idle"
  /\ \E l \in Logins, to \in {"revoked", "cleanup"} :
       /\ Parses(l)
       /\ request' = [request EXCEPT ![r] = [at |-> to, token |-> l, user |-> None,
                                             late |-> l \in out]]
  /\ UNCHANGED <<accountVars, login, token, revoked, out, link, served>>

Drop(r) == request' = [request EXCEPT ![r] = NoRequest]

\* Mutant: a token that expires this second is not looked up.
IsRevokedBefore(l) == revoked[l] > now

\* is_token_revoked: expires_at >= now
IsRevoked(l) == revoked[l] >= now

CheckRevoked(r) ==
  LET l == request[r].token IN
  /\ request[r].at = "revoked"
  /\ IF IsRevoked(l) THEN Drop(r)
     ELSE request' = [request EXCEPT ![r].at = "user",
                                     ![r].late = @ /\ now <= token[l].exp]
  /\ UNCHANGED <<accountVars, login, token, revoked, out, link, served>>

Accepts(t) == row # None /\ row.id = t.id /\ ~row.disabled /\ row.ts = t.ts

CheckUser(r) ==
  LET t == token[request[r].token] IN
  /\ request[r].at = "user"
  /\ IF Accepts(t)
       THEN /\ request' = [request EXCEPT ![r].at = "serving", ![r].user = row]
            /\ served'  = [current |-> t.era = era, entitled |-> t.empty => row.unset /\ row.allow,
                           late |-> request[r].late]
       ELSE Drop(r) /\ UNCHANGED served
  /\ UNCHANGED <<accountVars, login, token, revoked, out, link>>

\* signed_url: sign_context of the user authenticated at the start.
Sign(r) ==
  LET u == request[r].user IN
  /\ request[r].at = "serving"
  /\ link' = [link EXCEPT ![r] = [id |-> u.id, ts |-> u.ts, root |-> u.root,
                                  exp |-> now + LinkTime,
                                  era |-> token[request[r].token].era]]
  /\ Drop(r)
  /\ UNCHANGED <<accountVars, login, token, revoked, out, served>>

\* The handler is done, or the request is dropped.
Finish(r) ==
  /\ request[r].at # "idle"
  /\ Drop(r)
  /\ UNCHANGED <<accountVars, login, token, revoked, out, link, served>>

\* cleanup_revoked_tokens, the first statement of revoke_token.
Cleanup(r) ==
  /\ request[r].at = "cleanup"
  /\ revoked' = [l \in Logins |-> IF revoked[l] < now THEN -1 ELSE revoked[l]]
  /\ request' = [request EXCEPT ![r].at = "revoke"]
  /\ UNCHANGED <<accountVars, login, token, out, link, served>>

Expiry(l) == token[l].exp

Revoke(r) ==
  LET l == request[r].token IN
  /\ request[r].at = "revoke"
  /\ revoked' = [revoked EXCEPT ![l] = Expiry(l)]
  /\ out' = out \cup {l}
  /\ Drop(r)
  /\ UNCHANGED <<accountVars, login, token, link, served>>

-----------------------------------------------------------------------------
\* stream_file: the row of uid is read and the signature checked against it.
Fetch(r) ==
  LET k == link[r] IN
  /\ k # None
  /\ now <= k.exp
  /\ row # None /\ row.id = k.id /\ ~row.disabled
  /\ row.ts = k.ts /\ row.root = k.root
  /\ served' = [current |-> k.era = era, entitled |-> TRUE, late |-> FALSE]
  /\ UNCHANGED <<accountVars, login, token, revoked, out, request, link>>

-----------------------------------------------------------------------------
Init ==
  /\ AccountsInit
  /\ login   = [l \in Logins |-> NoLogin]
  /\ token   = [l \in Logins |-> None]
  /\ revoked = [l \in Logins |-> -1]
  /\ out     = {}
  /\ request = [r \in Requests |-> NoRequest]
  /\ link    = [r \in Requests |-> None]
  /\ served  = NoServed

Next ==
  \/ AccountsNext /\ UNCHANGED sessionVars
  \/ \E l \in Logins : ReadUser(l) \/ Verify(l) \/ Match(l) \/ Accept(l) \/ Issue(l)
  \/ \E r \in Requests : \/ Present(r) \/ CheckRevoked(r) \/ CheckUser(r) \/ Sign(r)
                         \/ Finish(r) \/ Cleanup(r) \/ Revoke(r) \/ Fetch(r)

Spec == Init /\ [][Next]_vars

-----------------------------------------------------------------------------
(***************************************************************************)
(* Properties.                                                             *)
(***************************************************************************)

\* A token or a signed link is accepted only while the credentials are those
\* it was given for: a change of the password, of 2FA or of the directory,
\* disabling the account (also if it is enabled again) and deleting it (also
\* if the name is used again) end every session, whichever second they fall
\* in and however long the login that issued the token had been running.
CurrentCredentials == served.current

\* A session opened with the empty password ends with the right to one.
PasswordlessEnds == served.entitled

\* A token whose logout has been answered is not accepted again before it
\* expires.  The row in revoked_tokens is ignored from then on, while the
\* JWT library accepts the token for another Leeway.
LoggedOut == ~served.late

\* Of the sessions that are accepted, no two were opened with the same TOTP
\* code, and none with the code that enrolled the secret.
OtpOnce ==
  \A l \in Logins :
    token[l] # None /\ token[l].otp # 0 /\ Accepts(token[l]) =>
      /\ token[l].step # secrets[token[l].otp]
      /\ \A k \in Logins \ {l} :
           /\ token[k] # None /\ token[k].otp = token[l].otp
           /\ Accepts(token[k])
           => token[k].step # token[l].step
=============================================================================
