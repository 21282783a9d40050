---------------------------- MODULE StartUpProof ----------------------------
(***************************************************************************)
(* What StartUp promises, for any number of processes and deaths.  The     *)
(* invariant says what a process may rely on at each of its steps (Fits):  *)
(* what it has checked or made once stays so, because the other processes  *)
(* only ever add to config.json and to the database (Grows).               *)
(***************************************************************************)
EXTENDS StartUp, FiniteSetTheorems, TLAPS

Secrets == Processes \cup {Found}

\* The steps of init_db and seed_admin after those that are named.
Seeding    == {"named", "seed", "insert", "run"}
Validating == {"admins", "count"} \cup Seeding
Making     == {"make", "stamp"} \cup Validating
Opening    == {"tables", "validate"} \cup Making
Places     == {"off", "find", "read", "create", "write", "version", "failed"} \cup Opening

Database == [version : {0, 1, 2}, tables : [TableNames -> {"none", "old", "whole"}],
             index : BOOLEAN, rows : SUBSET {"admin", "other", "named"}]
Process  == [at : Places, n : Nat, version : {0, 1}, secret : Secrets \cup {Absent},
             later : BOOLEAN]

Types ==
  /\ config \in Secrets \cup {Absent, Partial}
  /\ db \in Database
  /\ proc \in [Processes -> Process]
  /\ served \in BOOLEAN

WholeBelow(n) == \A m \in 1..3 : m < n => db.tables[Tables[m]] = "whole"

ConfigFits(q) ==
  /\ q.at \in {"find", "read", "create", "write", "version"} => q.n = 1
  /\ q.at = "read" => config # Absent
  /\ q.at = "write" => config = Partial
  /\ q.secret # Absent => config = q.secret
  /\ q.at \in {"version"} \cup Opening => q.secret # Absent

TablesFit(q) ==
  /\ q.at \in Opening => db.version # 2
  /\ q.at \in {"tables", "validate"} => q.version = 0
  /\ q.at = "validate" => q.n \in 1..3 /\ WholeBelow(q.n)
  /\ q.at \in Making => \A t \in TableNames : db.tables[t] # "old"
  /\ q.at = "make" => q.n \in 1..4 /\ WholeBelow(q.n) /\ (q.version = 1 => db.version = 1)
  /\ q.at \in {"stamp"} \cup Validating => Whole
  /\ q.at \in Validating => db.version = 1

RowsFit(q) ==
  /\ q.at \in Seeding \/ (q.at = "count" /\ q.n = 0) => "other" \notin db.rows
  /\ q.at = "run" => db.rows = {"admin"}

\* A process that starts after another has run meets no step that may fail.
LaterFits(q) ==
  q.later => /\ served
             /\ q.at \notin {"create", "write", "tables", "validate", "stamp",
                             "named", "insert", "failed"}
             /\ q.at = "make" => q.version = 1
             /\ q.at = "count" => q.n = 0

Fits(q) == ConfigFits(q) /\ TablesFit(q) /\ RowsFit(q) /\ LaterFits(q)

DatabaseFits ==
  /\ db.version = 1 => Whole
  /\ db.index => ~(Admins \subseteq db.rows)
  /\ ~({"admin", "named"} \subseteq db.rows)

ServedFits ==
  served => config \in Secrets /\ db.version = 1 /\ db.rows = {"admin"}

OneWrites == \A p, r \in Processes : At(p, "write") /\ At(r, "write") => p = r

IInv ==
  /\ Types
  /\ \A p \in Processes : Fits(proc[p])
  /\ OneWrites /\ DatabaseFits /\ ServedFits

-----------------------------------------------------------------------------
(***************************************************************************)
(* A step of p makes a new record of it, and only adds to what the others  *)
(* rely on.                                                                *)
(***************************************************************************)

Becomes(p, q) == proc' = [proc EXCEPT ![p] = q]

Grows ==
  /\ config' = config \/ config \in {Absent, Partial}
  /\ config # Absent => config' # Absent
  /\ db.version # 2 => db'.version # 2
  /\ db.version = 1 => db'.version = 1
  /\ \A t \in TableNames : /\ db.tables[t] = "whole" => db'.tables[t] = "whole"
                           /\ db.tables[t] # "old" => db'.tables[t] # "old"
  /\ db.index => db'.index
  /\ "other" \notin db.rows => "other" \notin db'.rows
  /\ db.rows = {"admin"} => db'.rows = {"admin"}
  /\ served => served'

LEMMA TablesAre == TableNames = {"users", "login_attempts", "revoked_tokens"}
                   /\ Tables[1] = "users" /\ Tables[2] = "login_attempts"
                   /\ Tables[3] = "revoked_tokens"
                   /\ Len(Tables) = 3 /\ Len(Statements) = 4
                   /\ Statements[4] = "users_single_admin"
                   /\ \A n \in 1..3 : Statements[n] = Tables[n]
                   /\ DOMAIN Tables = 1..3
<1>1. DOMAIN Tables = 1..3
  BY DEF Tables
<1>2. TableNames = {Tables[1], Tables[2], Tables[3]}
  BY <1>1 DEF TableNames
<1> QED
  BY <1>1, <1>2 DEF Tables, Statements

\* What stands for another process, r, when a step of p only adds.
LEMMA Frame ==
  ASSUME Types, NEW q, Fits(q), Grows,
         q \in Process,
         q.at = "write" => config' = config
  PROVE  Fits(q)'
<1>1. ConfigFits(q)'
  <2>1. q.secret # Absent => config \notin {Absent, Partial}
    BY StartAssumption DEF Fits, ConfigFits, Process, Secrets
  <2> QED
    BY <2>1, StartAssumption DEF Fits, ConfigFits, Grows
<1>2. TablesFit(q)'
  <2>1. Whole => Whole'
    BY DEF Whole, Grows
  <2>2. \A n : WholeBelow(n) => WholeBelow(n)'
    BY TablesAre DEF WholeBelow, Grows
  <2> QED
    BY <2>1, <2>2 DEF Fits, TablesFit, Grows
<1>3. RowsFit(q)'
  BY DEF Fits, RowsFit, Grows
<1>4. LaterFits(q)'
  BY DEF Fits, LaterFits, Grows
<1> QED
  BY <1>1, <1>2, <1>3, <1>4 DEF Fits

\* So it is enough to say what the step of p does.
LEMMA Advance ==
  ASSUME IInv, NEW p \in Processes, NEW q \in Process, Becomes(p, q),
         config' \in Secrets \cup {Absent, Partial}, db' \in Database, served' \in BOOLEAN,
         Grows, Fits(q)', DatabaseFits', ServedFits',
         config' # config => \A r \in Processes : r # p => ~At(r, "write"),
         q.at = "write" => \A r \in Processes : r # p => ~At(r, "write")
  PROVE  IInv'
<1>1. proc' \in [Processes -> Process] /\ proc'[p] = q
      /\ \A r \in Processes : r # p => proc'[r] = proc[r]
  BY DEF IInv, Types, Becomes
<1>2. Types'
  BY <1>1 DEF Types
<1>3. ASSUME NEW r \in Processes PROVE Fits(proc[r])'
  <2>1. CASE r = p
    BY <1>1, <2>1 DEF Fits, ConfigFits, TablesFit, RowsFit, LaterFits, WholeBelow, Whole
  <2>2. CASE r # p
    <3>1. PICK y \in Process : y = proc[r]
      BY DEF IInv, Types
    <3>2. Fits(y) /\ (y.at = "write" => config' = config) /\ Types
      BY <2>2, <3>1 DEF IInv, At
    <3>3. Fits(y)'
      BY <3>2, Frame
    <3> QED
      BY <1>1, <2>2, <3>1, <3>3 DEF Fits, ConfigFits, TablesFit, RowsFit, LaterFits, WholeBelow, Whole
  <2> QED
    BY <2>1, <2>2
<1>4. OneWrites'
  BY <1>1 DEF OneWrites, IInv, At
<1> QED
  BY <1>2, <1>3, <1>4 DEF IInv

\* The record of p after a step, but for what the step sets.
Keeps(p, q) ==
  q.version = proc[p].version /\ q.secret = proc[p].secret /\ q.later = proc[p].later

LEMMA GoSets ==
  ASSUME Types, NEW p \in Processes, NEW to \in Places, Go(p, to)
  PROVE  \E q \in Process : Becomes(p, q) /\ Keeps(p, q) /\ q.at = to /\ q.n = 1
<1> DEFINE q == [[proc[p] EXCEPT !.at = to] EXCEPT !.n = 1]
<1>1. proc[p] \in Process
  BY DEF Types
<1>2. proc' = [proc EXCEPT ![p] = q]
  BY <1>1 DEF Go, Types
<1>3. [proc[p] EXCEPT !.at = to] \in Process
  BY <1>1 DEF Process
<1>4. q \in Process /\ Keeps(p, q) /\ q.at = to /\ q.n = 1
  BY <1>1 DEF Process, Keeps
<1> HIDE DEF q
<1> QED
  BY <1>2, <1>4 DEF Becomes

LEMMA FailSets ==
  ASSUME Types, NEW p \in Processes, Fail(p)
  PROVE  \E q \in Process : Becomes(p, q) /\ Keeps(p, q) /\ q.at = "failed"
<1> DEFINE q == [proc[p] EXCEPT !.at = "failed"]
<1>1. proc[p] \in Process
  BY DEF Types
<1>2. proc' = [proc EXCEPT ![p] = q]
  BY <1>1 DEF Fail, Types
<1>3. q \in Process /\ Keeps(p, q) /\ q.at = "failed"
  BY <1>1 DEF Process, Keeps, Places
<1> HIDE DEF q
<1> QED
  BY <1>2, <1>3 DEF Becomes

LEMMA CountSets ==
  ASSUME Types, NEW p \in Processes, NEW n \in Nat, proc' = [proc EXCEPT ![p].n = n]
  PROVE  \E q \in Process : Becomes(p, q) /\ Keeps(p, q) /\ q.at = proc[p].at /\ q.n = n
<1> DEFINE q == [proc[p] EXCEPT !.n = n]
<1>1. proc[p] \in Process
  BY DEF Types
<1>2. proc' = [proc EXCEPT ![p] = q]
  BY <1>1 DEF Types
<1>3. q \in Process /\ Keeps(p, q) /\ q.at = proc[p].at /\ q.n = n
  BY <1>1 DEF Process, Keeps
<1> HIDE DEF q
<1> QED
  BY <1>2, <1>3 DEF Becomes

\* Nothing but the process changes.
LEMMA Alone ==
  ASSUME IInv, NEW p \in Processes, NEW q \in Process, Becomes(p, q),
         UNCHANGED <<config, db, served>>, Fits(q),
         q.at = "write" => At(p, "write")
  PROVE  IInv'
<1>1. Grows
  BY DEF Grows
<1>2. Fits(q)' /\ DatabaseFits' /\ ServedFits'
  BY DEF Fits, ConfigFits, TablesFit, RowsFit, LaterFits, WholeBelow, Whole, IInv,
         DatabaseFits, ServedFits
<1>3. q.at = "write" => \A r \in Processes : r # p => ~At(r, "write")
  BY DEF IInv, OneWrites
<1> QED
  BY <1>1, <1>2, <1>3, Advance DEF IInv, Types

-----------------------------------------------------------------------------
LEMMA StartInv == ASSUME IInv, NEW p \in Processes, Start(p) PROVE IInv'
<1> DEFINE q == [[Off EXCEPT !.at = "find"] EXCEPT !.later = served]
<1>1. proc' = [proc EXCEPT ![p] = q]
  BY DEF Start
<1>2. /\ q \in Process /\ q.at = "find" /\ q.n = 1 /\ q.version = 0
      /\ q.secret = Absent /\ q.later = served
  <2> DEFINE f == [Off EXCEPT !.at = "find"]
  <2>1. Off \in Process
    BY DEF Off, Process, Places
  <2>2. /\ f \in Process /\ f.at = "find" /\ f.n = Off.n /\ f.version = Off.version
        /\ f.secret = Off.secret
    BY <2>1 DEF Process, Places
  <2> HIDE DEF f
  <2>3. /\ [f EXCEPT !.later = served] \in Process
        /\ [f EXCEPT !.later = served].at = f.at
        /\ [f EXCEPT !.later = served].n = f.n
        /\ [f EXCEPT !.later = served].version = f.version
        /\ [f EXCEPT !.later = served].secret = f.secret
        /\ [f EXCEPT !.later = served].later = served
    BY <2>2 DEF Process, IInv, Types
  <2>4. Off.n = 1 /\ Off.version = 0 /\ Off.secret = Absent
    BY DEF Off
  <2>5. q = [f EXCEPT !.later = served]
    BY DEF f
  <2> QED
    BY <2>2, <2>3, <2>4, <2>5
<1> HIDE DEF q
<1>4. Fits(q)
  <2>1. ConfigFits(q) /\ TablesFit(q) /\ RowsFit(q)
    BY <1>2 DEF ConfigFits, TablesFit, RowsFit, Opening, Making, Validating, Seeding
  <2>2. LaterFits(q)
    BY <1>2 DEF LaterFits
  <2> QED
    BY <2>1, <2>2 DEF Fits
<1> QED
  BY <1>1, <1>2, <1>4, Alone DEF Start, Becomes

LEMMA FindConfigInv == ASSUME IInv, NEW p \in Processes, FindConfig(p) PROVE IInv'
<1> DEFINE to == IF config = Absent THEN "create" ELSE "read"
<1>1. to \in Places
  BY DEF Places
<1>2. PICK q \in Process : Becomes(p, q) /\ Keeps(p, q) /\ q.at = to /\ q.n = 1
  BY <1>1, GoSets DEF FindConfig, IInv
<1>3. Fits(proc[p]) /\ proc[p].at = "find"
  BY DEF IInv, FindConfig, At
<1>4. Fits(q)
  <2>1. ConfigFits(q) /\ TablesFit(q) /\ RowsFit(q)
    BY <1>2, <1>3 DEF Fits, ConfigFits, TablesFit, RowsFit, Keeps, Opening, Making, Validating, Seeding
  <2>2. LaterFits(q)
    BY <1>2, <1>3, StartAssumption DEF Fits, LaterFits, Keeps, IInv, ServedFits, Secrets
  <2> QED
    BY <2>1, <2>2 DEF Fits
<1> QED
  BY <1>2, <1>4, Alone DEF FindConfig

LEMMA ReadConfigInv == ASSUME IInv, NEW p \in Processes, ReadConfig(p) PROVE IInv'
<1>1. Fits(proc[p]) /\ proc[p].at = "read" /\ proc[p] \in Process
  BY DEF IInv, Types, ReadConfig, At
<1>2. CASE config = Partial
  <2>1. PICK q \in Process : Becomes(p, q) /\ Keeps(p, q) /\ q.at = "failed"
    BY <1>2, FailSets DEF ReadConfig, IInv
  <2>2. proc[p].later = FALSE
    BY <1>1, <1>2, StartAssumption DEF Process, Fits, LaterFits, IInv, ServedFits, Secrets
  <2>3. Fits(q)
    BY <1>1, <2>1, <2>2 DEF Fits, ConfigFits, TablesFit, RowsFit, LaterFits, Keeps,
       Opening, Making, Validating, Seeding
  <2> QED
    BY <2>1, <2>3, Alone DEF ReadConfig
<1>3. CASE config # Partial
  <2> DEFINE q == [[proc[p] EXCEPT !.at = "version"] EXCEPT !.secret = config]
  <2>1. proc' = [proc EXCEPT ![p] = q]
    BY <1>1, <1>3 DEF ReadConfig, IInv, Types
  <2>2. [proc[p] EXCEPT !.at = "version"] \in Process
    BY <1>1 DEF Process, Places
  <2>3. /\ q \in Process /\ q.at = "version" /\ q.secret = config /\ q.n = proc[p].n
        /\ q.later = proc[p].later
    BY <1>1, <1>3, <2>2 DEF Process, Places, IInv, Types
  <2> HIDE DEF q
  <2>4. Fits(q)
    BY <1>1, <2>3 DEF Fits, ConfigFits, TablesFit, RowsFit, LaterFits,
       Opening, Making, Validating, Seeding
  <2> QED
    BY <2>1, <2>3, <2>4, Alone DEF ReadConfig, Becomes
<1> QED
  BY <1>2, <1>3

LEMMA CreateConfigInv == ASSUME IInv, NEW p \in Processes, CreateConfig(p) PROVE IInv'
<1>1. /\ Fits(proc[p]) /\ proc[p].at = "create" /\ proc[p] \in Process
      /\ proc[p].later = FALSE
  BY DEF IInv, Types, Process, CreateConfig, At, Fits, LaterFits
<1>2. CASE config # Absent
  <2>1. PICK q \in Process : Becomes(p, q) /\ Keeps(p, q) /\ q.at = "failed"
    BY <1>2, FailSets DEF CreateConfig, IInv
  <2>2. Fits(q)
    BY <1>1, <2>1 DEF Fits, ConfigFits, TablesFit, RowsFit, LaterFits, Keeps,
       Opening, Making, Validating, Seeding
  <2> QED
    BY <1>2, <2>1, <2>2, Alone DEF CreateConfig
<1>3. CASE config = Absent
  <2>1. PICK q \in Process : Becomes(p, q) /\ Keeps(p, q) /\ q.at = "write" /\ q.n = 1
    BY <1>3, GoSets DEF CreateConfig, IInv, Places
  <2>2. config' = Partial /\ UNCHANGED <<db, served>>
    BY <1>3 DEF CreateConfig
  <2>3. served = FALSE
    BY <1>3, StartAssumption DEF IInv, Types, ServedFits, Secrets
  <2>4. Grows
    BY <1>3, <2>2 DEF Grows
  <2>5. q.secret = Absent
    BY <1>1, <1>3, <2>1 DEF Keeps, Fits, ConfigFits
  <2>6. Fits(q)'
    BY <1>1, <2>1, <2>2, <2>5 DEF Fits, ConfigFits, TablesFit, RowsFit, LaterFits, Keeps,
       Opening, Making, Validating, Seeding
  <2>7. DatabaseFits' /\ ServedFits'
    BY <2>2, <2>3 DEF IInv, DatabaseFits, ServedFits, Whole
  <2>8. \A r \in Processes : ~At(r, "write")
    BY <1>3, StartAssumption DEF IInv, Fits, ConfigFits, At
  <2> QED
    BY <2>1, <2>2, <2>4, <2>6, <2>7, <2>8, Advance DEF IInv, Types
<1> QED
  BY <1>2, <1>3

LEMMA WriteConfigInv == ASSUME IInv, NEW p \in Processes, WriteConfig(p) PROVE IInv'
<1>1. /\ Fits(proc[p]) /\ proc[p].at = "write" /\ proc[p] \in Process
      /\ proc[p].later = FALSE /\ config = Partial /\ config' = p
      /\ UNCHANGED <<db, served>>
  BY DEF IInv, Types, Process, WriteConfig, At, Fits, LaterFits, ConfigFits
<1>2. PICK q \in Process : /\ Becomes(p, q) /\ q.at = "version" /\ q.secret = p
                           /\ q.n = proc[p].n /\ q.later = proc[p].later
  <2> DEFINE x == [[proc[p] EXCEPT !.at = "version"] EXCEPT !.secret = p]
  <2>1. proc' = [proc EXCEPT ![p] = x]
    BY <1>1 DEF WriteConfig, IInv, Types
  <2>2. [proc[p] EXCEPT !.at = "version"] \in Process
    BY <1>1 DEF Process, Places
  <2>3. /\ x \in Process /\ x.at = "version" /\ x.secret = p /\ x.n = proc[p].n
        /\ x.later = proc[p].later
    BY <1>1, <2>2 DEF Process, Places, IInv, Types, Secrets
  <2> HIDE DEF x
  <2> QED
    BY <2>1, <2>3 DEF Becomes
<1>5. served = FALSE
  BY <1>1, StartAssumption DEF IInv, Types, ServedFits, Secrets
<1>6. Grows
  <2>1. Partial # Absent /\ p # Absent
    BY StartAssumption
  <2> QED
    BY <1>1, <2>1 DEF Grows
<1>7. Fits(q)'
  BY <1>1, <1>2, StartAssumption DEF Fits, ConfigFits, TablesFit, RowsFit, LaterFits,
     Opening, Making, Validating, Seeding
<1>8. DatabaseFits' /\ ServedFits'
  BY <1>1, <1>5 DEF IInv, DatabaseFits, ServedFits, Whole
<1>9. \A r \in Processes : r # p => ~At(r, "write")
  BY <1>1 DEF IInv, OneWrites, At
<1> QED
  BY <1>1, <1>2, <1>6, <1>7, <1>8, <1>9, Advance DEF IInv, Types, Secrets

-----------------------------------------------------------------------------
LEMMA ReadVersionInv == ASSUME IInv, NEW p \in Processes, ReadVersion(p) PROVE IInv'
<1>1. Fits(proc[p]) /\ proc[p].at = "version" /\ proc[p] \in Process
  BY DEF IInv, Types, ReadVersion, At
<1>2. db.version \in {0, 1, 2}
  BY DEF IInv, Types, Database
<1>3. CASE db.version = 2
  <2>1. PICK q \in Process : Becomes(p, q) /\ Keeps(p, q) /\ q.at = "failed"
    BY <1>3, FailSets DEF ReadVersion, IInv, CURRENT_SCHEMA_VERSION
  <2>2. proc[p].later = FALSE
    BY <1>1, <1>3 DEF Process, Fits, LaterFits, IInv, ServedFits
  <2>3. Fits(q)
    BY <1>1, <2>1, <2>2 DEF Fits, ConfigFits, TablesFit, RowsFit, LaterFits, Keeps,
       Opening, Making, Validating, Seeding
  <2> QED
    BY <2>1, <2>3, Alone DEF ReadVersion
<1>4. CASE db.version \in {0, 1}
  <2> DEFINE to == IF db.version = 0 THEN "tables" ELSE "make"
             f  == [proc[p] EXCEPT !.at = to]
             q  == [f EXCEPT !.version = db.version]
  <2>1. /\ f \in Process /\ f.at = to /\ f.secret = proc[p].secret /\ f.later = proc[p].later
        /\ f.n = proc[p].n
    BY <1>1 DEF Process, Places, Opening, Making
  <2>2. proc' = [proc EXCEPT ![p] = q]
    <3>1. ~(db.version > CURRENT_SCHEMA_VERSION)
      BY <1>4 DEF CURRENT_SCHEMA_VERSION
    <3>2. proc' = [proc EXCEPT ![p].at = to, ![p].version = db.version]
      BY <3>1 DEF ReadVersion
    <3> QED
      BY <3>2
  <2> HIDE DEF f
  <2>3. /\ q \in Process /\ q.at = to /\ q.version = db.version
        /\ q.secret = proc[p].secret /\ q.later = proc[p].later /\ q.n = proc[p].n
    BY <1>4, <2>1 DEF Process
  <2> HIDE DEF q
  <2>4. ConfigFits(q)
    BY <1>1, <2>3 DEF Fits, ConfigFits
  <2>5. TablesFit(q)
    <3>1. db.version = 1 => \A t \in TableNames : db.tables[t] # "old"
      BY DEF IInv, DatabaseFits, Whole
    <3>2. WholeBelow(1)
      BY DEF WholeBelow
    <3>3. q.n = 1
      BY <1>1, <2>3 DEF Fits, ConfigFits
    <3> QED
      BY <1>4, <2>3, <3>1, <3>2, <3>3 DEF TablesFit, Opening, Making, Validating, Seeding
  <2>6. RowsFit(q)
    BY <2>3 DEF RowsFit, Seeding
  <2>7. LaterFits(q)
    BY <1>1, <1>4, <2>3 DEF Fits, LaterFits, IInv, ServedFits
  <2> QED
    BY <2>2, <2>3, <2>4, <2>5, <2>6, <2>7, Alone DEF ReadVersion, Becomes, Fits
<1> QED
  BY <1>2, <1>3, <1>4

LEMMA LookForTablesInv == ASSUME IInv, NEW p \in Processes, LookForTables(p) PROVE IInv'
<1>1. Fits(proc[p]) /\ proc[p].at = "tables" /\ proc[p] \in Process
  BY DEF IInv, Types, LookForTables, At
<1> DEFINE to == IF HasTables THEN "validate" ELSE "make"
<1>2. to \in Places
  BY DEF Places, Opening, Making
<1>3. PICK q \in Process : Becomes(p, q) /\ Keeps(p, q) /\ q.at = to /\ q.n = 1
  BY <1>2, GoSets DEF LookForTables, IInv
<1>4. ~HasTables => \A t \in TableNames : db.tables[t] # "old"
  BY DEF HasTables
<1>5. proc[p].version = 0
  BY <1>1 DEF Fits, TablesFit
<1>6. WholeBelow(1)
  BY DEF WholeBelow
<1>7. ConfigFits(q) /\ RowsFit(q) /\ LaterFits(q)
  BY <1>1, <1>3 DEF Fits, ConfigFits, RowsFit, LaterFits, Keeps, Opening, Making, Seeding
<1>8. TablesFit(q)
  BY <1>1, <1>3, <1>4, <1>5, <1>6 DEF Fits, TablesFit, Keeps, Opening, Making, Validating, Seeding
<1> QED
  BY <1>3, <1>7, <1>8, Alone DEF LookForTables, Fits

LEMMA ValidateTableInv == ASSUME IInv, NEW p \in Processes, ValidateTable(p) PROVE IInv'
<1>1. /\ Fits(proc[p]) /\ proc[p].at = "validate" /\ proc[p] \in Process
      /\ proc[p].later = FALSE /\ proc[p].version = 0 /\ proc[p].n \in 1..3
      /\ WholeBelow(proc[p].n)
  BY DEF IInv, Types, Process, ValidateTable, At, Fits, LaterFits, TablesFit
<1> DEFINE n == proc[p].n
<1>2. CASE Fail(p)
  <2>1. PICK q \in Process : Becomes(p, q) /\ Keeps(p, q) /\ q.at = "failed"
    BY <1>2, FailSets DEF IInv
  <2>2. Fits(q)
    BY <1>1, <2>1 DEF Fits, ConfigFits, TablesFit, RowsFit, LaterFits, Keeps,
       Opening, Making, Validating, Seeding
  <2> QED
    BY <2>1, <2>2, Alone DEF ValidateTable
<1>3. CASE db.tables[Tables[n]] = "whole" /\ n = Len(Tables) /\ Go(p, "make")
  <2>1. PICK q \in Process : Becomes(p, q) /\ Keeps(p, q) /\ q.at = "make" /\ q.n = 1
    BY <1>3, GoSets DEF IInv, Places, Opening, Making
  <2>2. \A t \in TableNames : db.tables[t] # "old"
    BY <1>1, <1>3, TablesAre DEF WholeBelow
  <2>3. WholeBelow(1)
    BY DEF WholeBelow
  <2>4. Fits(q)
    BY <1>1, <2>1, <2>2, <2>3 DEF Fits, ConfigFits, TablesFit, RowsFit, LaterFits, Keeps,
       Opening, Making, Validating, Seeding
  <2> QED
    BY <2>1, <2>4, Alone DEF ValidateTable
<1>4. CASE /\ db.tables[Tables[n]] = "whole" /\ n < Len(Tables)
           /\ proc' = [proc EXCEPT ![p].n = n + 1]
  <2>1. PICK q \in Process : Becomes(p, q) /\ Keeps(p, q) /\ q.at = proc[p].at /\ q.n = n + 1
    <3>1. n + 1 \in Nat /\ Types
      BY <1>1 DEF IInv
    <3> QED
      BY <1>4, <3>1, CountSets
  <2>2. WholeBelow(n + 1) /\ n + 1 \in 1..3
    BY <1>1, <1>4, TablesAre DEF WholeBelow
  <2>3. Fits(q)
    BY <1>1, <2>1, <2>2 DEF Fits, ConfigFits, TablesFit, RowsFit, LaterFits, Keeps,
       Opening, Making, Validating, Seeding
  <2> QED
    BY <1>1, <2>1, <2>3, Alone DEF ValidateTable
<1> QED
  BY <1>2, <1>3, <1>4 DEF ValidateTable

\* Making a table or the index only adds to the database.
LEMMA MadeGrows ==
  ASSUME IInv, NEW n \in 1..4, db' = Made(n), ~Breaks(n), UNCHANGED <<config, served>>,
         WholeBelow(n), \A t \in TableNames : db.tables[t] # "old"
  PROVE  /\ Grows /\ db' \in Database /\ DatabaseFits' /\ ServedFits'
         /\ WholeBelow(n + 1)'
         /\ n = 4 => Whole'
         /\ \A t \in TableNames : db'.tables[t] # "old"
         /\ db'.version = db.version /\ db'.rows = db.rows
<1>1. CASE n \in 1..3
  <2> DEFINE t == Tables[n]
             f == [db.tables EXCEPT ![t] = IF @ = "none" THEN "whole" ELSE @]
  <2>1. t \in TableNames /\ Statements[n] = t
    BY <1>1, TablesAre
  <2>2. db' = [db EXCEPT !.tables = f]
    BY <2>1 DEF Made, IInv, Types, Database
  <2>3. f \in [TableNames -> {"none", "old", "whole"}]
    BY DEF IInv, Types, Database
  <2>4. /\ \A u \in TableNames : /\ db.tables[u] = "whole" => f[u] = "whole"
                                 /\ db.tables[u] # "old" => f[u] # "old"
        /\ f[t] = "whole"
    BY <2>1 DEF IInv, Types, Database
  <2> HIDE DEF f
  <2>5. /\ db' \in Database /\ db'.tables = f /\ db'.version = db.version
        /\ db'.index = db.index /\ db'.rows = db.rows
    BY <2>2, <2>3 DEF IInv, Types, Database
  <2>9. db.index => db'.index
    BY <2>5, Zenon
  <2>6. Grows
    BY <2>4, <2>5, <2>9 DEF Grows
  <2>7. Whole => Whole'
    BY <2>4, <2>5, <2>9 DEF Whole
  <2>8. DatabaseFits' /\ ServedFits'
    BY <2>5, <2>7 DEF DatabaseFits, ServedFits, IInv
  <2>10. \A u \in TableNames : db'.tables[u] # "old"
    BY <2>4, <2>5
  <2>11. WholeBelow(n + 1)'
    BY <1>1, <2>4, <2>5, TablesAre DEF WholeBelow
  <2> QED
    BY <1>1, <2>5, <2>6, <2>8, <2>10, <2>11
<1>2. CASE n = 4
  <2>1. Statements[n] = "users_single_admin" /\ Statements[n] \notin TableNames
    BY <1>2, TablesAre
  <2>2. db' = [db EXCEPT !.index = TRUE]
    BY <2>1 DEF Made
  <2>3. /\ db' \in Database /\ db'.tables = db.tables /\ db'.version = db.version
        /\ db'.index /\ db'.rows = db.rows
    BY <2>2 DEF IInv, Types, Database
  <2>4. Grows
    BY <2>3 DEF Grows
  <2>5. Whole'
    BY <1>2, <2>3, TablesAre DEF Whole, WholeBelow
  <2>6. DatabaseFits' /\ ServedFits'
    BY <2>1, <2>3, <2>5 DEF DatabaseFits, ServedFits, IInv, Breaks
  <2> QED
    BY <1>2, <2>3, <2>4, <2>5, <2>6 DEF WholeBelow
<1> QED
  BY <1>1, <1>2

LEMMA MakeInv == ASSUME IInv, NEW p \in Processes, Make(p) PROVE IInv'
<1>. PICK n \in Nat : n = proc[p].n
  BY DEF IInv, Types, Process
<1>1. /\ Fits(proc[p]) /\ proc[p].at = "make" /\ proc[p] \in Process
      /\ n \in 1..4 /\ n = proc[p].n /\ WholeBelow(n) /\ proc[p].version \in {0, 1}
      /\ proc[p].version = 1 => db.version = 1
      /\ \A t \in TableNames : db.tables[t] # "old"
      /\ db.version # 2 /\ UNCHANGED <<config, served>>
  BY DEF IInv, Types, Process, Make, At, Fits, TablesFit, Opening, Making
<1>2. CASE Breaks(n)
  <2>1. PICK q \in Process : Becomes(p, q) /\ Keeps(p, q) /\ q.at = "failed"
    BY <1>2, FailSets DEF Make, IInv
  <2>2. ~proc[p].later
    BY <1>1, <1>2 DEF Fits, LaterFits, IInv, DatabaseFits, Whole, Breaks
  <2>3. Fits(q)
    <3>1. ~q.later
      BY <2>1, <2>2 DEF Keeps
    <3>2. ConfigFits(q) /\ TablesFit(q) /\ RowsFit(q)
      BY <1>1, <2>1 DEF Fits, ConfigFits, TablesFit, RowsFit, Keeps,
         Opening, Making, Validating, Seeding
    <3> QED
      BY <3>1, <3>2 DEF Fits, LaterFits
  <2> QED
    BY <1>2, <2>1, <2>3, Alone DEF Make
<1>3. CASE ~Breaks(n)
  <2>1. db' = Made(n)
    BY <1>3 DEF Make
  <2> DEFINE NoOld == \A t \in TableNames : db.tables[t] # "old"
  <2>2. /\ Grows /\ db' \in Database /\ DatabaseFits' /\ ServedFits'
        /\ WholeBelow(n + 1)' /\ (n = 4 => Whole') /\ NoOld'
        /\ db'.version = db.version /\ db'.rows = db.rows
    BY <1>1, <1>3, <2>1, MadeGrows
  <2>3. CASE n # Len(Statements)
    <3>1. n + 1 \in Nat /\ n + 1 \in 1..4 /\ Types
      BY <1>1, <2>3, TablesAre DEF IInv
    <3>2. proc' = [proc EXCEPT ![p].n = n + 1]
      BY <1>3, <2>3 DEF Make
    <3>3. PICK q \in Process : /\ Becomes(p, q) /\ Keeps(p, q)
                               /\ q.at = proc[p].at /\ q.n = n + 1
      BY <3>1, <3>2, CountSets
    <3>4. WholeBelow(q.n)'
      BY <2>2, <3>3
    <3>5. Fits(q)'
      BY <1>1, <2>2, <3>1, <3>3, <3>4 DEF Fits, ConfigFits, TablesFit, RowsFit, LaterFits, Keeps,
         Opening, Making, Validating, Seeding
    <3> QED
      BY <1>1, <2>2, <3>3, <3>5, Advance DEF IInv, Types
  <2>4. CASE n = Len(Statements)
    <3>1. AfterMake(p) = (IF proc[p].version = 0 THEN "stamp" ELSE "admins")
      BY <1>1 DEF AfterMake, CURRENT_SCHEMA_VERSION
    <3>2. Go(p, AfterMake(p)) /\ AfterMake(p) \in Places /\ Types
      BY <1>3, <2>4, <3>1 DEF Make, Places, Opening, Making, Validating, IInv
    <3>3. PICK q \in Process : /\ Becomes(p, q) /\ Keeps(p, q)
                               /\ q.at = AfterMake(p) /\ q.n = 1
      BY <3>2, GoSets
    <3>4. Whole'
      BY <2>2, <2>4, TablesAre
    <3>5. ConfigFits(q)' /\ TablesFit(q)'
      BY <1>1, <2>2, <3>1, <3>3, <3>4 DEF Fits, ConfigFits, TablesFit, Keeps,
         Opening, Making, Validating, Seeding
    <3>6. RowsFit(q)' /\ LaterFits(q)'
      BY <1>1, <3>1, <3>3 DEF Fits, RowsFit, LaterFits, Keeps, Seeding
    <3> QED
      BY <1>1, <2>2, <3>1, <3>3, <3>5, <3>6, Advance DEF IInv, Types, Fits
  <2> QED
    BY <2>3, <2>4
<1> QED
  BY <1>2, <1>3

LEMMA RecordVersionInv == ASSUME IInv, NEW p \in Processes, RecordVersion(p) PROVE IInv'
<1>1. /\ Fits(proc[p]) /\ proc[p].at = "stamp" /\ Whole /\ db.version # 2
      /\ UNCHANGED <<config, served>> /\ proc[p].later = FALSE
  BY DEF IInv, Types, Process, RecordVersion, At, Fits, TablesFit, LaterFits, Opening, Making
<1>2. PICK q \in Process : Becomes(p, q) /\ Keeps(p, q) /\ q.at = "admins" /\ q.n = 1
  BY GoSets DEF RecordVersion, IInv, Places, Opening, Making, Validating
<1>3. /\ db' \in Database /\ db'.tables = db.tables /\ db'.version = 1
      /\ db'.index = db.index /\ db'.rows = db.rows
  BY DEF RecordVersion, IInv, Types, Database, CURRENT_SCHEMA_VERSION
<1>4. db.index <=> db'.index
  BY <1>3, Zenon
<1>5. Grows
  BY <1>1, <1>3, <1>4 DEF Grows
<1>6. Whole'
  BY <1>1, <1>3, <1>4 DEF Whole
<1>7. DatabaseFits' /\ ServedFits'
  BY <1>1, <1>3, <1>4, <1>6 DEF DatabaseFits, ServedFits, IInv
<1>8. Fits(q)'
  BY <1>1, <1>2, <1>3, <1>6 DEF Fits, ConfigFits, TablesFit, RowsFit, LaterFits, Keeps,
     Opening, Making, Validating, Seeding, Whole
<1> QED
  BY <1>1, <1>2, <1>3, <1>5, <1>7, <1>8, Advance DEF IInv, Types

-----------------------------------------------------------------------------
\* A count is zero when nothing is counted, and one for admin alone.
LEMMA Counts ==
  ASSUME Types
  PROVE  /\ Cardinality(InvalidAdmins) \in Nat
         /\ Cardinality(InvalidAdmins) = 0 <=> "other" \notin db.rows
         /\ db.rows = {"admin"} => Cardinality(db.rows \cap Admins) = 1
<1>1. IsFiniteSet({"other"}) /\ InvalidAdmins \in SUBSET {"other"}
  BY FS_Singleton DEF InvalidAdmins
<1>2. IsFiniteSet(InvalidAdmins)
  BY <1>1, FS_Subset
<1>3. Cardinality(InvalidAdmins) \in Nat
  BY <1>2, FS_CardinalityType
<1>4. Cardinality(InvalidAdmins) = 0 <=> InvalidAdmins = {}
  BY <1>2, FS_EmptySet
<1>5. InvalidAdmins = {} <=> "other" \notin db.rows
  BY DEF InvalidAdmins
<1>6. ASSUME db.rows = {"admin"} PROVE Cardinality(db.rows \cap Admins) = 1
  <2>1. db.rows \cap Admins = {"admin"}
    BY <1>6 DEF Admins
  <2> QED
    BY <2>1, FS_Singleton
<1> QED
  BY <1>3, <1>4, <1>5, <1>6

LEMMA CountInvalidInv == ASSUME IInv, NEW p \in Processes, CountInvalid(p) PROVE IInv'
<1>1. Fits(proc[p]) /\ proc[p].at = "admins" /\ proc[p] \in Process /\ Types
  BY DEF IInv, Types, CountInvalid, At
<1> DEFINE c == Cardinality(InvalidAdmins)
<1>2. c \in Nat /\ (c = 0 <=> "other" \notin db.rows)
  BY <1>1, Counts
<1> HIDE DEF c
<1>3. PICK q \in Process : /\ Becomes(p, q) /\ Keeps(p, q) /\ q.at = "count" /\ q.n = c
  <2> DEFINE f == [proc[p] EXCEPT !.at = "count"]
             x == [f EXCEPT !.n = c]
  <2>1. proc' = [proc EXCEPT ![p] = x]
    BY DEF CountInvalid, c
  <2>2. f \in Process /\ f.at = "count" /\ Keeps(p, f)
    BY <1>1 DEF Process, Places, Opening, Making, Validating, Keeps
  <2> HIDE DEF f
  <2>3. x \in Process /\ x.at = "count" /\ x.n = c /\ Keeps(p, x)
    BY <1>2, <2>2 DEF Process, Keeps
  <2> HIDE DEF x
  <2> QED
    BY <2>1, <2>3 DEF Becomes
<1>4. ConfigFits(q) /\ TablesFit(q)
  BY <1>1, <1>3 DEF Fits, ConfigFits, TablesFit, Keeps, Opening, Making, Validating, Seeding
<1>5. RowsFit(q) /\ LaterFits(q)
  BY <1>1, <1>2, <1>3 DEF Fits, RowsFit, LaterFits, Keeps, Seeding, IInv, ServedFits
<1> QED
  BY <1>3, <1>4, <1>5, Alone DEF CountInvalid, Fits

LEMMA CountAdminsInv == ASSUME IInv, NEW p \in Processes, CountAdmins(p) PROVE IInv'
<1>1. Fits(proc[p]) /\ proc[p].at = "count" /\ proc[p] \in Process /\ Types
  BY DEF IInv, Types, CountAdmins, At
<1>2. CASE (proc[p].n > 0 \/ Cardinality(db.rows \cap Admins) > 1) /\ Fail(p)
  <2>1. PICK q \in Process : Becomes(p, q) /\ Keeps(p, q) /\ q.at = "failed"
    BY <1>1, <1>2, FailSets
  <2>2. ~proc[p].later
    BY <1>1, <1>2, Counts DEF Fits, LaterFits, IInv, ServedFits
  <2>3. ConfigFits(q) /\ TablesFit(q) /\ RowsFit(q)
    BY <1>1, <2>1 DEF Fits, ConfigFits, TablesFit, RowsFit, Keeps,
       Opening, Making, Validating, Seeding
  <2>4. LaterFits(q)
    BY <2>1, <2>2 DEF LaterFits, Keeps
  <2> QED
    BY <2>1, <2>3, <2>4, Alone DEF CountAdmins, Fits
<1>3. CASE proc[p].n = 0 /\ Cardinality(db.rows \cap Admins) = 1 /\ Go(p, "seed")
  <2>1. PICK q \in Process : Becomes(p, q) /\ Keeps(p, q) /\ q.at = "seed" /\ q.n = 1
    BY <1>1, <1>3, GoSets DEF Places, Opening, Making, Validating, Seeding
  <2>2. Fits(q)
    BY <1>1, <1>3, <2>1 DEF Fits, ConfigFits, TablesFit, RowsFit, LaterFits, Keeps,
       Opening, Making, Validating, Seeding
  <2> QED
    BY <2>1, <2>2, Alone DEF CountAdmins
<1>4. CASE proc[p].n = 0 /\ db.rows \cap Admins = {} /\ Go(p, "named")
  <2>1. PICK q \in Process : Becomes(p, q) /\ Keeps(p, q) /\ q.at = "named" /\ q.n = 1
    BY <1>1, <1>4, GoSets DEF Places, Opening, Making, Validating, Seeding
  <2>2. ~proc[p].later
    BY <1>1, <1>4 DEF Fits, LaterFits, IInv, ServedFits, Admins
  <2>3. ConfigFits(q) /\ TablesFit(q) /\ RowsFit(q)
    BY <1>1, <1>4, <2>1 DEF Fits, ConfigFits, TablesFit, RowsFit, Keeps,
       Opening, Making, Validating, Seeding
  <2>4. LaterFits(q)
    BY <2>1, <2>2 DEF LaterFits, Keeps
  <2> QED
    BY <2>1, <2>3, <2>4, Alone DEF CountAdmins, Fits
<1> QED
  BY <1>2, <1>3, <1>4 DEF CountAdmins

LEMMA LookForNameInv == ASSUME IInv, NEW p \in Processes, LookForName(p) PROVE IInv'
<1>1. /\ Fits(proc[p]) /\ proc[p].at = "named" /\ proc[p] \in Process /\ Types
      /\ ~proc[p].later
  BY DEF IInv, Types, LookForName, At, Fits, LaterFits
<1>2. CASE Fail(p)
  <2>1. PICK q \in Process : Becomes(p, q) /\ Keeps(p, q) /\ q.at = "failed"
    BY <1>1, <1>2, FailSets
  <2>2. ConfigFits(q) /\ TablesFit(q) /\ RowsFit(q)
    BY <1>1, <2>1 DEF Fits, ConfigFits, TablesFit, RowsFit, Keeps,
       Opening, Making, Validating, Seeding
  <2>3. LaterFits(q)
    BY <1>1, <2>1 DEF LaterFits, Keeps
  <2> QED
    BY <2>1, <2>2, <2>3, Alone DEF LookForName, Fits
<1>3. CASE Go(p, "seed")
  <2>1. PICK q \in Process : Becomes(p, q) /\ Keeps(p, q) /\ q.at = "seed" /\ q.n = 1
    BY <1>1, <1>3, GoSets DEF Places, Opening, Making, Validating, Seeding
  <2>2. ConfigFits(q) /\ TablesFit(q) /\ RowsFit(q)
    BY <1>1, <2>1 DEF Fits, ConfigFits, TablesFit, RowsFit, Keeps,
       Opening, Making, Validating, Seeding
  <2>3. LaterFits(q)
    BY <1>1, <2>1 DEF LaterFits, Keeps
  <2> QED
    BY <2>1, <2>2, <2>3, Alone DEF LookForName, Fits
<1> QED
  BY <1>2, <1>3 DEF LookForName

\* What the rows are to a process that has counted them.
LEMMA OnlyAdmin ==
  ASSUME Types, DatabaseFits, "other" \notin db.rows, "admin" \in db.rows
  PROVE  db.rows = {"admin"}
BY DEF Types, Database, DatabaseFits

LEMMA SeedInv == ASSUME IInv, NEW p \in Processes, Seed(p) PROVE IInv'
<1>1. /\ Fits(proc[p]) /\ proc[p].at = "seed" /\ proc[p] \in Process /\ Types
      /\ "other" \notin db.rows /\ DatabaseFits /\ db.version = 1 /\ Whole
      /\ proc[p].secret \in Secrets /\ config = proc[p].secret
  BY DEF IInv, Types, Seed, At, Fits, RowsFit, TablesFit, ConfigFits, Process,
     Opening, Making, Validating, Seeding
<1>2. CASE NeedsAdmin
  <2>1. PICK q \in Process : Becomes(p, q) /\ Keeps(p, q) /\ q.at = "insert" /\ q.n = 1
    BY <1>1, <1>2, GoSets DEF Seed, Places, Opening, Making, Validating, Seeding
  <2>2. ~proc[p].later
    BY <1>1, <1>2 DEF Fits, LaterFits, IInv, ServedFits, NeedsAdmin, Admins
  <2>3. ConfigFits(q) /\ TablesFit(q) /\ RowsFit(q)
    BY <1>1, <2>1 DEF Fits, ConfigFits, TablesFit, RowsFit, Keeps,
       Opening, Making, Validating, Seeding
  <2>4. LaterFits(q)
    BY <2>1, <2>2 DEF LaterFits, Keeps
  <2> QED
    BY <1>2, <2>1, <2>3, <2>4, Alone DEF Seed, Fits
<1>3. CASE ~NeedsAdmin
  <2>1. PICK q \in Process : Becomes(p, q) /\ Keeps(p, q) /\ q.at = "run" /\ q.n = 1
    BY <1>1, <1>3, GoSets DEF Seed, Places, Opening, Making, Validating, Seeding
  <2>2. db.rows = {"admin"}
    BY <1>1, <1>3, OnlyAdmin DEF NeedsAdmin, Admins
  <2>3. UNCHANGED <<config, db>> /\ served' = TRUE
    BY <1>3 DEF Seed
  <2>4. Grows
    BY <2>3 DEF Grows
  <2>5. DatabaseFits' /\ ServedFits'
    BY <1>1, <2>2, <2>3 DEF DatabaseFits, ServedFits, Whole
  <2>6. Fits(q)'
    BY <1>1, <2>1, <2>2, <2>3 DEF Fits, ConfigFits, TablesFit, RowsFit, LaterFits, Keeps,
       Opening, Making, Validating, Seeding, Whole
  <2> QED
    BY <1>1, <2>1, <2>3, <2>4, <2>5, <2>6, Advance DEF Types
<1> QED
  BY <1>2, <1>3

LEMMA InsertAdminInv == ASSUME IInv, NEW p \in Processes, InsertAdmin(p) PROVE IInv'
<1>1. /\ Fits(proc[p]) /\ proc[p].at = "insert" /\ proc[p] \in Process /\ Types
      /\ "other" \notin db.rows /\ DatabaseFits /\ db.version = 1 /\ Whole
      /\ proc[p].secret \in Secrets /\ config = proc[p].secret
      /\ ~proc[p].later
  BY DEF IInv, Types, InsertAdmin, At, Fits, RowsFit, TablesFit, ConfigFits, LaterFits, Process,
     Opening, Making, Validating, Seeding
<1> DEFINE refused == \/ db.rows \cap {"admin", "named"} # {}
                      \/ db.index /\ "other" \in db.rows
<1>2. CASE refused
  <2>1. PICK q \in Process : Becomes(p, q) /\ Keeps(p, q) /\ q.at = "failed"
    BY <1>1, <1>2, FailSets DEF InsertAdmin
  <2>2. ConfigFits(q) /\ TablesFit(q) /\ RowsFit(q)
    BY <1>1, <2>1 DEF Fits, ConfigFits, TablesFit, RowsFit, Keeps,
       Opening, Making, Validating, Seeding
  <2>3. LaterFits(q)
    BY <1>1, <2>1 DEF LaterFits, Keeps
  <2> QED
    BY <1>2, <2>1, <2>2, <2>3, Alone DEF InsertAdmin, Fits
<1>3. CASE ~refused
  <2>1. PICK q \in Process : Becomes(p, q) /\ Keeps(p, q) /\ q.at = "run" /\ q.n = 1
    BY <1>1, <1>3, GoSets DEF InsertAdmin, Places, Opening, Making, Validating, Seeding
  <2>2. /\ config' = config /\ served' = TRUE
        /\ db' = [db EXCEPT !.rows = @ \cup {"admin"}]
    BY <1>3 DEF InsertAdmin
  <2>3. /\ db' \in Database /\ db'.tables = db.tables /\ db'.version = 1
        /\ db'.index = db.index /\ db'.rows = db.rows \cup {"admin"}
    BY <1>1, <2>2 DEF Types, Database
  <2>4. db.index <=> db'.index
    BY <2>3, Zenon
  <2>5. db'.rows = {"admin"}
    BY <1>1, <1>3, <2>3 DEF Types, Database
  <2>6. Grows
    BY <1>1, <2>2, <2>3, <2>4, <2>5 DEF Grows
  <2>7. Whole'
    BY <1>1, <2>3, <2>4 DEF Whole
  <2>8. DatabaseFits' /\ ServedFits'
    BY <1>1, <2>2, <2>3, <2>5, <2>7 DEF DatabaseFits, ServedFits, Admins
  <2>9. Fits(q)'
    BY <1>1, <2>1, <2>2, <2>3, <2>5, <2>7 DEF Fits, ConfigFits, TablesFit, RowsFit, LaterFits,
       Keeps, Opening, Making, Validating, Seeding, Whole
  <2> QED
    BY <1>1, <2>1, <2>2, <2>3, <2>6, <2>8, <2>9, Advance DEF Types
<1> QED
  BY <1>2, <1>3

\* A process that stops, or dies, holds nothing any more.
LEMMA EndsInv ==
  ASSUME IInv, NEW p \in Processes, proc' = [proc EXCEPT ![p] = Off],
         UNCHANGED <<config, db, served>>
  PROVE  IInv'
<1>1. Off \in Process /\ Off.at = "off" /\ Off.secret = Absent /\ Off.later = FALSE
  BY DEF Off, Process, Places
<1>2. Fits(Off)
  BY <1>1 DEF Fits, ConfigFits, TablesFit, RowsFit, LaterFits, Opening, Making, Validating, Seeding
<1> QED
  BY <1>1, <1>2, Alone DEF Becomes

LEMMA InitInv == Init => IInv
<1> SUFFICES ASSUME Init PROVE IInv
  OBVIOUS
<1>1. Off \in Process /\ Off.at = "off" /\ Off.secret = Absent /\ Off.later = FALSE
  BY DEF Off, Process, Places
<1>2. \A p \in Processes : proc[p] = Off
  BY DEF Init
<1>3. Fits(Off)
  BY <1>1 DEF Fits, ConfigFits, TablesFit, RowsFit, LaterFits, Opening, Making, Validating, Seeding
<1>4. Types
  <2>1. db \in Database
    <3>1. CURRENT_SCHEMA_VERSION + 1 = 2
      BY DEF CURRENT_SCHEMA_VERSION
    <3>2. db \in [version : {0, 2}, tables : [TableNames -> {"none", "old", "whole"}],
                  index : BOOLEAN, rows : Rows]
      BY <3>1 DEF Init, Databases
    <3> QED
      BY <3>2 DEF Database, Rows
  <2>2. proc \in [Processes -> Process]
    BY <1>1 DEF Init
  <2> QED
    BY <2>1, <2>2 DEF Init, Types, Secrets
<1>5. DatabaseFits
  BY DEF Init, Databases, Rows, DatabaseFits, CURRENT_SCHEMA_VERSION
<1> QED
  BY <1>1, <1>2, <1>3, <1>4, <1>5 DEF Init, IInv, OneWrites, ServedFits, At

LEMMA NextInv == IInv /\ [Next]_vars => IInv'
<1> SUFFICES ASSUME IInv, [Next]_vars PROVE IInv'
  OBVIOUS
<1>1. ASSUME NEW p \in Processes, Start(p) \/ Step(p) \/ Stop(p) \/ Dies(p) PROVE IInv'
  <2>1. CASE Start(p)
    BY <2>1, StartInv
  <2>2. CASE Step(p)
    BY <2>2, FindConfigInv, ReadConfigInv, CreateConfigInv, WriteConfigInv, ReadVersionInv,
       LookForTablesInv, ValidateTableInv, MakeInv, RecordVersionInv, CountInvalidInv,
       CountAdminsInv, LookForNameInv, SeedInv, InsertAdminInv DEF Step
  <2>3. CASE Stop(p) \/ Dies(p)
    BY <2>3, EndsInv DEF Stop, Dies
  <2> QED
    BY <1>1, <2>1, <2>2, <2>3
<1>2. CASE UNCHANGED vars
  BY <1>2 DEF vars, IInv, Types, Fits, ConfigFits, TablesFit, RowsFit, LaterFits, WholeBelow,
     Whole, OneWrites, DatabaseFits, ServedFits, At
<1> QED
  BY <1>1, <1>2 DEF Next

-----------------------------------------------------------------------------
(***************************************************************************)
(* The theorems.                                                           *)
(***************************************************************************)

\* The server and any number of consoles that start beside each other, and die
\* at any step of Config::load_or_create, never hold two JWT secrets.
THEOREM SecretIsOne == Spec => []OneSecret
<1>1. IInv => OneSecret
  BY DEF IInv, Fits, ConfigFits, OneSecret
<1> QED
  BY <1>1, InitInv, NextInv, PTL DEF Spec

\* Whatever database init_db and seed_admin were given, a process that runs has
\* every table, the index and one administrator, admin.
THEOREM AdminIsOne == Spec => []RunsWithOneAdmin
<1>1. IInv => RunsWithOneAdmin
  BY DEF IInv, Fits, TablesFit, RowsFit, RunsWithOneAdmin, At, Opening, Making, Validating, Seeding
<1> QED
  BY <1>1, InitInv, NextInv, PTL DEF Spec

\* No start is refused any more once the program has come to run: each check of
\* load_or_create, init_schema and validate_admin_invariants holds from then on.
THEOREM KeepsStarting == Spec => []StartsAgain
<1>1. IInv => StartsAgain
  BY DEF IInv, Fits, LaterFits, StartsAgain, At
<1> QED
  BY <1>1, InitInv, NextInv, PTL DEF Spec

\* init_schema changes nothing in a database that has an old table or a newer
\* version: all it looks at, it looks at before its first statement.
THEOREM LeavesForeign == Spec => ForeignUntouched
<1>1. ASSUME IInv, Foreign, Next PROVE UNCHANGED db
  <2>1. PICK p \in Processes : Start(p) \/ Step(p) \/ Stop(p) \/ Dies(p)
    BY <1>1 DEF Next
  <2>2. proc[p].at \notin Making
    <3>1. Fits(proc[p]) /\ DatabaseFits /\ db.version \in {0, 1, 2}
      BY <1>1 DEF IInv, Types, Database
    <3> QED
      BY <1>1, <3>1 DEF Foreign, Fits, TablesFit, CURRENT_SCHEMA_VERSION, Opening
  <2>3. ~Make(p) /\ ~RecordVersion(p) /\ ~InsertAdmin(p)
    BY <2>2 DEF Make, RecordVersion, InsertAdmin, At, Making, Validating, Seeding
  <2> QED
    BY <2>1, <2>3 DEF Start, Step, Stop, Dies, FindConfig, ReadConfig, CreateConfig, WriteConfig,
       ReadVersion, LookForTables, ValidateTable, CountInvalid, CountAdmins, LookForName, Seed
<1>2. IInv /\ [Next]_vars => [Foreign => UNCHANGED db]_vars
  BY <1>1 DEF vars
<1> QED
  BY <1>2, InitInv, NextInv, PTL DEF Spec, ForeignUntouched
=============================================================================
