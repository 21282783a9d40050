------------------------------ MODULE StartUp ------------------------------
(***************************************************************************)
(* Starting the program: config.json (Config::load_or_create) and the      *)
(* database (init_db).  The server and the consoles are processes that     *)
(* share one data directory; each does all of this whenever it starts, and *)
(* takes no lock.  A system call or an SQL statement is a step, at which   *)
(* the process may be killed or fail for an outside reason.                *)
(*                                                                         *)
(* The database is what the start looks at: user_version, the tables with  *)
(* all their columns (whole) or not (old), the index that allows a single  *)
(* administrator, and three kinds of row: the administrator admin, an      *)
(* administrator of another name, and a user named admin who is none.      *)
(***************************************************************************)
EXTENDS Integers, FiniteSets, Sequences

CONSTANTS
  Processes,
  Absent,    \* there is no config.json
  Partial,   \* it has been created, and is empty or half written
  Found,     \* the secret of a config.json from an earlier installation
  MaxDeaths  \* bound: processes killed, or stopped by an outside failure

ASSUME StartAssumption ==
  /\ {Absent, Partial, Found} \cap Processes = {}
  /\ Absent # Partial /\ Absent # Found /\ Partial # Found
  /\ MaxDeaths \in Nat

VARIABLES
  config,  \* config.json: Absent, Partial, or the secret in it
  db,      \* the database
  proc,    \* the processes
  served,  \* history: a process has come as far as running
  deaths   \* how many have died

vars == <<config, db, proc, served, deaths>>

CURRENT_SCHEMA_VERSION == 1

Tables     == <<"users", "login_attempts", "revoked_tokens">>
Statements == Append(Tables, "users_single_admin")
TableNames == {Tables[n] : n \in DOMAIN Tables}
Admins     == {"admin", "other"}

\* A secret is named for the process that made it up; Absent stands for none.
\* later tells whether the process began when another had already run.
Off == [at |-> "off", n |-> 1, version |-> 0, secret |-> Absent, later |-> FALSE]

Go(p, to)  == proc' = [proc EXCEPT ![p].at = to, ![p].n = 1]
Fail(p)    == proc' = [proc EXCEPT ![p].at = "failed"]
At(p, at)  == proc[p].at = at

-----------------------------------------------------------------------------
(***************************************************************************)
(* load_or_create.                                                         *)
(***************************************************************************)

Start(p) ==
  /\ proc[p].at \in {"off", "failed"}
  /\ proc' = [proc EXCEPT ![p] = [Off EXCEPT !.at = "find", !.later = served]]
  /\ UNCHANGED <<config, db, served, deaths>>

FindConfig(p) ==
  /\ At(p, "find")
  /\ Go(p, IF config = Absent THEN "create" ELSE "read")
  /\ UNCHANGED <<config, db, served, deaths>>

ReadConfig(p) ==
  /\ At(p, "read")
  /\ IF config = Partial
     THEN Fail(p)
     ELSE proc' = [proc EXCEPT ![p].at = "version", ![p].secret = config]
  /\ UNCHANGED <<config, db, served, deaths>>

\* Mutant: a file that has appeared is truncated.
CreateConfigOver(p) ==
  /\ At(p, "create")
  /\ config' = Partial /\ Go(p, "write")
  /\ UNCHANGED <<db, served, deaths>>

\* create_new
CreateConfig(p) ==
  /\ At(p, "create")
  /\ IF config = Absent THEN config' = Partial /\ Go(p, "write")
                        ELSE Fail(p) /\ UNCHANGED config
  /\ UNCHANGED <<db, served, deaths>>

WriteConfig(p) ==
  /\ At(p, "write")
  /\ config' = p
  /\ proc' = [proc EXCEPT ![p].at = "version", ![p].secret = p]
  /\ UNCHANGED <<db, served, deaths>>

-----------------------------------------------------------------------------
(***************************************************************************)
(* init_schema.                                                            *)
(***************************************************************************)

ReadVersion(p) ==
  /\ At(p, "version")
  /\ IF db.version > CURRENT_SCHEMA_VERSION
     THEN Fail(p)
     ELSE proc' = [proc EXCEPT ![p].at = IF db.version = 0 THEN "tables" ELSE "make",
                               ![p].version = db.version]
  /\ UNCHANGED <<config, db, served, deaths>>

\* Mutant: an empty database is validated, too.
HasTablesAlways == TRUE
HasTables == \E t \in TableNames : db.tables[t] # "none"

LookForTables(p) ==
  /\ At(p, "tables")
  /\ Go(p, IF HasTables THEN "validate" ELSE "make")
  /\ UNCHANGED <<config, db, served, deaths>>

\* Mutant: the tables after the first are not looked at.
ValidateUsersOnly(p) ==
  /\ At(p, "validate")
  /\ IF db.tables[Tables[1]] = "whole" THEN Go(p, "make") ELSE Fail(p)
  /\ UNCHANGED <<config, db, served, deaths>>

ValidateTable(p) ==
  LET n == proc[p].n IN
  /\ At(p, "validate")
  /\ \/ db.tables[Tables[n]] # "whole" /\ Fail(p)
     \/ db.tables[Tables[n]] = "whole" /\ n = Len(Tables) /\ Go(p, "make")
     \/ db.tables[Tables[n]] = "whole" /\ n < Len(Tables) /\ proc' = [proc EXCEPT ![p].n = n + 1]
  /\ UNCHANGED <<config, db, served, deaths>>

\* The index cannot be made over two administrators.
Breaks(n) == Statements[n] = "users_single_admin" /\ ~db.index /\ Admins \subseteq db.rows

\* CREATE ... IF NOT EXISTS
Made(n) ==
  IF Statements[n] \in TableNames
  THEN [db EXCEPT !.tables[Statements[n]] = IF @ = "none" THEN "whole" ELSE @]
  ELSE [db EXCEPT !.index = TRUE]

AfterMake(p) == IF proc[p].version < CURRENT_SCHEMA_VERSION THEN "stamp" ELSE "admins"

Make(p) ==
  LET n == proc[p].n IN
  /\ At(p, "make")
  /\ IF Breaks(n) THEN Fail(p) /\ UNCHANGED db
     ELSE /\ db' = Made(n)
          /\ IF n = Len(Statements) THEN Go(p, AfterMake(p)) ELSE proc' = [proc EXCEPT ![p].n = n + 1]
  /\ UNCHANGED <<config, served, deaths>>

RecordVersion(p) ==
  /\ At(p, "stamp")
  /\ db' = [db EXCEPT !.version = CURRENT_SCHEMA_VERSION]
  /\ Go(p, "admins")
  /\ UNCHANGED <<config, served, deaths>>

-----------------------------------------------------------------------------
(***************************************************************************)
(* validate_admin_invariants, a query a step, and seed_admin.              *)
(***************************************************************************)

\* Mutant: an administrator of any name will do.
InvalidAdminsNever == {}
InvalidAdmins == db.rows \cap {"other"}

CountInvalid(p) ==
  /\ At(p, "admins")
  /\ proc' = [proc EXCEPT ![p].at = "count", ![p].n = Cardinality(InvalidAdmins)]
  /\ UNCHANGED <<config, db, served, deaths>>

CountAdmins(p) ==
  /\ At(p, "count")
  /\ \/ (proc[p].n > 0 \/ Cardinality(db.rows \cap Admins) > 1) /\ Fail(p)
     \/ proc[p].n = 0 /\ Cardinality(db.rows \cap Admins) = 1 /\ Go(p, "seed")
     \/ proc[p].n = 0 /\ db.rows \cap Admins = {} /\ Go(p, "named")
  /\ UNCHANGED <<config, db, served, deaths>>

\* It may find the administrator another process has made since.
LookForName(p) ==
  /\ At(p, "named")
  /\ IF db.rows \cap {"admin", "named"} # {} THEN Fail(p) ELSE Go(p, "seed")
  /\ UNCHANGED <<config, db, served, deaths>>

\* Mutant: the administrator is inserted at every start.
NeedsAdminAlways == TRUE
NeedsAdmin == db.rows \cap Admins = {}

Seed(p) ==
  /\ At(p, "seed")
  /\ IF NeedsAdmin THEN Go(p, "insert") /\ UNCHANGED served
                   ELSE Go(p, "run") /\ served' = TRUE
  /\ UNCHANGED <<config, db, deaths>>

InsertAdmin(p) ==
  /\ At(p, "insert")
  /\ IF db.rows \cap {"admin", "named"} # {} \/ (db.index /\ "other" \in db.rows)
     THEN Fail(p) /\ UNCHANGED <<db, served>>
     ELSE /\ db' = [db EXCEPT !.rows = @ \cup {"admin"}]
          /\ Go(p, "run") /\ served' = TRUE
  /\ UNCHANGED <<config, deaths>>

-----------------------------------------------------------------------------
\* The server is stopped, the console left: nothing of this is undone.
Stop(p) ==
  /\ At(p, "run")
  /\ proc' = [proc EXCEPT ![p] = Off]
  /\ UNCHANGED <<config, db, served, deaths>>

Dies(p) ==
  /\ proc[p].at \notin {"off", "failed"}
  /\ deaths < MaxDeaths
  /\ deaths' = deaths + 1
  /\ proc' = [proc EXCEPT ![p] = Off]
  /\ UNCHANGED <<config, db, served>>

\* A directory that is new, or has a database the program did not version.
Rows == {r \in SUBSET {"admin", "other", "named"} : ~({"admin", "named"} \subseteq r)}

Databases ==
  {d \in [version : {0, CURRENT_SCHEMA_VERSION + 1}, tables : [TableNames -> {"none", "old", "whole"}],
          index : BOOLEAN, rows : Rows] :
     /\ d.tables["users"] # "whole" => d.rows = {} /\ ~d.index
     /\ d.index => ~(Admins \subseteq d.rows)
     /\ d.version # 0 => \A t \in TableNames : d.tables[t] = "whole"
     \* Some tables whole and the others missing is what a death leaves (HalfMade).
     /\ \/ \E t \in TableNames : d.tables[t] = "old"
        \/ \A t, u \in TableNames : d.tables[t] = d.tables[u]}

Init ==
  /\ config \in {Absent, Found}
  /\ db \in Databases
  /\ proc = [p \in Processes |-> Off]
  /\ served = FALSE /\ deaths = 0

Step(p) ==
  \/ FindConfig(p) \/ ReadConfig(p) \/ CreateConfig(p) \/ WriteConfig(p)
  \/ ReadVersion(p) \/ LookForTables(p) \/ ValidateTable(p) \/ Make(p) \/ RecordVersion(p)
  \/ CountInvalid(p) \/ CountAdmins(p) \/ LookForName(p) \/ Seed(p) \/ InsertAdmin(p)

Next == \E p \in Processes : Start(p) \/ Step(p) \/ Stop(p) \/ Dies(p)

\* Processes run, and are started again by a service manager or a person.
Fairness == \A p \in Processes : WF_vars(Start(p)) /\ WF_vars(Step(p))

Spec == Init /\ [][Next]_vars /\ Fairness
-----------------------------------------------------------------------------
(***************************************************************************)
(* Properties.                                                             *)
(***************************************************************************)

\* All processes have the same JWT secret, and it is the one in config.json:
\* of two that find no file, one makes it and the other one gives up.
OneSecret == \A p \in Processes : proc[p].secret # Absent => config = proc[p].secret

Whole == /\ \A t \in TableNames : db.tables[t] = "whole"
         /\ db.index

\* A process runs on a whole database whose one administrator is admin.
RunsWithOneAdmin ==
  \A p \in Processes : At(p, "run") => Whole /\ db.rows = {"admin"}

\* A database with a table that lacks columns, or of a newer version, is left
\* as it is.
Foreign == \/ \E t \in TableNames : db.tables[t] = "old"
           \/ db.version > CURRENT_SCHEMA_VERSION
ForeignUntouched == [][Foreign => UNCHANGED db]_vars

\* Once the program has run, no start is refused: a process fails only if it
\* began before, beside the one that came first.
StartsAgain == \A p \in Processes : At(p, "failed") => ~proc[p].later

\* The program comes to run, but for what is wrong with the database it was
\* given, and for a death that leaves half a config.json or some of the tables:
\* those every later start refuses.
BadRows    == db.rows \cap {"other", "named"} # {}
HalfMade   == \/ config = Partial
              \/ db.version = 0 /\ HasTables /\ \E t \in TableNames : db.tables[t] = "none"
ComesToRun == <>[](served \/ Foreign \/ BadRows \/ (deaths > 0 /\ HalfMade))
=============================================================================
