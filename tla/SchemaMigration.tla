---------------------------- MODULE SchemaMigration ----------------------------
(***************************************************************************)
(* The PostgreSQL schema under its two keepers: init_db(), which every     *)
(* start of the service calls, and the Alembic commands the documentation  *)
(* names.  A command runs its scripts, statement by statement, in one      *)
(* transaction (alembic/env.py), so that one statement that fails undoes   *)
(* it all.  Of the tables the scripts name, a few stand for the others of  *)
(* their family, with the foreign keys between them.                       *)
(***************************************************************************)
EXTENDS Naturals, Sequences, SequencesExt

VARIABLES
    schema,   \* tables, and what the scripts add to tables that stay
    revision, \* alembic_version: how many of the scripts are applied
    started,  \* the service has started on this database
    outcome   \* of the last command

schemaVars == <<schema, revision, started, outcome>>

(* app/storage/models.py stands behind "experiments" *)
Quality == {"data_contracts", "expectation_suites", "validation_runs", "expectation_results"}
Mapped == {"experiments"} \cup Quality

(* Tables of former releases: users, and MLflow in the same schema *)
Former == {"users", "user_sessions", "review_queues", "review_queue_items"}

References ==
    {<<"expectation_suites", "data_contracts">>, <<"validation_runs", "expectation_suites">>,
     <<"expectation_results", "validation_runs">>, <<"user_sessions", "users">>,
     <<"review_queue_items", "review_queues">>}

Extras == {"columns", "indexes"}

(* Statements *)
Drop(t) == [op |-> "drop", on |-> t]
Create(t) == [op |-> "create", on |-> t]
Add(x) == [op |-> "add", on |-> x]
Undo(x) == [op |-> "remove", on |-> x]

(* op.drop_constraint(None, ...): Alembic cannot name what it should drop *)
DropUnnamed == [op |-> "drop_constraint", on |-> "None"]

(* f0e7573b9c1c *)
InitialUp ==
    << Drop("review_queues"), Drop("expectation_suites"), Drop("review_queue_items"),
       Drop("validation_runs"), Drop("data_contracts"), Drop("expectation_results"),
       Add("indexes") >>

InitialDown ==
    << DropUnnamed, Undo("indexes"), Create("expectation_results"), Create("data_contracts"),
       Create("validation_runs"), Create("review_queue_items"), Create("expectation_suites"),
       Create("review_queues") >>

(* 679ffe033864 *)
LineageUp ==
    << Add("columns"), Drop("expectation_suites"), Drop("users"), Drop("review_queue_items"),
       Drop("user_sessions"), Drop("expectation_results"), Drop("review_queues"),
       Drop("validation_runs"), Drop("data_contracts"), Add("indexes") >>

LineageDown ==
    << DropUnnamed, Undo("indexes"), Create("data_contracts"), Create("validation_runs"),
       Create("review_queues"), Create("expectation_results"), Create("user_sessions"),
       Create("review_queue_items"), Create("users"), Create("expectation_suites"),
       Undo("columns") >>

Ups == <<InitialUp, LineageUp>>
Downs == <<InitialDown, LineageDown>>
Newest == Len(Ups)

-----------------------------------------------------------------------------
(* What PostgreSQL does with a statement; "ok" stays FALSE after an error *)

(* Mutant: a DROP takes the references to its table with it *)
DroppableCascade(s, t) == t \in s.tables

(* No CASCADE: a table another one references cannot be dropped *)
Droppable(s, t) ==
    /\ t \in s.tables
    /\ \A r \in References : r[2] = t => r[1] \notin s.tables

Possible(s, st) ==
    CASE st.op = "drop"   -> Droppable(s, st.on)
      [] st.op = "create" -> st.on \notin s.tables /\
                             \A r \in References : r[1] = st.on => r[2] \in s.tables
      [] st.op = "add"    -> "experiments" \in s.tables /\ st.on \notin s.extras
      [] st.op = "remove" -> st.on \in s.extras
      [] OTHER            -> FALSE

Effect(s, st) ==
    CASE st.op = "drop"   -> [s EXCEPT !.tables = @ \ {st.on}]
      [] st.op = "create" -> [s EXCEPT !.tables = @ \cup {st.on}]
      [] st.op = "add"    -> [s EXCEPT !.extras = @ \cup {st.on}]
      [] OTHER            -> [s EXCEPT !.extras = @ \ {st.on}]

Execute(s, script) ==
    LET Step(run, st) ==
            IF run.ok /\ Possible(run.schema, st)
            THEN [run EXCEPT !.schema = Effect(@, st)] ELSE [run EXCEPT !.ok = FALSE]
    IN FoldLeft(Step, [schema |-> s, ok |-> TRUE], script)

(* begin_transaction(): all of the command, or nothing *)
Command(name, script, target) ==
    LET run == Execute(schema, script)
    IN /\ schema' = IF run.ok THEN run.schema ELSE schema
       /\ revision' = IF run.ok THEN target ELSE revision
       /\ outcome' = [command |-> name, ok |-> run.ok]
       /\ UNCHANGED started

-----------------------------------------------------------------------------
(* An empty database, or one that a former release left: under either      *)
(* revision with the tables its scripts name                               *)
SchemaInit ==
    /\ \/ schema = [tables |-> {}, extras |-> {}] /\ revision = 0
       \/ schema = [tables |-> Mapped \cup Former, extras |-> {}] /\ revision \in {0, 1}
    /\ started = FALSE
    /\ outcome = [command |-> "none", ok |-> TRUE]

(* alembic upgrade head *)
Upgrade ==
    /\ revision < Newest
    /\ Command("upgrade", FlattenSeq(SubSeq(Ups, revision + 1, Newest)), Newest)

(* alembic downgrade -1; before the first revision there is nothing below *)
Downgrade ==
    IF revision = 0
    THEN outcome' = [command |-> "downgrade", ok |-> FALSE] /\ UNCHANGED <<schema, revision, started>>
    ELSE Command("downgrade", Downs[revision], revision - 1)

(* init_db(): create_all() creates the tables that are missing, and leaves *)
(* the ones that are there as they are                                     *)
AppStart ==
    /\ schema' = [tables |-> schema.tables \cup Mapped,
                  extras |-> IF "experiments" \in schema.tables THEN schema.extras ELSE Extras]
    /\ started' = TRUE
    /\ UNCHANGED <<revision, outcome>>

SchemaNext == Upgrade \/ Downgrade \/ AppStart

SchemaSpec == SchemaInit /\ [][SchemaNext]_schemaVars

-----------------------------------------------------------------------------
(* Properties *)

(* Type invariant of the database. *)
SchemaTypeOK ==
    /\ schema \in [tables : SUBSET (Mapped \cup Former), extras : SUBSET Extras]
    /\ revision \in 0 .. Newest
    /\ started \in BOOLEAN
    /\ outcome \in [command : {"none", "upgrade", "downgrade"}, ok : BOOLEAN]

(* Once the service has started on a database, no command in any order     *)
(* takes one of the tables it queries, or their rows, away from it         *)
(* (alembic/versions: both scripts drop the data-quality tables).          *)
TablesKept == started => Mapped \subseteq schema.tables
=============================================================================
