------------------------------ MODULE Database ------------------------------
(***************************************************************************)
(* The PostgreSQL schema and its seeds: `alembic upgrade`, `alembic        *)
(* downgrade`, app.seeds.ontology_seed and app.seeds.prompt_seed, run by   *)
(* operators who do not wait for each other.                               *)
(*                                                                         *)
(* alembic/env.py runs all revisions of a command in one transaction, and  *)
(* so does each seed.  A statement waits for a transaction that has        *)
(* created, dropped or written what it touches, and sees what is committed *)
(* when it runs.  Columns and indexes are created with their table and are *)
(* left out, the unique indexes the seeds run into excepted.               *)
(***************************************************************************)
EXTENDS Naturals, FiniteSets, Sequences, SequencesExt

CONSTANTS Operator, Seeds   \* Seeds: the seeds that are run

-----------------------------------------------------------------------------
(* The revisions, as their tables in order of creation. *)

Table(name, references) == [name |-> name, references |-> references]

DocumentTables ==
    << Table("document", {}), Table("document_chunk", {"document"}) >>

OntologyTables ==
    << Table("ontology_entity_type", {}), Table("ontology_relation_type", {}) >>

\* source_entity_id, target_entity_id and merged_into_id refer to entities.
StagingTables ==
    << Table("extracted_entity", {"document", "document_chunk"}),
       Table("extracted_relation", {"document", "document_chunk", "extracted_entity"}),
       Table("audit_log", {}) >>

SyncLogTables == << Table("graph_sync_log", {}) >>

PromptTables ==
    << Table("prompt_template", {}), Table("prompt_version", {"prompt_template"}) >>

QueryLogTables == << Table("ai_query_log", {}) >>

Revision ==
    << DocumentTables, OntologyTables, StagingTables, SyncLogTables, PromptTables,
       QueryLogTables >>

Latest == Len(Revision)
Names(k) == {Revision[k][i].name : i \in DOMAIN Revision[k]}
TablesAt(k) == UNION {Names(i) : i \in 1..k}
AllTables == TablesAt(Latest)
References(t) ==
    UNION {table.references : table \in
              {u \in UNION {Range(Revision[k]) : k \in 1..Latest} : u.name = t}}

\* A seed looks for its rows of each table in turn and inserts those missing.
SeedOf ==
    [ontology |-> <<"ontology_entity_type", "ontology_relation_type">>,
     prompt   |-> <<"prompt_template", "prompt_version">>]
SeedTable == UNION {Range(SeedOf[s]) : s \in DOMAIN SeedOf}

ASSUME DatabaseAssumption ==
    /\ Seeds \subseteq DOMAIN SeedOf
    /\ \A k \in 1..Latest : \A i \in DOMAIN Revision[k] :
         Revision[k][i].references \subseteq
             TablesAt(k - 1) \cup {Revision[k][j].name : j \in 1..i-1}

VARIABLES
    tables,     \* committed
    revision,   \* the committed row of alembic_version
    rows,       \* how often each seed table holds its seed rows
    command     \* what each operator runs, with its open transaction

databaseVars == <<tables, revision, rows, command>>

\* base is the revision alembic read, at the one it has got to; done counts the
\* tables of the revision (or of the seed) dealt with; inserted are the seed
\* tables written.
Command ==
    [kind : {"none", "upgrade", "downgrade"} \cup DOMAIN SeedOf,
     base : 0..Latest, at : 0..Latest, target : 0..Latest, done : 0..3,
     tables : SUBSET AllTables, found : BOOLEAN, selected : BOOLEAN,
     inserted : SUBSET SeedTable]

None == [kind |-> "none", base |-> 0, at |-> 0, target |-> 0, done |-> 0,
         tables |-> {}, found |-> FALSE, selected |-> FALSE, inserted |-> {}]

DatabaseTypeOK ==
    /\ tables \subseteq AllTables
    /\ revision \in 0..Latest
    /\ rows \in [SeedTable -> Nat]
    /\ command \in [Operator -> Command]

DatabaseInit ==
    /\ tables = {}
    /\ revision = 0
    /\ rows = [t \in SeedTable |-> 0]
    /\ command = [o \in Operator |-> None]

SetCommand(o, c) == command' = [command EXCEPT ![o] = c]
Migrates(o) == command[o].kind \in {"upgrade", "downgrade"}
Stamped(o) == Migrates(o) /\ command[o].at # command[o].base

\* The tables an open migration has created or dropped, and those an open seed
\* has read or written: a lock on each is held to the end of the transaction.
Changed(o) ==
    IF Migrates(o)
    THEN (command[o].tables \ TablesAt(command[o].base))
             \cup (TablesAt(command[o].base) \ command[o].tables)
    ELSE {}
Touched(o) ==
    IF command[o].kind \in DOMAIN SeedOf
    THEN {SeedOf[command[o].kind][i] :
              i \in 1..command[o].done + (IF command[o].selected THEN 1 ELSE 0)}
    ELSE {}
ChangedByOthers(o) == UNION {Changed(p) : p \in Operator \ {o}}
TouchedByOthers(o) == UNION {Touched(p) : p \in Operator \ {o}}
InsertedByOthers(o) == UNION {command[p].inserted : p \in Operator \ {o}}

-----------------------------------------------------------------------------
(* alembic *)

Alembic(o, kind, target) ==
    /\ command[o].kind = "none"
    /\ SetCommand(o, [None EXCEPT !.kind = kind, !.base = revision, !.at = revision,
                                  !.target = target, !.tables = TablesAt(revision)])
    /\ UNCHANGED <<tables, revision, rows>>

Upgrade(o) == Alembic(o, "upgrade", Latest)
Downgrade(o) == \E k \in 0..revision-1 : Alembic(o, "downgrade", k)

\* Every exception and every crash ends the transaction.
Abort(o) ==
    /\ command[o].kind # "none"
    /\ SetCommand(o, None)
    /\ UNCHANGED <<tables, revision, rows>>

\* A table another operator has just committed is refused: Abort.
CreateTable(o) ==
    LET c == command[o]
        k == c.at + 1
    IN  /\ c.kind = "upgrade" /\ c.at < c.target
        /\ c.done < Len(Revision[k])
        /\ LET t == Revision[k][c.done + 1]
           IN  /\ ({t.name} \cup t.references) \cap ChangedByOthers(o) = {}
               /\ t.name \notin tables
               /\ t.references \subseteq c.tables
               /\ SetCommand(o, [c EXCEPT !.tables = @ \cup {t.name}, !.done = @ + 1])
        /\ UNCHANGED <<tables, revision, rows>>

\* downgrade() drops the tables of a revision in the opposite order.
DropTable(o) ==
    LET c == command[o]
    IN  /\ c.kind = "downgrade" /\ c.at > c.target
        /\ c.done < Len(Revision[c.at])
        /\ LET t == Reverse(Revision[c.at])[c.done + 1].name
           IN  /\ t \notin ChangedByOthers(o) \cup TouchedByOthers(o)
               /\ t \in tables
               /\ \A u \in c.tables \ {t} : t \notin References(u)
               /\ SetCommand(o, [c EXCEPT !.tables = @ \ {t}, !.done = @ + 1])
        /\ UNCHANGED <<tables, revision, rows>>

\* UPDATE alembic_version WHERE version_num = the revision this command knows:
\* it waits for another one's and must then find the row as it was.
Stamp(o) ==
    LET c == command[o]
        k == IF c.kind = "upgrade" THEN c.at + 1 ELSE c.at - 1
    IN  /\ Migrates(o) /\ c.at # c.target
        /\ c.done = Len(Revision[IF c.kind = "upgrade" THEN k ELSE c.at])
        /\ \A p \in Operator \ {o} : ~Stamped(p)
        /\ revision = c.base
        /\ SetCommand(o, [c EXCEPT !.at = k, !.done = 0])
        /\ UNCHANGED <<tables, revision, rows>>

\* Mutant of CommitMigration: a transaction for each table.
CommitMigrationEach(o) ==
    /\ Migrates(o)
    /\ tables' = command[o].tables
    /\ revision' = command[o].at
    /\ rows' = [t \in SeedTable |-> IF t \in tables' THEN rows[t] ELSE 0]
    /\ SetCommand(o, None)

CommitMigration(o) ==
    /\ Migrates(o) /\ command[o].at = command[o].target
    /\ tables' = (tables \cup Changed(o)) \ (Changed(o) \ command[o].tables)
    /\ revision' = IF Stamped(o) THEN command[o].at ELSE revision
    /\ rows' = [t \in SeedTable |-> IF t \in tables' THEN rows[t] ELSE 0]
    /\ SetCommand(o, None)

-----------------------------------------------------------------------------
(* The seeds. *)

RunSeed(o, s) ==
    /\ command[o].kind = "none"
    /\ SetCommand(o, [None EXCEPT !.kind = s])
    /\ UNCHANGED <<tables, revision, rows>>

SeedsAt(o, selected) ==
    /\ command[o].kind \in DOMAIN SeedOf
    /\ command[o].done < 2
    /\ command[o].selected = selected

CurrentTable(o) == SeedOf[command[o].kind][command[o].done + 1]

\* A table that is not there, or is being dropped, ends or delays the seed.
Reachable(o) ==
    /\ CurrentTable(o) \in tables
    /\ CurrentTable(o) \notin ChangedByOthers(o)

\* get_entity_type_by_name and the like: only committed rows are seen.
SelectRows(o) ==
    /\ SeedsAt(o, FALSE)
    /\ Reachable(o)
    /\ SetCommand(o, [command[o] EXCEPT !.selected = TRUE,
                                        !.found = rows[CurrentTable(o)] > 0])
    /\ UNCHANGED <<tables, revision, rows>>

\* Mutant of InsertRows: no unique index.
InsertRowsUnindexed(o) ==
    /\ SeedsAt(o, TRUE)
    /\ Reachable(o)
    /\ SetCommand(o, [command[o] EXCEPT
                        !.selected = FALSE, !.done = @ + 1,
                        !.inserted = IF command[o].found THEN @
                                     ELSE @ \cup {CurrentTable(o)}])
    /\ UNCHANGED <<tables, revision, rows>>

\* The unique index makes an insert wait for another open one of the same rows,
\* and refuses it (Abort) once they are committed.
Insertable(o) ==
    \/ command[o].found
    \/ CurrentTable(o) \notin InsertedByOthers(o) /\ rows[CurrentTable(o)] = 0

InsertRows(o) ==
    /\ SeedsAt(o, TRUE)
    /\ Reachable(o)
    /\ Insertable(o)
    /\ SetCommand(o, [command[o] EXCEPT
                        !.selected = FALSE, !.done = @ + 1,
                        !.inserted = IF command[o].found THEN @
                                     ELSE @ \cup {CurrentTable(o)}])
    /\ UNCHANGED <<tables, revision, rows>>

CommitSeed(o) ==
    /\ command[o].kind \in DOMAIN SeedOf
    /\ command[o].done = 2
    /\ rows' = [t \in SeedTable |->
                  IF t \in command[o].inserted THEN rows[t] + 1 ELSE rows[t]]
    /\ SetCommand(o, None)
    /\ UNCHANGED <<tables, revision>>

-----------------------------------------------------------------------------

DatabaseNext ==
    \E o \in Operator :
        \/ Upgrade(o) \/ Downgrade(o) \/ CreateTable(o) \/ DropTable(o)
        \/ Stamp(o) \/ CommitMigration(o)
        \/ \E s \in Seeds : RunSeed(o, s)
        \/ SelectRows(o) \/ InsertRows(o) \/ CommitSeed(o)
        \/ Abort(o)

DatabaseSpec == DatabaseInit /\ [][DatabaseNext]_databaseVars

-----------------------------------------------------------------------------

\* The tables are those of the revision alembic_version names, whoever migrates
\* at the same time and wherever a migration dies (alembic/env.py).
WholeRevisions == tables = TablesAt(revision)

\* The rows of a seed are there together or not at all, and once (the seeds).
SeededOnce ==
    \A s \in DOMAIN SeedOf :
        /\ rows[SeedOf[s][1]] = rows[SeedOf[s][2]]
        /\ rows[SeedOf[s][1]] <= 1

=============================================================================
